----------------------------- MODULE FrameSlices -----------------------------
(***************************************************************************)
(* The slices of a frame.  The encoder puts a footer with the size behind  *)
(* each slice and joins them; the parser knows where the frame ends and    *)
(* finds the slices backwards from there, then reads their headers in      *)
(* order and has the grid checked.  In a legacy frame there are no         *)
(* footers, and headers are read until the slices cover the grid.  On the  *)
(* way the frame may be damaged.                                           *)
(***************************************************************************)
EXTENDS SliceGrid, SequencesExt, FiniteSetsExt

CONSTANTS
  Sources,        \* [stream, ec, verify, legacy, intra, keyframe, slices : Seq([rect, data])]
  Transports(_)   \* what may happen to the frame of a source; see Received

Byte == 0..255

\* What a header byte can say; see HeaderByte.
Rects == [x : 0..3, y : 0..3, width : 1..4, height : 1..4]

\* A stream that is intra-only has no other frames (slice_encode_executor.cpp:122).
ASSUME SourcesAssumption ==
  \A s \in Sources :
    /\ s.stream \in Streams
    /\ {s.ec, s.verify, s.legacy, s.intra, s.keyframe} \subseteq BOOLEAN
    /\ s.legacy => ~s.ec
    /\ s.intra => s.keyframe
    /\ s.slices \in Seq([rect : Rects, data : Seq(Byte)])

ASSUME TransportsAssumption ==
  \A s \in Sources : \A t \in Transports(s) :
    /\ t.order \in Seq(DOMAIN s.slices)
    /\ t.cut \in Nat
    /\ \A k \in DOMAIN t.bytes : t.bytes[k] \in Byte

VARIABLES
  source, transport,
  payload,        \* what the parser is given
  pc,             \* locate, count, headers, flag, legacy, or done
  remaining,      \* remaining_size of the scan
  located,        \* [offset, size] from the last slice to the first
  preceding,      \* count_preceding_slices: what was found in front of a damaged slice
  parsed,         \* the rectangles of the headers
  keyframe,       \* as it is in front of the first header
  status          \* [code, slice]; slice -1 is none

vars == <<source, transport, payload, pc, remaining, located, preceding, parsed, keyframe, status>>

stream == source.stream
-----------------------------------------------------------------------------
\* The CRC is abstracted to a sum, which has what matters of it: it is zero over a slice
\* that was completed with its parity, also over several such slices, and not when a byte
\* of them is replaced.
Checksum(bytes) ==
  LET sum[k \in 0..Len(bytes)] == IF k = 0 THEN 0 ELSE (sum[k - 1] + bytes[k]) % 256
  IN sum[Len(bytes)]

Parity(bytes) == <<0, 0, 0, (256 - Checksum(bytes)) % 256>>

\* The header stands for what the range coder makes of it.
HeaderByte(r) == r.x + (4 * r.y) + (16 * (r.width - 1)) + (64 * (r.height - 1))

HeaderOf(byte) ==
  [x |-> byte % 4, y |-> (byte \div 4) % 4,
   width |-> 1 + ((byte \div 16) % 4), height |-> 1 + ((byte \div 64) % 4)]

FooterSize(ec) == IF ec THEN 8 ELSE 3

Size24(n) == <<n \div 65536, (n \div 256) % 256, n % 256>>

WithFooter(bytes, ec) ==
  LET sized == bytes \o Size24(Len(bytes))
  IN IF ec THEN sized \o <<0>> \o Parity(sized \o <<0>>) ELSE sized

Flag(s) == <<IF s.keyframe THEN 1 ELSE 0>>

Content(s, i) ==
  (IF i = 1 THEN Flag(s) ELSE <<>>)
    \o <<HeaderByte(s.slices[i].rect)>> \o s.slices[i].data

\* SliceFooterWriter::append refuses a slice whose size has more than 24 bits.
ASSUME SizeAssumption ==
  \A s \in Sources : \A i \in DOMAIN s.slices : Len(Content(s, i)) < 16777216

\* The pieces of the frame that are sent, one for each slice.
Pieces(s) ==
  [i \in DOMAIN s.slices |->
     IF s.legacy THEN <<HeaderByte(s.slices[i].rect)>>
     ELSE WithFooter(Content(s, i), s.ec)]

\* assemble; a legacy frame has the headers first, and then the contents.
Assembled(s) ==
  (IF s.legacy THEN Flag(s) ELSE <<>>) \o FlattenSeq(Pieces(s))
    \o (IF s.legacy THEN FlattenSeq([i \in DOMAIN s.slices |-> s.slices[i].data]) ELSE <<>>)

InOrder(s) == [i \in DOMAIN s.slices |-> i]

\* A transport [order, cut, bytes]: which pieces arrive in which order, how much is cut
\* off at the end, and which bytes are replaced by what.
Received(s, t) ==
  LET whole == IF t.order = InOrder(s) THEN Assembled(s)
               ELSE FlattenSeq([i \in DOMAIN t.order |-> Pieces(s)[t.order[i]]])
  IN [k \in 1..(Len(whole) - t.cut) |-> IF k \in DOMAIN t.bytes THEN t.bytes[k] ELSE whole[k]]

Init ==
  /\ source \in Sources
  /\ transport \in Transports(source)
  /\ payload = Received(source, transport)
  /\ pc = IF source.legacy THEN "flag" ELSE "locate"
  /\ remaining = Len(payload)
  /\ located = <<>>
  /\ preceding = 0
  /\ parsed = <<>>
  /\ keyframe = FALSE
  /\ status = [code |-> "none", slice |-> -1]

MaximumSliceCount == stream.h * stream.v

Return(code, slice) ==
  /\ pc' = "done"
  /\ status' = [code |-> code, slice |-> slice]

RefuseEmpty ==
  /\ pc # "done" /\ payload = <<>>
  /\ Return("invalid", -1)
  /\ UNCHANGED <<source, transport, payload, remaining, located, preceding, parsed, keyframe>>
-----------------------------------------------------------------------------
Bytes(from, size) == SubSeq(payload, from + 1, from + size)

SizeAt(offset) ==
  65536 * payload[offset + 1] + 256 * payload[offset + 2] + payload[offset + 3]

ReservedStatus(offset) == source.ec /\ payload[offset + 4] > 2

\* locate_trailing_slice_candidate of the first "size" bytes of the payload.
Candidate(size, verify) ==
  LET footer == size - FooterSize(source.ec)
      found == [offset |-> footer - SizeAt(footer), size |-> SizeAt(footer)]
  IN IF footer < 0 \/ ReservedStatus(footer) \/ SizeAt(footer) > footer
     THEN [code |-> "syntax", found |-> [offset |-> 0, size |-> 0]]
     ELSE IF verify /\ source.ec
               /\ Checksum(Bytes(found.offset, found.size + FooterSize(source.ec))) # 0
     THEN [code |-> "crc", found |-> found]
     ELSE [code |-> "ok", found |-> found]

Scanned == Candidate(remaining, source.verify)

Searching == pc = "locate" /\ remaining # 0 /\ Len(located) < MaximumSliceCount

LocateSlice ==
  /\ Searching /\ Scanned.code = "ok"
  /\ located' = Append(located, Scanned.found)
  /\ remaining' = Scanned.found.offset
  /\ UNCHANGED <<source, transport, payload, pc, preceding, parsed, keyframe, status>>

RefuseFooter ==
  /\ Searching /\ Scanned.code = "syntax"
  /\ Return("syntax", 0)
  /\ UNCHANGED <<source, transport, payload, remaining, located, preceding, parsed, keyframe>>

TooManySlices ==
  /\ pc = "locate" /\ remaining # 0 /\ Len(located) = MaximumSliceCount
  /\ Return("syntax", 0)
  /\ UNCHANGED <<source, transport, payload, remaining, located, preceding, parsed, keyframe>>

\* The slice with a wrong checksum gets an index when the slices in front can be counted.
FindMismatch ==
  /\ Searching /\ Scanned.code = "crc"
  /\ pc' = "count"
  /\ remaining' = Scanned.found.offset
  /\ UNCHANGED <<source, transport, payload, located, preceding, parsed, keyframe, status>>

\* Deviation: the slices in front have to be intact.
CandidateInFrontVerified == Candidate(remaining, source.verify)

CandidateInFront == Candidate(remaining, FALSE)

CountSlice ==
  /\ pc = "count" /\ remaining # 0
  /\ preceding < MaximumSliceCount - Len(located) - 1
  /\ CandidateInFront.code = "ok"
  /\ remaining' = CandidateInFront.found.offset
  /\ preceding' = preceding + 1
  /\ UNCHANGED <<source, transport, payload, pc, located, parsed, keyframe, status>>

CountFails ==
  /\ pc = "count" /\ remaining # 0
  /\ \/ preceding = MaximumSliceCount - Len(located) - 1
     \/ CandidateInFront.code # "ok"
  /\ Return("crc", 0)
  /\ UNCHANGED <<source, transport, payload, remaining, located, preceding, parsed, keyframe>>

NameMismatch ==
  /\ pc = "count" /\ remaining = 0
  /\ Return("crc", preceding)
  /\ UNCHANGED <<source, transport, payload, remaining, located, preceding, parsed, keyframe>>

\* Deviation: the slices stay in the order in which they were found.
FrontToBackUnreversed(found) == found

FrontToBack(found) == Reverse(found)

AllLocated ==
  /\ pc = "locate" /\ remaining = 0 /\ payload # <<>>
  /\ pc' = "headers"
  /\ located' = FrontToBack(located)
  /\ UNCHANGED <<source, transport, payload, remaining, preceding, parsed, keyframe, status>>
-----------------------------------------------------------------------------
\* What validate_slice_raster_coverage promises.
Coverage == INSTANCE RasterCoverage WITH slices <- parsed, verdict <- status.code

RectanglesOf(s) == [i \in DOMAIN s.slices |-> s.slices[i].rect]

\* An encoder cuts the grid into slices.
ASSUME CoverAssumption ==
  \A s \in Sources : Coverage!Verdict(s.stream, RectanglesOf(s)) = "complete"

\* Deviation: only the number of cells is compared.
CoverageVerdictOfArea(rectangles) ==
  IF Len(rectangles) > 0
       /\ FoldLeft(LAMBDA a, r : a + Area(r), 0, rectangles) = MaximumSliceCount
  THEN "complete" ELSE "incomplete"

CoverageVerdict(rectangles) == Coverage!Verdict(stream, rectangles)

\* Which of the slices is named is left to the sweep.
ReturnRefused(count) == \E slice \in 0..(count - 1) : Return("coverage", slice)

IsKeyframe(byte) == byte % 2 = 1

\* The payload of a slice contains its footer, so there is always something to read; the
\* first slice starts with the keyframe flag.
Flagged == IF parsed = <<>> THEN 1 ELSE 0

HeaderAt(k) == payload[located[Len(parsed) + 1].offset + k]

Header == HeaderOf(HeaderAt(Flagged + 1))

HeaderRefused ==
  \/ Flagged = 1 /\ source.intra /\ ~IsKeyframe(HeaderAt(1))
  \/ OutsideRaster(stream, Header)

ParseHeader ==
  /\ pc = "headers" /\ Len(parsed) < Len(located)
  /\ ~HeaderRefused
  /\ parsed' = Append(parsed, Header)
  /\ keyframe' = IF Flagged = 1 THEN IsKeyframe(HeaderAt(1)) ELSE keyframe
  /\ UNCHANGED <<source, transport, payload, pc, remaining, located, preceding, status>>

RefuseHeader ==
  /\ pc = "headers" /\ Len(parsed) < Len(located)
  /\ HeaderRefused
  /\ Return("syntax", Len(parsed))
  /\ UNCHANGED <<source, transport, payload, remaining, located, preceding, parsed, keyframe>>

CheckCoverage ==
  /\ pc = "headers" /\ Len(parsed) = Len(located)
  /\ CASE CoverageVerdict(parsed) = "complete" -> Return("ok", -1)
       [] CoverageVerdict(parsed) = "refused" -> ReturnRefused(Len(parsed))
       [] OTHER -> Return("coverage", -1)
  /\ UNCHANGED <<source, transport, payload, remaining, located, preceding, parsed, keyframe>>
-----------------------------------------------------------------------------
ReadLegacyFlag ==
  /\ pc = "flag" /\ payload # <<>>
  /\ IF source.intra /\ ~IsKeyframe(payload[1])
     THEN Return("syntax", -1) /\ UNCHANGED keyframe
     ELSE pc' = "legacy" /\ keyframe' = IsKeyframe(payload[1]) /\ UNCHANGED status
  /\ UNCHANGED <<source, transport, payload, remaining, located, preceding, parsed>>

NextLegacyHeader == HeaderOf(payload[Len(parsed) + 2])

LegacyRefused ==
  IF Len(parsed) + 1 < Len(payload) THEN OutsideRaster(stream, NextLegacyHeader) ELSE TRUE

RefuseLegacyHeader ==
  /\ pc = "legacy" /\ LegacyRefused
  /\ Return("syntax", Len(parsed))
  /\ UNCHANGED <<source, transport, payload, remaining, located, preceding, parsed, keyframe>>

\* The grid is checked after each header; missing cells are no error yet, unless there
\* may not be more slices.
ParseLegacyHeader ==
  LET verdict == CoverageVerdict(parsed')
  IN /\ pc = "legacy" /\ ~LegacyRefused
     /\ parsed' = Append(parsed, NextLegacyHeader)
     /\ CASE verdict = "complete" -> Return("ok", -1)
          [] verdict = "refused" -> ReturnRefused(Len(parsed'))
          [] verdict = "incomplete" /\ Len(parsed') = MaximumSliceCount ->
               Return("exhausted", -1)
          [] OTHER -> UNCHANGED <<pc, status>>
     /\ UNCHANGED <<source, transport, payload, remaining, located, preceding, keyframe>>

Next ==
  \/ RefuseEmpty \/ LocateSlice \/ RefuseFooter \/ TooManySlices
  \/ FindMismatch \/ CountSlice \/ CountFails \/ NameMismatch
  \/ AllLocated \/ ParseHeader \/ RefuseHeader \/ CheckCoverage
  \/ ReadLegacyFlag \/ ParseLegacyHeader \/ RefuseLegacyHeader

Spec == Init /\ [][Next]_vars
-----------------------------------------------------------------------------
Done == pc = "done"

Rectangles == RectanglesOf(source)

\* How many bytes there are in front of piece i.
BytesBefore(pieces, i) ==
  LET before[k \in 1..(Len(pieces) + 1)] ==
        IF k = 1 THEN 0 ELSE before[k - 1] + Len(pieces[k - 1])
  IN before[i]

\* Where the piece of slice i lies in an undamaged frame.
StartOf(i) == BytesBefore(Pieces(source), i)

Expected ==
  [i \in DOMAIN source.slices |-> [offset |-> StartOf(i), size |-> Len(Content(source, i))]]

Complete == transport.order = InOrder(source) /\ transport.cut = 0

\* Every frame that arrives as it was sent is taken apart into the slices it was made of,
\* in their order, whatever their bytes look like (slice_payload_locator.cpp:59); of a
\* legacy frame no byte of the content is taken for a header, and reading headers always
\* ends before there are more slices than cells (frame_parser.cpp:389).
SlicesRecovered ==
  /\ status.code # "exhausted"
  /\ Done /\ Complete /\ transport.bytes = <<>> =>
       /\ status.code = "ok"
       /\ parsed = Rectangles /\ keyframe = source.keyframe
       /\ ~source.legacy => located = Expected

\* The bytes of piece i that a scan does not need to find its way.
Harmless(i) ==
  LET size == Len(Content(source, i))
  IN (StartOf(i) + 1)..(StartOf(i) + size + 8) \ (StartOf(i) + size + 1)..(StartOf(i) + size + 4)

Harmed == {i \in DOMAIN source.slices : DOMAIN transport.bytes \cap Harmless(i) # {}}

\* When contents or checksums are damaged, the slice that is named is the last one that
\* is, however many slices in front of it are damaged as well, and its index counts from
\* the front although it was found from the back (slice_payload_locator.cpp:158).
DamageNamed ==
  /\ Done /\ Complete /\ source.ec /\ source.verify
  /\ Harmed # {} /\ DOMAIN transport.bytes \subseteq UNION {Harmless(i) : i \in Harmed}
  => status = [code |-> "crc", slice |-> Max(Harmed) - 1]

\* The keyframe flag is read where the first slice is expected, and nowhere else.
FirstInPlace == \A i \in DOMAIN transport.order : transport.order[i] = 1 <=> i = 1

End(slice) == slice.offset + slice.size + FooterSize(source.ec)

\* The slices lie next to each other and fill the payload.
Contiguous(slices) ==
  /\ slices # <<>>
  /\ slices[1].offset = 0 /\ End(slices[Len(slices)]) = Len(payload)
  /\ \A i \in 2..Len(slices) : slices[i].offset = End(slices[i - 1])

Accepted == Done /\ status.code = "ok" /\ ~source.legacy

\* The slices of any accepted frame lie next to each other and fill it, with checksums
\* and without (frame_parser.cpp:495).
NothingBetween == Accepted => Contiguous(located)

\* With checksums, a frame is accepted only when it consists of slices that were sent,
\* unaltered; and of each of them once, unless the first one, which has the flag, moved.
OnlySent ==
  Accepted /\ source.ec /\ source.verify =>
    LET arrived == {Bytes(located[i].offset, End(located[i]) - located[i].offset) :
                      i \in DOMAIN located}
        sent == {Pieces(source)[i] : i \in DOMAIN source.slices}
    IN /\ arrived \subseteq sent
       /\ FirstInPlace => arrived = sent /\ Len(located) = Len(source.slices)

\* An accepted frame has no byte that is not of one of its slices, and with checksums no
\* slice that was not sent (frame_parser.cpp:495).
OnlyWholeFrames == NothingBetween /\ OnlySent

(***************************************************************************)
(* The inductive invariant.                                                *)
(***************************************************************************)
TypeInv ==
  /\ source \in Sources
  /\ transport \in Transports(source)
  /\ payload = Received(source, transport)
  /\ pc \in (IF source.legacy THEN {"flag", "legacy", "done"}
             ELSE {"locate", "count", "headers", "done"})
  /\ remaining \in 0..Len(payload)
  /\ located \in Seq([offset : Nat, size : Nat])
  /\ \A j \in DOMAIN located : End(located[j]) <= Len(payload)
  /\ parsed \in Seq(Rects)
  /\ status.code # "exhausted"

\* The slices found so far, from the last one on, fill what is behind the part that
\* remains.
ScanInv ==
  /\ pc \in {"locate", "flag"} => parsed = <<>>
  /\ pc = "locate" =>
       /\ remaining = IF located = <<>> THEN Len(payload) ELSE located[Len(located)].offset
       /\ \A j \in 1..Len(located) :
            End(located[j]) = IF j = 1 THEN Len(payload) ELSE located[j - 1].offset
  /\ pc = "headers" \/ Accepted => Contiguous(located)

Intact == Complete /\ transport.bytes = <<>>

\* A prefix of the rectangles has been read.
ParsedInv ==
  /\ Len(parsed) <= Len(Rectangles)
  /\ \A i \in 1..Len(parsed) : parsed[i] = Rectangles[i]
  /\ pc = "legacy" \/ parsed # <<>> => keyframe = source.keyframe

\* What becomes of a frame that arrives as it was sent.
IntactInv ==
  Intact =>
    /\ pc # "count" /\ ParsedInv
    /\ pc = "locate" =>
         /\ Len(located) <= Len(Expected)
         /\ remaining = StartOf(Len(Expected) - Len(located) + 1)
         /\ \A j \in 1..Len(located) : located[j] = Expected[Len(Expected) - j + 1]
    /\ pc = "headers" => located = Expected
    /\ pc = "legacy" => Len(parsed) < Len(Rectangles)
    /\ Done =>
         /\ status.code = "ok" /\ parsed = Rectangles /\ keyframe = source.keyframe
         /\ ~source.legacy => located = Expected

IInv == TypeInv /\ ScanInv /\ IntactInv

\* The position of the status byte of piece i.
StatusByte(i) == StartOf(i) + Len(Content(source, i)) + 4

\* The reference says that slice indexes are zero-based in payload order
\* (docs/DECODER_REFERENCE.md:423): a reserved status is reported for the slice it is in.
ReservedStatusNamed ==
  \A i \in DOMAIN source.slices :
    Done /\ Complete /\ source.ec /\ DOMAIN transport.bytes = {StatusByte(i)} /\ status.code = "syntax"
      => status.slice \in {-1, i - 1}
=============================================================================
