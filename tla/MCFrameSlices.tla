---------------------------- MODULE MCFrameSlices ----------------------------
(***************************************************************************)
(* Frames of four and of three slices, with and without checksums, a large *)
(* slice, and legacy frames.  Single bytes are replaced everywhere, pairs  *)
(* of bytes with checksums, the end is cut off anywhere, and the slices    *)
(* arrive in any order, some lost and some repeated.                       *)
(***************************************************************************)
EXTENDS FrameSlices, TLC

Stream(h, v) ==
  [width |-> 4, height |-> 4, h |-> h, v |-> v, log2_h |-> 0, log2_v |-> 0,
   chroma |-> FALSE, rgb |-> FALSE, extra |-> FALSE]

Slice(x, y, width, height, data) ==
  [rect |-> [x |-> x, y |-> y, width |-> width, height |-> height], data |-> data]

CellSlices == <<Slice(0, 0, 1, 1, <<9>>), Slice(1, 0, 1, 1, <<0, 3>>),
                Slice(0, 1, 1, 1, <<>>), Slice(1, 1, 1, 1, <<5>>)>>

Wide == <<Slice(0, 0, 1, 1, <<17>>), Slice(1, 0, 1, 1, <<>>), Slice(0, 1, 2, 1, <<0, 0, 2>>)>>

Large == <<Slice(0, 0, 1, 1, [k \in 1..300 |-> k % 7])>>

\* The frames of three slices are keyframes of an intra-only stream, the others are not.
Frame(stream_, slices, ec, verify, legacy) ==
  [stream |-> stream_, slices |-> slices, ec |-> ec, verify |-> verify, legacy |-> legacy,
   intra |-> slices = Wide, keyframe |-> slices = Wide]

MCStreams == {Stream(2, 2), Stream(1, 1)}

MCSources ==
  {Frame(Stream(2, 2), slices, ec_verify[1], ec_verify[2], FALSE) :
     slices \in {CellSlices, Wide},
     ec_verify \in {<<TRUE, TRUE>>, <<TRUE, FALSE>>, <<FALSE, FALSE>>}}
  \cup {Frame(Stream(2, 2), slices, FALSE, FALSE, TRUE) : slices \in {CellSlices, Wide}}
  \cup {Frame(Stream(1, 1), Large, FALSE, FALSE, FALSE)}

Values == {0, 1, 3, 16, 255}

Replaced(bytes, positions) ==
  UNION {{k :> v : v \in Values \ {bytes[k]}} : k \in positions}

\* Every byte of a pair is incremented; they may be in two slices, or in the content and
\* the checksum of one.
Pairs(bytes) ==
  {[k \in {p, q} |-> (bytes[k] + 1) % 256] : p, q \in DOMAIN bytes}

Sent(s, bytes) == [order |-> InOrder(s), cut |-> 0, bytes |-> bytes]

\* More slices than the grid has cells, the last one with a damaged checksum.
Overfull(s) ==
  LET repeated == [order |-> <<1, 2, 3, 1, 2>>, cut |-> 0, bytes |-> <<>>]
      end == Len(Received(s, repeated))
  IN {[repeated EXCEPT !.bytes = end :> 77]}

MCTransports(s) ==
  LET whole == Assembled(s)
      size == Len(whole)
      short == size < 100
  IN {Sent(s, <<>>)}
     \cup {Sent(s, b) : b \in Replaced(whole, IF short THEN 1..size ELSE 1..3)}
     \cup (IF s.verify /\ short THEN {Sent(s, b) : b \in Pairs(whole)} ELSE {})
     \cup {[order |-> InOrder(s), cut |-> n, bytes |-> <<>>] :
              n \in IF short THEN 1..size ELSE {1, 8}}
     \cup (IF s.legacy \/ ~short THEN {}
           ELSE {[order |-> o, cut |-> 0, bytes |-> <<>>] :
                   o \in UNION {[1..n -> DOMAIN s.slices] : n \in 1..5}}
             \cup Overfull(s))
==============================================================================
