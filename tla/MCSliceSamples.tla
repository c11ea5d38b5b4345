--------------------------- MODULE MCSliceSamples ---------------------------
(***************************************************************************)
(* Small slices of each colour space and coder: all images over a few      *)
(* samples, the corners of the sample range among them, and one stream     *)
(* with rows as long as the first longer runs.                             *)
(***************************************************************************)
EXTENDS SliceSamples

\* Quantization tables with three steps, weighted so that contexts do not collide.
Steps(weight) ==
  [i \in 0..255 |-> IF i = 0 THEN 0 ELSE IF i < 128 THEN weight ELSE -weight]

MCTables == <<Steps(1), Steps(0), Steps(0), Steps(3), Steps(9)>>

Stream(golomb, rgb, extra, bits, width, height) ==
  [golomb |-> golomb, rgb |-> rgb, extra |-> extra, bits |-> bits, width |-> width,
   height |-> height, tables |-> MCTables, context_count |-> 14]

Over(s, samples) == [Planes(s) -> [1..s.height -> [1..s.width -> samples]]]

Flat(s, sample) == [p \in Planes(s) |-> [j \in 1..s.height |-> [i \in 1..s.width |-> sample]]]

\* One sample stands out.
Dots(s, sample) ==
  {[Flat(s, 0) EXCEPT ![1][j][i] = sample] : j \in 1..s.height, i \in 1..s.width}

Gray == Stream(TRUE, FALSE, FALSE, 2, 3, 2)
GrayAlpha == Stream(TRUE, FALSE, TRUE, 1, 2, 2)
Wide == Stream(TRUE, FALSE, FALSE, 1, 7, 3)
Rgba == Stream(TRUE, TRUE, TRUE, 1, 2, 1)
Rgb9 == Stream(TRUE, TRUE, FALSE, 9, 2, 1)
RangeGray16 == Stream(FALSE, FALSE, FALSE, 16, 2, 3)
RangeRgb9 == Stream(FALSE, TRUE, FALSE, 9, 2, 2)
RangeRgba == Stream(FALSE, TRUE, TRUE, 1, 2, 1)

MCStreams == {Gray, GrayAlpha, Wide, Rgba, Rgb9, RangeGray16, RangeRgb9, RangeRgba}

MCImages ==
  [s \in MCStreams |->
     CASE s = Gray -> Over(s, {0, 1, 3})
       [] s = Wide -> Dots(s, 1) \cup {Flat(s, 0), Flat(s, 1)}
       [] s = RangeGray16 -> Over(s, {0, 65535})
       [] s = RangeRgb9 -> {i \in Over(s, {0, 511}) : i[1][1] = i[2][2] /\ i[1][2] = i[3][1]}
       [] s = Rgb9 -> Over(s, {0, 511})
       [] OTHER -> Over(s, {0, 1})]

MCLaterImages ==
  [s \in MCStreams |->
     {Flat(s, 0)} \cup {i \in Dots(s, 1) : i[1][1][1] = 1}]

\* Runs that another encoder wrote: some full ones, then anything.
MCForeign ==
  {[i \in 1..n |-> 1] \o bits : n \in {0, 8, 9}, bits \in [1..5 -> {0, 1}]}
=============================================================================
