----------------------- MODULE MCGolombRiceAdaptation -----------------------
(***************************************************************************)
(* Nine-bit differences (RGB of eight bits) from the corners of the range  *)
(* and around zero: repeated with a period of up to three, or one value    *)
(* until the bias has followed it to its limit and then a step; long       *)
(* enough for the count to reach its limit.                                *)
(***************************************************************************)
EXTENDS GolombRiceAdaptation

MCSample(v) == [interrupts |-> FALSE, value |-> v]
MCInterruption(v) == [interrupts |-> TRUE, value |-> v]

MCValues == {MCSample(v) : v \in {-256, -3, 0, 1, 255, 256}}
            \cup {MCInterruption(v) : v \in {-1, 1, 256}}

MCSteps == {Append([n \in 1..320 |-> MCSample(v)], MCSample(w)) :
              v \in {-130, 130}, w \in {-256, 255, 256}}

MCContents == UNION {[1..n -> MCValues] : n \in 1..3} \cup MCSteps
=============================================================================
