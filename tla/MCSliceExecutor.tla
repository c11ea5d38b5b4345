--------------------------- MODULE MCSliceExecutor ---------------------------
(***************************************************************************)
(* A frame of three cells in a row and the rectangles (0,0,1,1),           *)
(* (1,0,1,1), (1,0,2,1) and (2,0,1,1), numbered in the order of their      *)
(* SliceLayout arrays.                                                     *)
(***************************************************************************)
EXTENDS SliceExecutor

MCRasters == 1..4
MCCells == 1..3
MCCover == <<{1}, {2}, {2, 3}, {3}>>
MCBodies == {"b", "c"}

Good == <<"b">>
Bad == <<Corrupt>>
Broken == <<Malformed>>
ReadAhead == <<Corrupt, "b">>
ReadAheadBad == <<Corrupt, Corrupt>>
BothDecode == <<"b", "c">>
BrokenReadAhead == <<Malformed, "b">>

Shape(rasters, kinds) ==
  {[i \in DOMAIN rasters |-> [raster |-> rasters[i], candidates |-> k[i]]] :
     k \in [DOMAIN rasters -> kinds]}

MCFrames ==
  Shape(<<1, 2, 4>>, {Good, Bad, ReadAhead, ReadAheadBad})
    \cup Shape(<<4, 2, 1>>, {Good, Bad})
    \cup Shape(<<1, 3>>, {Good, Broken, BothDecode, BrokenReadAhead})
    \cup Shape(<<3, 1>>, {Good, ReadAhead})
    \cup Shape(<<1, 2, 3>>, {Good})
    \cup Shape(<<1, 2>>, {Good, Bad})
=============================================================================
