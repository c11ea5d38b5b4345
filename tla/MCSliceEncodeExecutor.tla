----------------------- MODULE MCSliceEncodeExecutor -----------------------
(***************************************************************************)
(* Streams of one to three slices, coded by one to three threads; two      *)
(* bodies tell the slices of a frame, and the frames of a GOP, apart.      *)
(***************************************************************************)
EXTENDS SliceEncodeExecutor

MCBodies == {"b", "c"}
=============================================================================
