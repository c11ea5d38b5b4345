--------------------------- MODULE MCCodecSession ---------------------------
(***************************************************************************)
(* Two configurations of version 3, one legacy configuration, one picture, *)
(* and keyframe intervals that make every frame, every other and every     *)
(* third a keyframe, with a frame more than the longest interval.          *)
(***************************************************************************)
EXTENDS CodecSession
=============================================================================
