---------------------------- MODULE MCRangeSlice ----------------------------
(***************************************************************************)
(* The default table, two cells of the raster (one of them with the        *)
(* keyframe flag), and differences whose exponent is zero or beyond the    *)
(* tenth state of a context.                                               *)
(***************************************************************************)
EXTENDS RangeSlice, DefaultStateTransition

MCTable == [state \in Byte |-> kDefaultStateTransition[state + 1]]
MCContexts == {"keyframe", "header", "content"}
MCCells == {<<0, 0>>, <<1, 0>>}
MCSamples == {0, -1, 1500}
MCBodies == {<<0>>, <<255>>}
MCChecks == {<<>>, <<0, 255, 255, 255, 255>>}
=============================================================================
