---------------------------- MODULE MCQuantTables ----------------------------
(* Half tables of three entries; runs of one to three, and too long ones. *)
EXTENDS QuantTables
=============================================================================
