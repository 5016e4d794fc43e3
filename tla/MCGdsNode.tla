----------------------------- MODULE MCGdsNode -------------------------------
(* Instances of GdsNode for TLC. *)
EXTENDS GdsNode

CONSTANTS modelA, modelB
=============================================================================
