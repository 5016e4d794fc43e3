----------------------- MODULE MCGdsOffloadingManager ------------------------
(* Instances of GdsOffloadingManager for TLC. *)
EXTENDS GdsOffloadingManager

CONSTANTS j1, j2, a, b
=============================================================================
