--------------------------- MODULE MCGdsGcManager ----------------------------
(* Instances of GdsGcManager for TLC. *)
EXTENDS GdsGcManager, TLC

CONSTANTS pathA, pathB, pathC, job1, job2

\* Chunks of two groups: two are twice as large as the third.
Uneven == (pathA :> 2) @@ (pathB :> 2) @@ (pathC :> 1)
=============================================================================
