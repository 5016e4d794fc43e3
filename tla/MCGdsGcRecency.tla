--------------------------- MODULE MCGdsGcRecency ----------------------------
(* The instance of MCGdsGcManager, with the history of uses. *)
EXTENDS GdsGcRecency, TLC

CONSTANTS pathA, pathB, pathC, job1

\* Chunks of two groups: two are twice as large as the third.
Uneven == (pathA :> 2) @@ (pathB :> 2) @@ (pathC :> 1)
=============================================================================
