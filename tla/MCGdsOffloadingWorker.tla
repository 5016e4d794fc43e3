------------------------ MODULE MCGdsOffloadingWorker ------------------------
(* Instances of GdsOffloadingWorker for TLC. *)
EXTENDS GdsOffloadingWorker, TLC

CONSTANTS st, ld, empty, s1, s2

\* A load of two chunks against a store of one.
LoadHeavy == (st :> 1) @@ (ld :> 2)

\* A store of two chunks against a load of one, and a store without chunks.
WithEmpty == (st :> 2) @@ (ld :> 1) @@ (empty :> 0)

TwoSlots == {s1, s2}
SlotSymmetry == Permutations(TwoSlots)
=============================================================================
