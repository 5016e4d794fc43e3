----------------------------- MODULE MCGdsRing -------------------------------
(* Instances of GdsRing for TLC. *)
EXTENDS GdsRing

\* Two groups with one reference each, of different page sizes.
OneRefEach == << <<1>>, <<2>> >>

\* One group with two references.
TwoRefs == << <<1, 1>> >>

\* Block b of group g in page b + g + shift, around the end of the tensor.
Shifted(shift) == [g \in Groups |-> [b \in Blocks |-> (b + g + shift) % NumPages]]
TwoTables == {Shifted(0), Shifted(1)}

\* registered is read only in the modes that register, and by WindowRegistered only
\* until a shared pool is shut down: it tells no other states apart.
RegisteredView ==
  LET read == mode # "compat" /\ ~(pool.shared /\ pool.shut)
  IN <<mode, IF read THEN registered ELSE {}, pool, ring, files, gpu, job>>
=============================================================================
