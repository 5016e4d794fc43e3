---------------------------- MODULE MCCuFilePool -----------------------------
(* Instances of CuFilePool for TLC. *)
EXTENDS CuFilePool

CONSTANTS t1, t2, pathA, pathB

ThreadSymmetry == Permutations(Threads)
PoolSymmetry == ThreadSymmetry \cup Permutations(Paths)

\* A state up to the identities of entries and files, and without spoilt where mixed
\* has the path: no guard and no property tells two states with one view apart.
CacheView ==
  LET held == handles \o <<ent[t1], ent[t2]>>
      files == <<disk[pathA], disk[pathB]>> \o
               [k \in 1..Len(held) |-> IF held[k] = None THEN None ELSE entry[held[k]].inode]
      EntrySeen(e) == IF e = None THEN None
        ELSE <<entry[e].path, entry[e].refs, entry[e].open, {t \in Threads : ent[t] = e}>>
      FileSeen(n) == IF n = None THEN None
        ELSE <<content[n], {k \in 1..Len(files) : files[k] = n}>>
  IN <<pc, op, faults, mixed, spoilt \ mixed, [k \in 1..Len(held) |-> EntrySeen(held[k])],
       [k \in 1..Len(files) |-> FileSeen(files[k])]>>
=============================================================================
