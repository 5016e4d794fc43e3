-------------------------- MODULE CuFilePool_proofs ---------------------------
(***************************************************************************)
(* Proofs about CuFilePool, for any threads, paths, cache size and number  *)
(* of faults.                                                              *)
(*                                                                         *)
(* PoolInv is the inductive invariant of the cache.  Locals, Reached and   *)
(* Fresh say what a thread knows of its entry, Counted that the count of   *)
(* an entry covers its threads, also of the entries that are no longer     *)
(* cached, and Room that evictions keep the cache small enough for the     *)
(* finite sets of identities never to run out.                             *)
(*                                                                         *)
(* FileInv adds the names and contents of the files and the failures that  *)
(* are owed for what has gone wrong on a path that is not mixed; GhostInv  *)
(* who removes, or fills, an empty file.                                   *)
(***************************************************************************)
EXTENDS CuFilePool, DataLemmas

\* The elements of a sequence have different keys.
Keyed(s, key) == \A i, j \in 1..Len(s) : key[s[i]] = key[s[j]] => i = j

-----------------------------------------------------------------------------
(* The handle cache as a sequence. *)

\* An element added at the end.
LEMMA AppendFacts ==
  ASSUME NEW D, NEW s \in Seq(D), NEW e \in D
  PROVE  /\ Append(s, e) \in Seq(D)
         /\ Len(Append(s, e)) = Len(s) + 1
         /\ Append(s, e)[Len(s) + 1] = e
         /\ \A i \in 1..Len(s) : Append(s, e)[i] = s[i]
         /\ ToSet(Append(s, e)) = ToSet(s) \cup {e}
<1>1. PICK r : r = Append(s, e)
  OBVIOUS
<1>2. /\ r \in Seq(D) /\ Len(r) = Len(s) + 1 /\ Len(s) \in Nat /\ r[Len(s) + 1] = e
      /\ \A i \in 1..Len(s) : r[i] = s[i]
  BY <1>1
<1>3. DOMAIN r = 1..Len(s) + 1 /\ DOMAIN s = 1..Len(s)
  BY <1>2
<1>4. ToSet(r) = ToSet(s) \cup {e}
  <2>1. \A i \in DOMAIN r : i = Len(s) + 1 \/ i \in DOMAIN s
    BY <1>2, <1>3
  <2>2. Len(s) + 1 \in DOMAIN r /\ DOMAIN s \subseteq DOMAIN r
    BY <1>2, <1>3
  <2>3. \A x : x \in ToSet(r) <=> (x \in ToSet(s) \/ x = e)
    BY <1>2, <1>3, <2>1, <2>2 DEF ToSet
  <2> QED
    BY <2>3
<1> QED
  BY <1>1, <1>2, <1>4

\* An element with a key of its own can be added at the end.
LEMMA AppendKeyed ==
  ASSUME NEW D, NEW s \in Seq(D), NEW e \in D, NEW key, Keyed(s, key),
         \A x \in ToSet(s) : key[x] # key[e]
  PROVE  Keyed(Append(s, e), key)
<1>1. PICK r : r = Append(s, e)
  OBVIOUS
<1>2. /\ Len(r) = Len(s) + 1 /\ Len(s) \in Nat /\ r[Len(s) + 1] = e
      /\ \A i \in 1..Len(s) : r[i] = s[i]
  BY <1>1, AppendFacts
<1>3. \A i \in 1..Len(r) : i = Len(s) + 1 \/ i \in 1..Len(s)
  BY <1>2
<1>4. \A i \in 1..Len(s) : s[i] \in ToSet(s)
  BY DEF ToSet
<1>5. Keyed(r, key)
  BY <1>2, <1>3, <1>4 DEF Keyed
<1> QED
  BY <1>1, <1>5

\* What Without leaves, as a set and as a keyed sequence.
LEMMA WithoutFacts ==
  ASSUME NEW D, NEW s \in Seq(D), NEW S, NEW key, Keyed(s, key)
  PROVE  /\ Without(s, S) \in Seq(D)
         /\ ToSet(Without(s, S)) = ToSet(s) \ S
         /\ Keyed(Without(s, S), key)
<1>1. Without(s, S) \in Seq(D) /\ ToSet(Without(s, S)) = ToSet(s) \ S
  BY WithoutElements DEF ToSet
<1>2. Keyed(Without(s, S), key)
  <2>1. \A i, j \in 1..Len(s) : key[s[i]] = key[s[j]] => i = j
    BY DEF Keyed
  <2>2. \A i, j \in 1..Len(Without(s, S)) :
          key[Without(s, S)[i]] = key[Without(s, S)[j]] => i = j
    BY <2>1, WithoutDistinct
  <2> QED
    BY <2>2 DEF Keyed
<1> QED
  BY <1>1, <1>2

\* The cache has as many handles as its length says, and one for each key.
LEMMA KeyedFacts ==
  ASSUME NEW D, NEW s \in Seq(D), NEW key, Keyed(s, key)
  PROVE  /\ IsFiniteSet(ToSet(s)) /\ Cardinality(ToSet(s)) = Len(s)
         /\ \A i, j \in 1..Len(s) : s[i] = s[j] => i = j
         /\ \A x, y \in ToSet(s) : key[x] = key[y] => x = y
<1>1. \A i, j \in 1..Len(s) : s[i] = s[j] => i = j
  BY DEF Keyed
<1>2. IsFiniteSet(ToSet(s)) /\ Cardinality(ToSet(s)) = Len(s)
  BY <1>1, DistinctLength DEF ToSet
<1>3. \A x, y \in ToSet(s) : key[x] = key[y] => x = y
  BY DEF Keyed, ToSet
<1> QED
  BY <1>1, <1>2, <1>3

\* A hit moves an entry to the end: nothing else changes.
LEMMA MoveToEnd ==
  ASSUME NEW D, NEW s \in Seq(D), NEW key, Keyed(s, key), NEW e \in ToSet(s)
  PROVE  LET r == Append(Without(s, {e}), e)
         IN  r \in Seq(D) /\ ToSet(r) = ToSet(s) /\ Keyed(r, key) /\ Len(r) = Len(s)
<1>1. PICK S : S = {e}
  OBVIOUS
<1>2. PICK w : w = Without(s, S)
  OBVIOUS
<1>3. w \in Seq(D) /\ ToSet(w) = ToSet(s) \ S /\ Keyed(w, key)
  BY <1>2, WithoutFacts
<1>4. e \in D
  BY DEF ToSet
<1>5. \A x \in ToSet(w) : key[x] # key[e]
  BY <1>1, <1>3, KeyedFacts
<1>6. PICK r : r = Append(w, e)
  OBVIOUS
<1>7. r \in Seq(D) /\ ToSet(r) = ToSet(w) \cup {e}
  BY <1>3, <1>4, <1>6, AppendFacts
<1>8. Keyed(r, key)
  BY <1>3, <1>4, <1>5, <1>6, AppendKeyed
<1>9. ToSet(r) = ToSet(s)
  BY <1>1, <1>3, <1>7
<1>10. Len(r) = Len(s)
  BY <1>7, <1>8, <1>9, KeyedFacts
<1>11. r = Append(Without(s, {e}), e)
  BY <1>1, <1>2, <1>6
<1> QED
  BY <1>7, <1>8, <1>9, <1>10, <1>11

\* The elements of s with the one of e's key replaced by e.
Replaced(s, key, e) == [k \in 1..Len(s) |-> IF key[s[k]] = key[e] THEN e ELSE s[k]]

\* An overwrite in place takes out the element of that key, and no other.
LEMMA ReplacedFacts ==
  ASSUME NEW D, NEW s \in Seq(D), NEW key, Keyed(s, key), NEW e \in D,
         NEW k \in 1..Len(s), key[s[k]] = key[e]
  PROVE  /\ Replaced(s, key, e) \in Seq(D)
         /\ ToSet(Replaced(s, key, e)) = {x \in ToSet(s) : key[x] # key[e]} \cup {e}
         /\ Keyed(Replaced(s, key, e), key)
<1>1. PICK r : r = Replaced(s, key, e)
  OBVIOUS
<1>2. Len(s) \in Nat /\ DOMAIN s = 1..Len(s) /\ \A i \in 1..Len(s) : s[i] \in D
  OBVIOUS
<1>3. r = [i \in 1..Len(s) |-> IF key[s[i]] = key[e] THEN e ELSE s[i]]
  BY <1>1 DEF Replaced
<1>4. r \in [1..Len(s) -> D]
  BY <1>2, <1>3
<1>5. r \in Seq(D) /\ Len(r) = Len(s) /\ DOMAIN r = 1..Len(s)
  BY <1>2, <1>4
<1>6. \A i \in 1..Len(s) : key[r[i]] = key[s[i]]
  BY <1>3
<1>7. Keyed(r, key)
  BY <1>5, <1>6 DEF Keyed
<1>8. \A x : x \in ToSet(r) <=> (x = e \/ (x \in ToSet(s) /\ key[x] # key[e]))
  <2>1. \A x : x \in ToSet(r) <=> \E i \in 1..Len(s) : r[i] = x
    BY <1>5 DEF ToSet
  <2>2. \A x : x \in ToSet(s) <=> \E i \in 1..Len(s) : s[i] = x
    BY <1>2 DEF ToSet
  <2>3. r[k] = e
    BY <1>3
  <2> QED
    BY <1>3, <2>1, <2>2, <2>3
<1>9. ToSet(r) = {x \in ToSet(s) : key[x] # key[e]} \cup {e}
  BY <1>8
<1> QED
  BY <1>1, <1>5, <1>7, <1>9

-----------------------------------------------------------------------------
(* The inductive invariant. *)

Live(e) == entry[e] # None
PathOf == [e \in Entries |-> entry[e].path]
Refd == ToSet(handles) \cup {ent[t] : t \in Threads}
Using(t) == pc[t] \in {"insert", "io", "drop", "release"}
Held(e) == {t \in Threads : Using(t) /\ ent[t] = e}

Shape ==
  /\ pc \in [Threads -> PCs] /\ op \in [Threads -> Op \cup {None}]
  /\ ent \in [Threads -> Entries \cup {None}]
  /\ handles \in Seq(Entries)
  /\ entry \in [Entries -> Entry \cup {None}]
  /\ disk \in [Paths -> Inodes \cup {None}]
  /\ content \in [Inodes -> Contents]
  /\ faults \in 0..MaxFaults

Keys == Keyed(handles, PathOf)

Locals ==
  \A t \in Threads :
    /\ ent[t] # None <=> Using(t)
    /\ op[t] # None <=> pc[t] # "idle"
    /\ Using(t) => Live(ent[t]) /\ entry[ent[t]].path = op[t].path

Reached ==
  /\ \A e \in ToSet(handles) : Live(e)
  /\ \A e \in Entries : Live(e) => e \in Refd

Fresh ==
  \A t \in Threads : pc[t] = "insert" =>
    /\ IsOpen(ent[t]) /\ ent[t] \notin ToSet(handles)
    /\ \A u \in Threads : ent[u] = ent[t] => u = t

\* A handle that an overwrite or a pop took out of the cache is still counted,
\* but a drop by one of its threads leaves the count as it is.
Counted ==
  \A e \in Entries : Live(e) =>
    /\ entry[e].refs >= Cardinality(Held(e))
    /\ e \in ToSet(handles) => entry[e].refs = Cardinality(Held(e))
    /\ (\E t \in Threads : pc[t] = "insert" /\ ent[t] = e) => entry[e].refs = 1

Room == Len(handles) <= CacheMax + Cardinality(Threads)

\* What a sweep may unlink, and the histories.
Sets == mixed \subseteq Paths /\ spoilt \subseteq Paths

PoolInv == Shape /\ Keys /\ Locals /\ Reached /\ Fresh /\ Counted /\ CachedOpen /\ Room

\* A step of t leaves the locals of the other threads alone.
Others(t) ==
  \A u \in Threads \ {t} : pc'[u] = pc[u] /\ op'[u] = op[u] /\ ent'[u] = ent[u]

-----------------------------------------------------------------------------
(* Finite sets, and identities that do not run out. *)

\* None is apart from the identities and from what they name.
LEMMA NoneApart ==
  /\ None \notin Entries /\ None \notin Inodes /\ None \notin Op /\ None \notin Entry
BY PoolAssumption, NoneAssumption

\* The constants that bound the model are finite.
LEMMA FiniteFacts ==
  /\ IsFiniteSet(Threads) /\ Cardinality(Threads) \in Nat
  /\ IsFiniteSet(Paths) /\ Cardinality(Paths) \in Nat
  /\ CacheMax \in Nat
  /\ \A e : IsFiniteSet(Held(e)) /\ Cardinality(Held(e)) \in Nat
<1>1. IsFiniteSet(Threads) /\ IsFiniteSet(Paths) /\ CacheMax \in Nat
  BY PoolAssumption
<1>2. ASSUME NEW e
      PROVE  IsFiniteSet(Held(e)) /\ Cardinality(Held(e)) \in Nat
  <2>1. Held(e) \subseteq Threads
    BY DEF Held
  <2> QED
    BY <1>1, <2>1, FS_Subset, FS_CardinalityType
<1> QED
  BY <1>1, <1>2, FS_CardinalityType

\* The values of a function are no more than its arguments.
LEMMA ValuesBound ==
  ASSUME NEW S, IsFiniteSet(S), NEW f
  PROVE  /\ IsFiniteSet({f[x] : x \in S})
         /\ Cardinality({f[x] : x \in S}) <= Cardinality(S)
<1> DEFINE T == {f[x] : x \in S}
           g == [x \in S |-> f[x]]
<1>1. g \in Surjection(S, T)
  <2>1. g \in [S -> T] /\ \A y \in T : \E x \in S : g[x] = y
    OBVIOUS
  <2> HIDE DEF g, T
  <2> QED
    BY <2>1 DEF Surjection
<1> HIDE DEF g, T
<1>2. IsFiniteSet(T) /\ Cardinality(T) <= Cardinality(S)
  BY <1>1, FS_Surjection
<1> QED
  BY <1>2 DEF T

\* The least number of a nonempty set of numbers is one of them.
LEMMA LeastIn ==
  ASSUME NEW N \in Nat, NEW S \in SUBSET (1..N), S # {}
  PROVE  Least(S) \in S
<1>1. S \in SUBSET (0..N)
  OBVIOUS
<1>2. \E n \in S : \A m \in S : n <= m
  BY <1>1, LeastNumber
<1> QED
  BY <1>2 DEF Least

\* Of more numbers than a set has elements, one is not in it.
LEMMA OneIsFree ==
  ASSUME NEW N \in Nat, NEW S, IsFiniteSet(S), Cardinality(S) < N
  PROVE  Least((1..N) \ S) \in (1..N) \ S
<1>1. IsFiniteSet(1..N) /\ Cardinality(1..N) = N
  BY FS_Interval
<1>2. Cardinality(S) \in Nat
  BY FS_CardinalityType
<1>3. ~(1..N \subseteq S)
  BY <1>1, <1>2, FS_Subset
<1>4. (1..N) \ S # {} /\ (1..N) \ S \in SUBSET (1..N)
  BY <1>3
<1> QED
  BY <1>4, LeastIn

\* Two finite sets together.
LEMMA UnionBound ==
  ASSUME NEW S, IsFiniteSet(S), NEW T, IsFiniteSet(T)
  PROVE  IsFiniteSet(S \cup T) /\ Cardinality(S \cup T) <= Cardinality(S) + Cardinality(T)
<1>1. PICK I : I = S \cap T
  OBVIOUS
<1>2. IsFiniteSet(I)
  BY <1>1, FS_Subset, I \in SUBSET S
<1>3. Cardinality(S) \in Nat /\ Cardinality(T) \in Nat /\ Cardinality(I) \in Nat
  BY <1>2, FS_CardinalityType
<1>4. IsFiniteSet(S \cup T)
        /\ Cardinality(S \cup T) = Cardinality(S) + Cardinality(T) - Cardinality(I)
  BY <1>1, FS_Union
<1> QED
  BY <1>3, <1>4

\* The entries that are in use: fewer than there are, while a thread holds none.
LEMMA LiveBound ==
  ASSUME Shape, Keys, Reached, Room, NEW t \in Threads, ent[t] = None
  PROVE  /\ IsFiniteSet({f \in Entries : Live(f)})
         /\ Cardinality({f \in Entries : Live(f)}) < CacheMax + 2 * Cardinality(Threads)
<1> DEFINE L == {f \in Entries : Live(f)}
<1>1. PICK C : C = ToSet(handles)
  OBVIOUS
<1>2. PICK U : U = Threads \ {t}
  OBVIOUS
<1>3. PICK H : H = {ent[u] : u \in U}
  OBVIOUS
<1>4. IsFiniteSet(C) /\ Cardinality(C) = Len(handles)
  BY <1>1, KeyedFacts DEF Keys, Shape
<1>5. IsFiniteSet(U) /\ Cardinality(U) = Cardinality(Threads) - 1
  BY <1>2, FiniteFacts, FS_RemoveElement
<1>6. IsFiniteSet(H) /\ Cardinality(H) <= Cardinality(U)
  BY <1>3, <1>5, ValuesBound
<1>7. PICK B : B = C \cup H
  OBVIOUS
<1>8. IsFiniteSet(B) /\ Cardinality(B) <= Cardinality(C) + Cardinality(H)
  BY <1>4, <1>6, <1>7, UnionBound
<1>9. L \in SUBSET B
  <2>1. ASSUME NEW f \in Entries, Live(f)
        PROVE  f \in B
    <3>1. f \in ToSet(handles) \/ \E u \in Threads : ent[u] = f
      BY <2>1 DEF Reached, Refd
    <3>2. f # None
      BY NoneApart
    <3> QED
      BY <1>1, <1>2, <1>3, <1>7, <3>1, <3>2
  <2> QED
    BY <2>1
<1> HIDE DEF L
<1>10. IsFiniteSet(L) /\ Cardinality(L) <= Cardinality(B)
  BY <1>8, <1>9, FS_Subset
<1>11. /\ Cardinality(L) \in Nat /\ Cardinality(B) \in Nat /\ Cardinality(C) \in Nat
       /\ Cardinality(H) \in Nat /\ Cardinality(Threads) \in Nat /\ CacheMax \in Nat
       /\ Cardinality(U) \in Nat
  BY <1>4, <1>5, <1>6, <1>8, <1>10, FiniteFacts, FS_CardinalityType
<1>12. Cardinality(C) <= CacheMax + Cardinality(Threads)
  BY <1>4 DEF Room
<1>13. Cardinality(L) < CacheMax + 2 * Cardinality(Threads)
  BY <1>5, <1>6, <1>8, <1>10, <1>11, <1>12
<1> QED
  BY <1>10, <1>13 DEF L

\* _get_handle has an identity for a new entry ...
LEMMA FreeEntry ==
  ASSUME Shape, Keys, Reached, Room, NEW t \in Threads, ent[t] = None
  PROVE  /\ Least({f \in Entries : entry[f] = None}) \in Entries
         /\ ~Live(Least({f \in Entries : entry[f] = None}))
<1>1. PICK L : L = {f \in Entries : Live(f)}
  OBVIOUS
<1>2. PICK N : N = CacheMax + 2 * Cardinality(Threads)
  OBVIOUS
<1>3. N \in Nat /\ Entries = 1..N
  BY <1>2, FiniteFacts DEF Entries
<1>4. IsFiniteSet(L) /\ Cardinality(L) < N
  BY <1>1, <1>2, LiveBound
<1>5. Least((1..N) \ L) \in (1..N) \ L
  BY <1>3, <1>4, OneIsFree
<1>6. {f \in Entries : entry[f] = None} = Entries \ L
  BY <1>1 DEF Live
<1>7. Least(Entries \ L) \in Entries /\ Least(Entries \ L) \notin L
  BY <1>3, <1>5, Zenon
<1>8. Least(Entries \ L) \in Entries /\ ~Live(Least(Entries \ L))
  BY <1>1, <1>7
<1> QED
  BY <1>6, <1>8, Zenon

\* ... and for the file that O_CREAT makes: one that nothing names or has open.
LEMMA FreeInode ==
  ASSUME Shape, Keys, Reached, Room, NEW t \in Threads, ent[t] = None, NEW p \in Paths
  PROVE  /\ Opened(p) \in Inodes
         /\ disk[p] # None => Opened(p) = disk[p]
         /\ disk[p] = None => /\ \A q \in Paths : disk[q] # Opened(p)
                              /\ \A e \in Entries : Live(e) => entry[e].inode # Opened(p)
<1>1. PICK L : L = {f \in Entries : Live(f)}
  OBVIOUS
<1>2. PICK R : R = {disk[q] : q \in Paths}
  OBVIOUS
<1>3. PICK inodeOf : inodeOf = [e \in L |-> entry[e].inode]
  OBVIOUS
<1>4. PICK I : I = {inodeOf[e] : e \in L}
  OBVIOUS
<1>5. PICK N : N = CacheMax + 2 * Cardinality(Threads) + Cardinality(Paths)
  OBVIOUS
<1>6. N \in Nat /\ Inodes = 1..N
  BY <1>5, FiniteFacts DEF Inodes
<1>7. IsFiniteSet(L) /\ Cardinality(L) < CacheMax + 2 * Cardinality(Threads)
  BY <1>1, LiveBound
<1>8. IsFiniteSet(R) /\ Cardinality(R) <= Cardinality(Paths)
  BY <1>2, ValuesBound, FiniteFacts
<1>9. IsFiniteSet(I) /\ Cardinality(I) <= Cardinality(L)
  BY <1>4, <1>7, ValuesBound
<1>10. PICK B : B = R \cup I
  OBVIOUS
<1>11. IsFiniteSet(B) /\ Cardinality(B) <= Cardinality(R) + Cardinality(I)
  BY <1>8, <1>9, <1>10, UnionBound
<1>12. Cardinality(B) < N
  <2>1. /\ Cardinality(L) \in Nat /\ Cardinality(B) \in Nat /\ Cardinality(R) \in Nat
        /\ Cardinality(I) \in Nat /\ Cardinality(Threads) \in Nat /\ CacheMax \in Nat
        /\ Cardinality(Paths) \in Nat
    BY <1>7, <1>8, <1>9, <1>11, FiniteFacts, FS_CardinalityType
  <2> QED
    BY <1>5, <1>7, <1>8, <1>9, <1>11, <2>1
<1>13. Least((1..N) \ B) \in (1..N) \ B
  BY <1>6, <1>11, <1>12, OneIsFree
<1>14. Least(Inodes \ B) \in Inodes /\ Least(Inodes \ B) \notin B
  BY <1>6, <1>13, Zenon
<1>15. Range(disk) \cup {entry[e].inode : e \in {f \in Entries : entry[f] # None}} = B
  <2>1. Range(disk) = R
    BY <1>2 DEF Range, Shape
  <2>2. {entry[e].inode : e \in {f \in Entries : entry[f] # None}} = I
    BY <1>1, <1>3, <1>4 DEF Live
  <2> QED
    BY <1>10, <2>1, <2>2, Zenon
<1>16. Opened(p) = IF disk[p] # None THEN disk[p] ELSE Least(Inodes \ B)
  BY <1>15, Zenon DEF Opened
<1>17. disk[p] \in Inodes \cup {None}
  BY DEF Shape
<1>18. /\ \A q \in Paths : disk[q] \in B
       /\ \A e \in Entries : Live(e) => entry[e].inode \in B
  BY <1>1, <1>2, <1>3, <1>4, <1>10
<1> QED
  BY <1>14, <1>16, <1>17, <1>18

-----------------------------------------------------------------------------
(* What the parts of the steps do. *)

\* What is cached or held keeps its entry, and a file that is named or that
\* such an entry has open its content.
LEMMA SettleFacts ==
  ASSUME NEW ents, NEW names, NEW data, Settle(ents, names, data)
  PROVE  /\ entry' = [e \in Entries |-> IF e \in Refd' THEN ents[e] ELSE None]
         /\ disk' = names
         /\ content' = [n \in Inodes |->
              IF n \in Range(names) \/ \E e \in Refd' \ {None} : ents[e].inode = n
              THEN data[n] ELSE "empty"]
<1>1. PICK R : R = Refd'
  OBVIOUS
<1>2. PICK G : G = {e \in Entries \ R : ents[e] # None}
  OBVIOUS
<1>3. PICK U : U = Range(names) \cup {ents[e].inode : e \in R \ {None}}
  OBVIOUS
<1>4. R = ToSet(handles') \cup {ent'[t] : t \in Threads}
  BY <1>1 DEF Refd
<1>5. /\ entry' = [e \in Entries |-> IF e \in G THEN None ELSE ents[e]]
      /\ disk' = names
      /\ content' = [n \in Inodes |-> IF n \in U THEN data[n] ELSE "empty"]
  BY <1>2, <1>3, <1>4, Zenon DEF Settle
<1>6. [e \in Entries |-> IF e \in G THEN None ELSE ents[e]]
        = [e \in Entries |-> IF e \in R THEN ents[e] ELSE None]
  BY <1>2
<1>7. [n \in Inodes |-> IF n \in U THEN data[n] ELSE "empty"]
        = [n \in Inodes |->
             IF n \in Range(names) \/ \E e \in R \ {None} : ents[e].inode = n
             THEN data[n] ELSE "empty"]
  BY <1>3
<1>8. /\ entry' = [e \in Entries |-> IF e \in R THEN ents[e] ELSE None]
      /\ content' = [n \in Inodes |->
             IF n \in Range(names) \/ \E e \in R \ {None} : ents[e].inode = n
             THEN data[n] ELSE "empty"]
  BY <1>5, <1>6, <1>7
<1> QED
  BY <1>1, <1>5, <1>8

\* The types of what is settled.
LEMMA SettleTypes ==
  ASSUME NEW ents \in [Entries -> Entry \cup {None}],
         NEW names \in [Paths -> Inodes \cup {None}],
         NEW data \in [Inodes -> Contents], Settle(ents, names, data)
  PROVE  /\ entry' \in [Entries -> Entry \cup {None}]
         /\ disk' \in [Paths -> Inodes \cup {None}]
         /\ content' \in [Inodes -> Contents]
<1>1. entry' = [e \in Entries |-> IF e \in Refd' THEN ents[e] ELSE None]
  BY SettleFacts, Zenon
<1>2. disk' = names
  BY SettleFacts, Zenon
<1>3. content' = [n \in Inodes |->
        IF n \in Range(names) \/ \E e \in Refd' \ {None} : ents[e].inode = n
        THEN data[n] ELSE "empty"]
  BY SettleFacts
<1> QED
  BY <1>1, <1>2, <1>3 DEF Contents

\* A failed attempt gives up the entry and is made again, or unlinks.
LEMMA FailFacts ==
  ASSUME Shape, NEW t \in Threads, op[t] # None, Fail(t)
  PROVE  /\ pc' \in [Threads -> PCs] /\ op' \in [Threads -> Op \cup {None}]
         /\ ent' \in [Threads -> Entries \cup {None}]
         /\ Others(t)
         /\ ent'[t] = None /\ pc'[t] \in {"get", "unlink"}
         /\ op'[t] # None /\ op'[t].path = op[t].path /\ op'[t].kind = op[t].kind
         /\ pc'[t] = "get" => op[t].kind = "read" /\ op[t].attempt = 0 /\ op'[t].attempt = 1
         /\ pc'[t] = "unlink" => /\ op'[t] = op[t]
                                 /\ op[t].kind = "read" => op[t].attempt = 1
<1>1. op[t] \in Op
  BY DEF Shape
<1>2. ent' = [ent EXCEPT ![t] = None]
  BY DEF Fail
<1>3. CASE op[t].kind = "read" /\ op[t].attempt = 0
  <2>1. op' = [op EXCEPT ![t].attempt = 1] /\ pc' = [pc EXCEPT ![t] = "get"]
    BY <1>3 DEF Fail, Goto
  <2>2. op'[t] = [op[t] EXCEPT !.attempt = 1] /\ op'[t] \in Op /\ op'[t] # None
    BY <1>1, <2>1, NoneApart DEF Shape, Op
  <2>3. op' \in [Threads -> Op \cup {None}]
    BY <2>1, <2>2 DEF Shape
  <2> QED
    BY <1>1, <1>2, <1>3, <2>1, <2>2, <2>3 DEF Shape, Others, PCs, Op
<1>4. CASE ~(op[t].kind = "read" /\ op[t].attempt = 0)
  <2>1. op' = op /\ pc' = [pc EXCEPT ![t] = "unlink"]
    BY <1>4 DEF Fail, Goto
  <2> QED
    BY <1>1, <1>2, <1>4, <2>1, NoneApart DEF Shape, Others, PCs, Op
<1> QED
  BY <1>3, <1>4

\* What is evicted is cached and idle.
LEMMA VictimFacts ==
  ASSUME Shape, Keys
  PROVE  \A e \in Victims : e \in ToSet(handles) /\ entry[e].refs = 0
<1>1. PICK B : B = {e \in ToSet(handles) : entry[e].refs # 0}
  OBVIOUS
<1>2. PICK idle : idle = Without(handles, B)
  OBVIOUS
<1>3. Victims = {idle[k] : k \in {l \in 1..Len(idle) : l <= Len(handles) + 1 - CacheMax}}
  <2>1. {e \in ToSet(handles) : entry[e].refs # 0} = B
    BY <1>1
  <2> QED
    BY <1>2, <2>1 DEF Victims
<1>4. idle \in Seq(Entries) /\ ToSet(idle) = ToSet(handles) \ B
  BY <1>2, WithoutFacts DEF Shape, Keys
<1>5. \A e \in Victims : e \in ToSet(idle)
  BY <1>3, <1>4 DEF ToSet
<1> QED
  BY <1>1, <1>4, <1>5

\* The new entry is cached under its path, in the place of an earlier one.
LEMMA StoreFacts ==
  ASSUME Shape, NEW h \in Seq(Entries), Keyed(h, PathOf), NEW e \in Entries
  PROVE  /\ Store(h, e) \in Seq(Entries)
         /\ ToSet(Store(h, e)) = {x \in ToSet(h) : entry[x].path # entry[e].path} \cup {e}
         /\ Keyed(Store(h, e), PathOf)
<1>1. Len(h) \in Nat /\ \A k \in 1..Len(h) : h[k] \in Entries
  OBVIOUS
<1>2. \A x \in Entries : PathOf[x] = entry[x].path
  BY DEF PathOf
<1>3. \A x : x \in ToSet(h) <=> \E k \in 1..Len(h) : h[k] = x
  BY DEF ToSet
<1>4. {x \in ToSet(h) : PathOf[x] # PathOf[e]} = {x \in ToSet(h) : entry[x].path # entry[e].path}
  BY <1>1, <1>2, <1>3
<1>5. CASE \E k \in 1..Len(h) : entry[h[k]].path = entry[e].path
  <2>1. Store(h, e) = [k \in 1..Len(h) |-> IF entry[h[k]].path = entry[e].path THEN e ELSE h[k]]
    BY <1>5 DEF Store
  <2>2. Store(h, e) = Replaced(h, PathOf, e)
    BY <1>1, <1>2, <2>1 DEF Replaced
  <2>3. PICK k \in 1..Len(h) : PathOf[h[k]] = PathOf[e]
    BY <1>1, <1>2, <1>5
  <2>4. /\ Replaced(h, PathOf, e) \in Seq(Entries)
        /\ ToSet(Replaced(h, PathOf, e)) = {x \in ToSet(h) : PathOf[x] # PathOf[e]} \cup {e}
        /\ Keyed(Replaced(h, PathOf, e), PathOf)
    BY <2>3, ReplacedFacts
  <2> QED
    BY <1>4, <2>2, <2>4, Zenon
<1>6. CASE ~ \E k \in 1..Len(h) : entry[h[k]].path = entry[e].path
  <2>1. Store(h, e) = Append(h, e)
    BY <1>6 DEF Store
  <2>2. \A x \in ToSet(h) : PathOf[x] # PathOf[e]
    BY <1>1, <1>2, <1>3, <1>6
  <2>3. {x \in ToSet(h) : PathOf[x] # PathOf[e]} = ToSet(h)
    BY <2>2
  <2>4. Keyed(Append(h, e), PathOf)
    BY <2>2, AppendKeyed
  <2>5. Append(h, e) \in Seq(Entries) /\ ToSet(Append(h, e)) = ToSet(h) \cup {e}
    BY AppendFacts
  <2> QED
    BY <1>4, <2>1, <2>3, <2>4, <2>5, Zenon
<1> QED
  BY <1>5, <1>6

\* A cached entry that is counted is held by a thread.
LEMMA BusyIsHeld ==
  ASSUME PoolInv, NEW e \in ToSet(handles), entry[e].refs # 0
  PROVE  \E u \in Threads : Using(u) /\ ent[u] = e
<1>1. e \in Entries
  BY DEF PoolInv, Shape, ToSet
<1>2. entry[e].refs = Cardinality(Held(e))
  BY <1>1 DEF PoolInv, Reached, Counted
<1>3. Held(e) # {}
  BY <1>2, FS_EmptySet
<1> QED
  BY <1>3 DEF Held

\* The eviction loop leaves room for the new entry: the cap is a soft one, but
\* no more entries stay beyond it than there are threads.
LEMMA EvictedRoom ==
  ASSUME PoolInv, NEW t \in Threads, pc[t] = "insert"
  PROVE  Len(Without(handles, Victims)) + 1 <= CacheMax + Cardinality(Threads)
<1>1. PICK C : C = ToSet(handles)
  OBVIOUS
<1>2. PICK B : B = {e \in ToSet(handles) : entry[e].refs # 0}
  OBVIOUS
<1>3. PICK U : U = Threads \ {t}
  OBVIOUS
<1>4. PICK H : H = {ent[u] : u \in U}
  OBVIOUS
<1>5. PICK V : V = Victims
  OBVIOUS
<1>6. PICK idle : idle = Without(handles, B)
  OBVIOUS
<1>7. PICK h : h = Without(handles, V)
  OBVIOUS
<1> SUFFICES Len(h) + 1 <= CacheMax + Cardinality(Threads)
  BY <1>5, <1>7
<1>8. handles \in Seq(Entries) /\ Keyed(handles, PathOf) /\ Len(handles) \in Nat
  BY DEF PoolInv, Shape, Keys
<1>9. IsFiniteSet(C) /\ Cardinality(C) = Len(handles)
  BY <1>1, <1>8, KeyedFacts
<1>10. /\ idle \in Seq(Entries) /\ ToSet(idle) = C \ B /\ Keyed(idle, PathOf)
       /\ h \in Seq(Entries) /\ ToSet(h) = C \ V /\ Keyed(h, PathOf)
  BY <1>1, <1>6, <1>7, <1>8, WithoutFacts
<1>11. /\ Cardinality(ToSet(idle)) = Len(idle) /\ Cardinality(ToSet(h)) = Len(h)
       /\ \A i, j \in 1..Len(idle) : idle[i] = idle[j] => i = j
  BY <1>10, KeyedFacts
<1>12. V = {idle[k] : k \in {l \in 1..Len(idle) : l <= Len(handles) + 1 - CacheMax}}
  <2>1. {e \in ToSet(handles) : entry[e].refs # 0} = B
    BY <1>2
  <2> QED
    BY <1>5, <1>6, <2>1 DEF Victims
<1>13. /\ Cardinality(Threads) \in Nat /\ CacheMax \in Nat /\ CacheMax # 0
       /\ Len(idle) \in Nat /\ Len(h) \in Nat
  BY <1>10, FiniteFacts, PoolAssumption
<1>14. IsFiniteSet(B) /\ Cardinality(B) \in Nat /\ Cardinality(B) + 1 <= Cardinality(Threads)
  <2>1. IsFiniteSet(U) /\ Cardinality(U) = Cardinality(Threads) - 1
    BY <1>3, FiniteFacts, FS_RemoveElement
  <2>2. IsFiniteSet(H) /\ Cardinality(H) <= Cardinality(U)
    BY <1>4, <2>1, ValuesBound
  <2>3. ASSUME NEW e \in B
        PROVE  e \in H
    <3>1. PICK u \in Threads : ent[u] = e
      BY <1>2, BusyIsHeld
    <3>2. ent[t] \notin ToSet(handles)
      BY DEF PoolInv, Fresh
    <3> QED
      BY <1>2, <1>3, <1>4, <3>1, <3>2
  <2>4. B \in SUBSET H
    BY <2>3
  <2>5. IsFiniteSet(B) /\ Cardinality(B) <= Cardinality(H)
    BY <2>2, <2>4, FS_Subset
  <2>6. Cardinality(B) \in Nat /\ Cardinality(H) \in Nat
    BY <2>2, <2>5, FS_CardinalityType
  <2> QED
    BY <1>13, <2>1, <2>2, <2>5, <2>6
<1>15. CASE Len(idle) <= Len(handles) + 1 - CacheMax
  <2>1. \A k \in 1..Len(idle) : k <= Len(handles) + 1 - CacheMax
    BY <1>8, <1>13, <1>15
  <2>2. V = ToSet(idle)
    BY <1>10, <1>12, <2>1 DEF ToSet
  <2>3. ToSet(h) = B
    BY <1>1, <1>2, <1>10, <2>2
  <2> QED
    BY <1>11, <1>13, <1>14, <2>3
<1>16. CASE Len(idle) > Len(handles) + 1 - CacheMax /\ Len(handles) + 1 < CacheMax
  <2>1. V = {}
    BY <1>8, <1>12, <1>13, <1>16
  <2>2. ToSet(h) = C
    BY <1>10, <2>1
  <2> QED
    BY <1>8, <1>9, <1>11, <1>13, <1>16, <2>2
<1>17. CASE Len(idle) > Len(handles) + 1 - CacheMax /\ Len(handles) + 1 >= CacheMax
  <2>1. PICK n : n = Len(handles) + 1 - CacheMax
    OBVIOUS
  <2>2. n \in Nat /\ n <= Len(idle)
    BY <1>8, <1>13, <1>17, <2>1
  <2>3. PICK g : g = [k \in 1..n |-> idle[k]]
    OBVIOUS
  <2>4. \A k \in 1..n : k \in 1..Len(idle) /\ idle[k] \in Entries
    BY <1>10, <1>13, <2>2
  <2>5. g \in Seq(Entries) /\ Len(g) = n /\ DOMAIN g = 1..n
    BY <2>2, <2>3, <2>4
  <2>6. \A i, j \in 1..Len(g) : g[i] = g[j] => i = j
    BY <1>11, <2>3, <2>4, <2>5
  <2>7. Cardinality({g[k] : k \in DOMAIN g}) = n
    BY <2>5, <2>6, DistinctLength
  <2>8. {g[k] : k \in DOMAIN g} = V
    <3>1. {l \in 1..Len(idle) : l <= Len(handles) + 1 - CacheMax} = 1..n
      BY <1>8, <1>13, <2>1, <2>2
    <3>2. V = {idle[k] : k \in 1..n}
      BY <1>12, <3>1, Zenon
    <3> QED
      BY <2>3, <2>5, <3>2
  <2>9. V \in SUBSET C
    BY <1>1, <1>5, VictimFacts DEF PoolInv
  <2>10. Cardinality(C \ V) = Cardinality(C) - Cardinality(V)
    <3>1. IsFiniteSet(V) /\ C \cap V = V
      BY <1>9, <2>9, FS_Subset
    <3>2. Cardinality(C \ V) = Cardinality(C) - Cardinality(C \cap V)
      BY <1>9, FS_Difference
    <3> QED
      BY <3>1, <3>2
  <2>11. Len(h) = Len(handles) - n
    BY <1>9, <1>10, <1>11, <2>7, <2>8, <2>10, Zenon
  <2> QED
    BY <1>8, <1>13, <2>1, <2>2, <2>11
<1> QED
  BY <1>8, <1>13, <1>15, <1>16, <1>17

\* A key counts only on the elements of the sequence.
LEMMA KeyedAgree ==
  ASSUME NEW D, NEW s \in Seq(D), NEW f, NEW g, Keyed(s, f), \A x \in ToSet(s) : g[x] = f[x]
  PROVE  Keyed(s, g)
<1>1. \A i \in 1..Len(s) : s[i] \in ToSet(s)
  BY DEF ToSet
<1> QED
  BY <1>1 DEF Keyed

\* The threads that hold e are the same ...
LEMMA HeldSame ==
  ASSUME NEW t \in Threads, NEW e, Others(t),
         (Using(t)' /\ ent'[t] = e) <=> (Using(t) /\ ent[t] = e)
  PROVE  Held(e)' = Held(e)
<1>1. \A u \in Threads : (Using(u)' /\ ent'[u] = e) <=> (Using(u) /\ ent[u] = e)
  BY DEF Others, Using
<1> QED
  BY <1>1 DEF Held

\* ... or one more ...
LEMMA HeldMore ==
  ASSUME NEW t \in Threads, NEW e, Others(t), Using(t)', ent'[t] = e, ~Using(t)
  PROVE  Cardinality(Held(e)') = Cardinality(Held(e)) + 1
<1>1. Held(e)' = Held(e) \cup {t} /\ t \notin Held(e)
  BY DEF Held, Others, Using
<1>2. IsFiniteSet(Held(e))
  BY FiniteFacts
<1>3. Cardinality(Held(e) \cup {t}) = Cardinality(Held(e)) + 1
  BY <1>1, <1>2, FS_AddElement
<1> QED
  BY <1>1, <1>3

\* ... or one less.
LEMMA HeldLess ==
  ASSUME NEW t \in Threads, NEW e, Others(t), Using(t), ent[t] = e, ~Using(t)'
  PROVE  Cardinality(Held(e)') = Cardinality(Held(e)) - 1
<1>1. Held(e)' = Held(e) \ {t} /\ t \in Held(e)
  BY DEF Held, Others, Using
<1>2. IsFiniteSet(Held(e))
  BY FiniteFacts
<1>3. Cardinality(Held(e) \ {t}) = Cardinality(Held(e)) - 1
  BY <1>1, <1>2, FS_RemoveElement
<1> QED
  BY <1>1, <1>3

-----------------------------------------------------------------------------
(* The invariant holds initially, and every step keeps it. *)

\* No handle is open when the process starts.
LEMMA InitInv ==
  ASSUME Init
  PROVE  PoolInv
<1>1. Cardinality(Threads) \in Nat /\ Cardinality(Paths) \in Nat /\ CacheMax \in Nat
  BY FiniteFacts
<1>2. \A n \in 1..Cardinality(Paths) : n \in Inodes
  BY <1>1 DEF Inodes
<1>3. PICK h : h = handles
  OBVIOUS
<1>4. h \in Seq(Entries) /\ Len(h) = 0 /\ ToSet(h) = {} /\ 1..Len(h) = {}
  <2>1. h = <<>>
    BY <1>3 DEF Init
  <2> QED
    BY <2>1 DEF ToSet
<1>5. Shape
  <2>1. disk \in [Paths -> Inodes \cup {None}]
    BY <1>2 DEF Init
  <2>2. handles \in Seq(Entries)
    BY <1>3, <1>4
  <2>3. faults \in 0..MaxFaults
    BY PoolAssumption DEF Init
  <2> QED
    BY <2>1, <2>2, <2>3 DEF Init, Shape, PCs
<1>6. Keys /\ CachedOpen
  BY <1>3, <1>4 DEF Keys, Keyed, CachedOpen
<1>7. Room
  BY <1>1, <1>3, <1>4 DEF Room
<1>8. Locals /\ Fresh
  BY DEF Init, Locals, Fresh, Using
<1>9. Reached /\ Counted
  BY <1>3, <1>4 DEF Init, Reached, Counted, Live
<1> QED
  BY <1>5, <1>6, <1>7, <1>8, <1>9 DEF PoolInv

\* A step that touches neither the cache nor an entry, and neither gains nor
\* loses one.
LEMMA QuietStep ==
  ASSUME PoolInv, NEW t \in Threads, Others(t),
         pc' \in [Threads -> PCs], op' \in [Threads -> Op \cup {None}],
         disk' \in [Paths -> Inodes \cup {None}], content' \in [Inodes -> Contents],
         faults' \in 0..MaxFaults, handles' = handles, entry' = entry, ent' = ent,
         Using(t)' <=> Using(t), pc'[t] # "insert",
         op'[t] # None <=> pc'[t] # "idle", Using(t) => op'[t] = op[t]
  PROVE  PoolInv'
<1>1. Shape'
  BY DEF PoolInv, Shape
<1>2. PathOf' = PathOf /\ Refd' = Refd
  BY DEF PathOf, Refd
<1>3. Keys' /\ CachedOpen' /\ Room'
  BY <1>2 DEF PoolInv, Keys, CachedOpen, IsOpen, Room
<1>4. \A u \in Threads : Using(u)' <=> Using(u)
  BY DEF Others, Using
<1>5. Locals'
  BY <1>4 DEF PoolInv, Locals, Others, Live
<1>6. Reached'
  BY <1>2 DEF PoolInv, Reached, Live
<1>7. \A u \in Threads : pc'[u] = "insert" => pc[u] = "insert"
  BY DEF Others
<1>8. Fresh'
  BY <1>7 DEF PoolInv, Fresh, IsOpen
<1>9. \A e : Held(e)' = Held(e)
  BY <1>4 DEF Held
<1>10. Counted'
  BY <1>7, <1>9 DEF PoolInv, Counted, Live
<1> QED
  BY <1>1, <1>3, <1>5, <1>6, <1>8, <1>10 DEF PoolInv

\* The start of an operation.
LEMMA BeginInv ==
  ASSUME PoolInv, NEW t \in Threads, NEW kind \in {"write", "read"}, NEW p \in Paths,
         Begin(t, kind, p)
  PROVE  PoolInv'
<1>1. [kind |-> kind, path |-> p, attempt |-> 0] \in Op
  BY DEF Op
<1>2. /\ pc' \in [Threads -> PCs] /\ op' \in [Threads -> Op \cup {None}]
      /\ pc'[t] = "get" /\ pc[t] = "idle" /\ op'[t] # None /\ Others(t)
  BY <1>1, NoneApart DEF Begin, Goto, PoolInv, Shape, PCs, Others
<1> QED
  BY <1>2, QuietStep DEF Begin, PoolInv, Shape, Using, fsVars

\* A miss.
LEMMA CacheMissInv ==
  ASSUME PoolInv, NEW t \in Threads, CacheMiss(t)
  PROVE  PoolInv'
<1>1. /\ pc' \in [Threads -> PCs] /\ pc'[t] = "open" /\ pc[t] = "get" /\ op' = op /\ Others(t)
  BY DEF CacheMiss, Goto, PoolInv, Shape, PCs, Others
<1>2. op[t] # None
  BY <1>1 DEF PoolInv, Locals
<1> QED
  BY <1>1, <1>2, QuietStep DEF CacheMiss, PoolInv, Shape, Using, fsVars

\* An open that fails.
LEMMA OpenFailsInv ==
  ASSUME PoolInv, NEW t \in Threads, OpenFails(t)
  PROVE  PoolInv'
<1>1. pc[t] = "open" /\ op[t] # None /\ ent[t] = None
  BY DEF OpenFails, PoolInv, Locals, Using
<1>2. Fail(t) /\ Shape
  BY DEF OpenFails, PoolInv
<1>3. /\ pc' \in [Threads -> PCs] /\ op' \in [Threads -> Op \cup {None}] /\ Others(t)
      /\ pc'[t] \in {"get", "unlink"} /\ op'[t] # None
  BY <1>1, <1>2, FailFacts
<1>4. ent' = ent
  BY <1>1, <1>2 DEF Fail, Shape
<1>5. op[t].path \in Paths
  BY <1>1, <1>2 DEF Shape, Op
<1>6. Opened(op[t].path) \in Inodes
  BY <1>1, <1>5, FreeInode DEF PoolInv
<1>7. disk' \in [Paths -> Inodes \cup {None}] /\ faults' \in 0..MaxFaults
  BY <1>2, <1>6, PoolAssumption DEF OpenFails, Shape, Fault
<1> QED
  BY <1>1, <1>2, <1>3, <1>4, <1>7, QuietStep DEF OpenFails, Shape, Using

\* IO that transfers the whole chunk.
LEMMA IoFullInv ==
  ASSUME PoolInv, NEW t \in Threads, IoFull(t)
  PROVE  PoolInv'
<1>1. pc' \in [Threads -> PCs] /\ pc'[t] = "release" /\ pc[t] = "io" /\ op' = op /\ Others(t)
  BY DEF IoFull, Goto, PoolInv, Shape, PCs, Others
<1>2. op[t] # None
  BY <1>1 DEF PoolInv, Locals
<1>3. content' \in [Inodes -> Contents]
  BY DEF IoFull, PoolInv, Shape, Contents
<1> QED
  BY <1>1, <1>2, <1>3, QuietStep DEF IoFull, PoolInv, Shape, Using

\* IO that comes up short.
LEMMA IoShortInv ==
  ASSUME PoolInv, NEW t \in Threads, IoShort(t)
  PROVE  PoolInv'
<1>1. pc' \in [Threads -> PCs] /\ pc'[t] = "drop" /\ pc[t] = "io" /\ op' = op /\ Others(t)
  BY DEF IoShort, Goto, PoolInv, Shape, PCs, Others
<1>2. op[t] # None
  BY <1>1 DEF PoolInv, Locals
<1>3. content' \in [Inodes -> Contents]
  BY DEF IoShort, PoolInv, Shape, Contents
<1>4. faults' \in 0..MaxFaults
  BY PoolAssumption DEF IoShort, PoolInv, Shape, Fault
<1> QED
  BY <1>1, <1>2, <1>3, <1>4, QuietStep DEF IoShort, PoolInv, Shape, Using

\* A hit: the entry is held once more.
LEMMA CacheHitInv ==
  ASSUME PoolInv, NEW t \in Threads, CacheHit(t)
  PROVE  PoolInv'
<1>1. PICK e \in Cached(op[t].path) :
        /\ handles' = Append(Without(handles, {e}), e)
        /\ entry' = [entry EXCEPT ![e].refs = @ + 1]
        /\ ent' = [ent EXCEPT ![t] = e]
  BY DEF CacheHit
<1>2. /\ pc[t] = "get" /\ pc' = [pc EXCEPT ![t] = "io"]
      /\ op' = op /\ disk' = disk /\ content' = content /\ faults' = faults
  BY DEF CacheHit, Goto, fsVars
<1>3. e \in ToSet(handles) /\ entry[e].path = op[t].path
  BY DEF Cached
<1>4. PICK hs : hs = handles'
  OBVIOUS
<1>5. hs \in Seq(Entries) /\ ToSet(hs) = ToSet(handles) /\ Keyed(hs, PathOf) /\ Len(hs) = Len(handles)
  BY <1>1, <1>3, <1>4, MoveToEnd DEF PoolInv, Shape, Keys
<1>6. e \in Entries /\ Live(e) /\ entry[e] \in Entry
  BY <1>3 DEF PoolInv, Shape, Reached, Live, ToSet
<1>7. /\ entry' \in [Entries -> Entry \cup {None}]
      /\ entry'[e].refs = entry[e].refs + 1
      /\ \A f \in Entries \ {e} : entry'[f] = entry[f]
      /\ \A f \in Entries : Live(f)' <=> Live(f)
      /\ \A f \in Entries : Live(f) => /\ entry'[f].path = entry[f].path
                                       /\ entry'[f].open = entry[f].open
  <2>1. entry'[e] = [entry[e] EXCEPT !.refs = @ + 1] /\ entry'[e] \in Entry /\ entry'[e] # None
    BY <1>1, <1>6, NoneApart DEF PoolInv, Shape, Entry
  <2>2. entry'[e].path = entry[e].path /\ entry'[e].open = entry[e].open /\ entry'[e].refs = entry[e].refs + 1
    BY <1>6, <2>1 DEF Entry
  <2> QED
    BY <1>1, <1>6, <2>1, <2>2 DEF PoolInv, Shape, Live
<1>8. \A f \in ToSet(handles) : f \in Entries /\ Live(f)
  BY DEF PoolInv, Shape, Reached, ToSet
<1>9. /\ pc' \in [Threads -> PCs] /\ ent' \in [Threads -> Entries \cup {None}]
      /\ pc'[t] = "io" /\ ent'[t] = e /\ Others(t)
  BY <1>1, <1>2, <1>6 DEF PoolInv, Shape, PCs, Others
<1>10. ~Using(t) /\ ent[t] = None /\ Using(t)' /\ op[t] # None
  BY <1>2, <1>9 DEF PoolInv, Locals, Using
<1> HIDE DEF CacheHit
<1>11. Shape'
  BY <1>2, <1>4, <1>5, <1>7, <1>9 DEF PoolInv, Shape
<1>12. Keys'
  <2>1. \A x \in ToSet(hs) : PathOf'[x] = PathOf[x]
    BY <1>5, <1>7, <1>8 DEF PathOf
  <2> QED
    BY <1>4, <1>5, <2>1, KeyedAgree DEF Keys
<1>13. Locals'
  <2>1. ASSUME NEW u \in Threads
        PROVE  /\ (ent[u] # None)' <=> Using(u)'
               /\ (op[u] # None)' <=> (pc[u] # "idle")'
               /\ Using(u)' => Live(ent[u])' /\ (entry[ent[u]].path = op[u].path)'
    <3>1. CASE u = t
      BY <1>2, <1>3, <1>6, <1>7, <1>9, <1>10, <3>1, NoneApart
    <3>2. CASE u # t
      <4>1. pc'[u] = pc[u] /\ op'[u] = op[u] /\ ent'[u] = ent[u] /\ (Using(u)' <=> Using(u))
        BY <1>9, <3>2 DEF Others, Using
      <4>2. ent[u] \in Entries \cup {None}
        BY DEF PoolInv, Shape
      <4>3. /\ ent[u] # None <=> Using(u)
            /\ op[u] # None <=> pc[u] # "idle"
            /\ Using(u) => Live(ent[u]) /\ entry[ent[u]].path = op[u].path
        BY DEF PoolInv, Locals
      <4>4. Using(u) => /\ entry'[ent[u]].path = entry[ent[u]].path
                        /\ entry'[ent[u]] # None
        BY <1>7, <4>2, <4>3 DEF Live
      <4> QED
        BY <4>1, <4>3, <4>4 DEF Live
    <3> QED
      BY <3>1, <3>2
  <2> QED
    BY <2>1 DEF Locals
<1>14. Reached'
  <2>1. \A f \in Refd : f = None \/ f \in Refd'
    BY <1>4, <1>5, <1>9, <1>10 DEF Refd, Others
  <2> QED
    BY <1>4, <1>5, <1>7, <1>8, <2>1, NoneApart DEF PoolInv, Reached
<1>15. Fresh'
  <2>1. ASSUME NEW u \in Threads, pc'[u] = "insert"
        PROVE  /\ entry'[ent'[u]].open /\ ent'[u] \notin ToSet(handles')
               /\ \A v \in Threads : ent'[v] = ent'[u] => v = u
    <3>1. u # t /\ pc[u] = "insert" /\ ent'[u] = ent[u]
      BY <1>9, <2>1 DEF Others
    <3>2. /\ entry[ent[u]].open /\ ent[u] \notin ToSet(handles)
          /\ \A v \in Threads : ent[v] = ent[u] => v = u
      BY <3>1 DEF PoolInv, Fresh, IsOpen
    <3>3. Live(ent[u]) /\ ent[u] \in Entries
      BY <3>1 DEF PoolInv, Locals, Shape, Using
    <3> QED
      BY <1>3, <1>4, <1>5, <1>7, <1>9, <3>1, <3>2, <3>3 DEF Others
  <2> QED
    BY <2>1 DEF Fresh, IsOpen
<1>16. Counted'
  <2>1. ASSUME NEW f \in Entries, Live(f)'
        PROVE  /\ entry'[f].refs >= Cardinality(Held(f)')
               /\ f \in ToSet(handles') => entry'[f].refs = Cardinality(Held(f)')
               /\ (\E u \in Threads : pc'[u] = "insert" /\ ent'[u] = f) => entry'[f].refs = 1
    <3>1. Live(f) /\ /\ entry[f].refs >= Cardinality(Held(f))
                     /\ f \in ToSet(handles) => entry[f].refs = Cardinality(Held(f))
                     /\ (\E u \in Threads : pc[u] = "insert" /\ ent[u] = f) => entry[f].refs = 1
      BY <1>7, <2>1 DEF PoolInv, Counted
    <3>2. ASSUME NEW u \in Threads, pc'[u] = "insert"
          PROVE  pc[u] = "insert" /\ ent'[u] = ent[u] /\ ent[u] # e
      BY <1>3, <1>9, <3>2 DEF Others, PoolInv, Fresh
    <3>3. CASE f = e
      <4>1. Cardinality(Held(f)') = Cardinality(Held(f)) + 1
        BY <1>9, <1>10, <3>3, HeldMore
      <4>2. entry'[f].refs = Cardinality(Held(f)')
        BY <1>3, <1>7, <3>1, <3>3, <4>1
      <4>3. Cardinality(Held(f)') \in Nat
        BY <4>1, FiniteFacts
      <4> QED
        BY <3>2, <3>3, <4>2, <4>3
    <3>4. CASE f # e
      <4>1. Held(f)' = Held(f)
        BY <1>9, <1>10, <3>4, HeldSame
      <4>2. entry'[f] = entry[f]
        BY <1>7, <3>4
      <4> QED
        BY <1>4, <1>5, <3>1, <3>2, <4>1, <4>2
    <3> QED
      BY <3>3, <3>4
  <2> QED
    BY <2>1 DEF Counted
<1>17. CachedOpen' /\ Room'
  BY <1>4, <1>5, <1>7, <1>8 DEF PoolInv, CachedOpen, IsOpen, Room
<1> QED
  BY <1>11, <1>12, <1>13, <1>14, <1>15, <1>16, <1>17 DEF PoolInv

\* A thread is done with its entry, if it has one: the count of the entry goes
\* down with it, or the entry is no longer cached.
LEMMA LettingGo ==
  ASSUME PoolInv, NEW t \in Threads, Others(t), pc[t] # "insert",
         pc' \in [Threads -> PCs], op' \in [Threads -> Op \cup {None}],
         ent' \in [Threads -> Entries \cup {None}], ent'[t] = None, ~Using(t)',
         op'[t] # None <=> pc'[t] # "idle",
         handles' \in Seq(Entries), ToSet(handles') \subseteq ToSet(handles),
         Keyed(handles', PathOf), Len(handles') <= Len(handles),
         entry' \in [Entries -> Entry \cup {None}],
         disk' \in [Paths -> Inodes \cup {None}], content' \in [Inodes -> Contents],
         faults' \in 0..MaxFaults,
         \A e \in Entries : e \in Refd' => Live(e)' /\ entry'[e].path = entry[e].path,
         \A e \in Entries : e \notin Refd' => ~Live(e)',
         \A e \in Entries : e \in Refd' /\ e # ent[t] =>
           entry'[e].refs = entry[e].refs /\ entry'[e].open = entry[e].open,
         \A e \in Entries : e \in Refd' /\ e = ent[t] =>
           \/ entry'[e].refs = entry[e].refs - 1 /\ entry'[e].open = entry[e].open
           \/ entry'[e].refs = entry[e].refs /\ e \notin ToSet(handles')
  PROVE  PoolInv'
<1> PICK hs : hs = ToSet(handles')
  OBVIOUS
<1>1. Shape'
  BY DEF Shape
<1>2. \A f \in ToSet(handles) : f \in Entries /\ Live(f)
  BY DEF PoolInv, Shape, Reached, ToSet
<1>3. \A f \in hs : f \in Entries /\ f \in ToSet(handles) /\ f \in Refd'
  BY <1>2 DEF Refd
<1>4. \A u \in Threads : ent'[u] \in Refd'
  BY DEF Refd
<1>5. \A u \in Threads : Using(u)' => u # t /\ Using(u) /\ pc'[u] = pc[u] /\ ent'[u] = ent[u]
                                     /\ op'[u] = op[u]
  BY DEF Others, Using
<1>6. \A u \in Threads : Using(u) => ent[u] \in Entries /\ Live(ent[u]) /\ ent[u] # None
                                    /\ entry[ent[u]].path = op[u].path
  BY DEF PoolInv, Shape, Locals
<1>7. Keys'
  <2>1. \A x \in hs : PathOf'[x] = PathOf[x]
    BY <1>3 DEF PathOf
  <2> QED
    BY <2>1, KeyedAgree DEF Keys
<1>8. Locals'
  <2>1. ASSUME NEW u \in Threads
        PROVE  /\ (ent[u] # None)' <=> Using(u)'
               /\ (op[u] # None)' <=> (pc[u] # "idle")'
               /\ Using(u)' => Live(ent[u])' /\ (entry[ent[u]].path = op[u].path)'
    <3>1. CASE u = t
      BY <3>1
    <3>2. CASE u # t
      <4>1. pc'[u] = pc[u] /\ op'[u] = op[u] /\ ent'[u] = ent[u] /\ (Using(u)' <=> Using(u))
        BY <3>2 DEF Others, Using
      <4>2. /\ ent[u] # None <=> Using(u)
            /\ op[u] # None <=> pc[u] # "idle"
        BY DEF PoolInv, Locals
      <4>3. Using(u) => Live(ent[u])' /\ entry'[ent[u]].path = op[u].path
        BY <1>4, <1>6, <4>1 DEF Live
      <4> QED
        BY <4>1, <4>2, <4>3 DEF Live
    <3> QED
      BY <3>1, <3>2
  <2> QED
    BY <2>1 DEF Locals
<1>9. Reached'
  BY <1>3 DEF Reached
<1>10. ASSUME NEW u \in Threads, pc'[u] = "insert"
       PROVE  /\ u # t /\ pc[u] = "insert" /\ ent'[u] = ent[u] /\ ent[u] # ent[t]
              /\ ent[u] \in Entries /\ ent[u] \in Refd'
              /\ entry[ent[u]].open /\ ent[u] \notin ToSet(handles)
              /\ \A v \in Threads : ent[v] = ent[u] => v = u
  <2>1. Using(u)'
    BY <1>10 DEF Using
  <2>2. u # t /\ pc[u] = "insert" /\ ent'[u] = ent[u]
    BY <1>5, <1>10, <2>1
  <2>3. /\ entry[ent[u]].open /\ ent[u] \notin ToSet(handles)
        /\ \A v \in Threads : ent[v] = ent[u] => v = u
    BY <2>2 DEF PoolInv, Fresh, IsOpen
  <2> QED
    BY <1>4, <1>5, <1>6, <2>1, <2>2, <2>3
<1>11. Fresh'
  <2>1. ASSUME NEW u \in Threads, pc'[u] = "insert"
        PROVE  /\ entry'[ent'[u]].open /\ ent'[u] \notin hs
               /\ \A v \in Threads : ent'[v] = ent'[u] => v = u
    <3>1. \A v \in Threads : v # t => ent'[v] = ent[v]
      BY DEF Others
    <3>2. ent[u] # None
      BY <1>10, <2>1, NoneApart
    <3> QED
      BY <1>3, <1>10, <2>1, <3>1, <3>2
  <2> QED
    BY <2>1 DEF Fresh, IsOpen
<1>12. Counted'
  <2>1. ASSUME NEW f \in Entries, Live(f)'
        PROVE  /\ entry'[f].refs >= Cardinality(Held(f)')
               /\ f \in hs => entry'[f].refs = Cardinality(Held(f)')
               /\ (\E u \in Threads : pc'[u] = "insert" /\ ent'[u] = f) => entry'[f].refs = 1
    <3>1. f \in Refd'
      BY <2>1
    <3>2. f \in Refd
      <4>1. \A u \in Threads : ent'[u] = f => Using(u)' /\ ent[u] = f
        BY <1>5, <1>8, NoneApart DEF Locals
      <4> QED
        BY <1>3, <3>1, <4>1 DEF Refd
    <3>3. Live(f)
      BY <1>2, <1>6, <3>2, NoneApart DEF Refd, PoolInv, Locals
    <3>4. /\ entry[f].refs >= Cardinality(Held(f))
          /\ f \in ToSet(handles) => entry[f].refs = Cardinality(Held(f))
          /\ (\E u \in Threads : pc[u] = "insert" /\ ent[u] = f) => entry[f].refs = 1
      BY <3>3 DEF PoolInv, Counted
    <3>5. entry[f].refs \in Nat /\ Cardinality(Held(f)) \in Nat
      BY <3>3, FiniteFacts DEF PoolInv, Shape, Live, Entry
    <3>6. CASE f # ent[t]
      <4>1. Held(f)' = Held(f)
        BY <3>6, NoneApart, HeldSame
      <4>2. entry'[f].refs = entry[f].refs
        BY <3>1, <3>6
      <4> QED
        BY <1>3, <1>10, <3>4, <4>1, <4>2
    <3>7. CASE f = ent[t]
      <4>1. Using(t)
        BY <3>7, NoneApart DEF PoolInv, Locals
      <4>2. Cardinality(Held(f)') = Cardinality(Held(f)) - 1
        BY <3>7, <4>1, HeldLess
      <4>3. ~ \E u \in Threads : pc'[u] = "insert" /\ ent'[u] = f
        BY <1>10, <3>7
      <4>4. CASE entry'[f].refs = entry[f].refs - 1
        BY <1>3, <3>4, <3>5, <4>2, <4>3, <4>4
      <4>5. CASE entry'[f].refs = entry[f].refs /\ f \notin ToSet(handles')
        BY <3>4, <3>5, <4>2, <4>3, <4>5
      <4> QED
        BY <3>1, <3>7, <4>4, <4>5
    <3> QED
      BY <3>6, <3>7
  <2> QED
    BY <2>1 DEF Counted
<1>13. CachedOpen'
  BY <1>3 DEF PoolInv, CachedOpen, IsOpen
<1>14. Room'
  <2>1. Len(handles') \in Nat /\ Len(handles) \in Nat
    BY DEF PoolInv, Shape
  <2> QED
    BY <2>1, FiniteFacts DEF PoolInv, Room
<1> QED
  BY <1>1, <1>7, <1>8, <1>9, <1>11, <1>12, <1>13, <1>14 DEF PoolInv

\* The operation returns.
LEMMA ReturnFacts ==
  ASSUME Shape, NEW t \in Threads, Return(t)
  PROVE  /\ pc' \in [Threads -> PCs] /\ op' \in [Threads -> Op \cup {None}]
         /\ ent' \in [Threads -> Entries \cup {None}]
         /\ Others(t) /\ pc'[t] = "idle" /\ op'[t] = None /\ ent'[t] = None
BY DEF Shape, Return, Goto, Others, PCs

\* A release: the count of the entry goes down.
LEMMA ReleaseHandleInv ==
  ASSUME PoolInv, NEW t \in Threads, ReleaseHandle(t)
  PROVE  PoolInv'
<1>1. /\ pc[t] = "release" /\ Return(t) /\ handles' = handles /\ faults' = faults
      /\ Settle([entry EXCEPT ![ent[t]].refs = @ - 1], disk, content)
  BY DEF ReleaseHandle
<1>2. Shape
  BY DEF PoolInv
<1>3. PICK ents : ents = [entry EXCEPT ![ent[t]].refs = @ - 1]
  OBVIOUS
<1>4. ent[t] \in Entries /\ Live(ent[t]) /\ entry[ent[t]] \in Entry
  BY <1>1 DEF PoolInv, Shape, Locals, Using, Live
<1>5. t \in Held(ent[t]) /\ entry[ent[t]].refs - 1 \in Nat
  <2>1. t \in Held(ent[t])
    BY <1>1 DEF Held, Using
  <2>2. Cardinality(Held(ent[t])) # 0
    BY <2>1, FiniteFacts, FS_EmptySet
  <2>3. entry[ent[t]].refs >= Cardinality(Held(ent[t])) /\ entry[ent[t]].refs \in Nat
    BY <1>4 DEF PoolInv, Counted, Entry
  <2> QED
    BY <2>1, <2>2, <2>3, FiniteFacts
<1>6. /\ ents[ent[t]] = [entry[ent[t]] EXCEPT !.refs = @ - 1]
      /\ \A e \in Entries : e # ent[t] => ents[e] = entry[e]
  <2>1. PICK x \in Entries : x = ent[t]
    BY <1>4
  <2>2. ents = [entry EXCEPT ![x].refs = @ - 1]
    BY <1>3, <2>1
  <2>3. DOMAIN entry = Entries
    BY <1>2 DEF Shape
  <2>4. ents[x] = [entry[x] EXCEPT !.refs = @ - 1] /\ \A e \in Entries : e # x => ents[e] = entry[e]
    BY <2>2, <2>3
  <2> QED
    BY <2>1, <2>4
<1>7. /\ ents[ent[t]] \in Entry /\ ents[ent[t]].refs = entry[ent[t]].refs - 1
      /\ ents[ent[t]].path = entry[ent[t]].path /\ ents[ent[t]].open = entry[ent[t]].open
  BY <1>4, <1>5, <1>6 DEF Entry
<1>8. ents \in [Entries -> Entry \cup {None}]
  BY <1>2, <1>3, <1>4, <1>6, <1>7 DEF Shape
<1>9. Settle(ents, disk, content)
  BY <1>1, <1>3
<1>10. entry' = [e \in Entries |-> IF e \in Refd' THEN ents[e] ELSE None]
  BY <1>9, SettleFacts, Zenon
<1>11. /\ entry' \in [Entries -> Entry \cup {None}]
       /\ disk' \in [Paths -> Inodes \cup {None}] /\ content' \in [Inodes -> Contents]
  BY <1>2, <1>8, <1>9, SettleTypes DEF Shape
<1>12. /\ pc' \in [Threads -> PCs] /\ op' \in [Threads -> Op \cup {None}]
       /\ ent' \in [Threads -> Entries \cup {None}]
       /\ Others(t) /\ pc'[t] = "idle" /\ op'[t] = None /\ ent'[t] = None
  BY <1>1, <1>2, ReturnFacts
<1>13. \A e \in Entries : e \in Refd' => Live(e)
  BY <1>1, <1>12, NoneApart DEF PoolInv, Reached, Refd, Others, Locals
<1>14. \A e \in Entries : e \in Refd' =>
         /\ Live(e)' /\ entry'[e].path = entry[e].path
         /\ e # ent[t] => entry'[e].refs = entry[e].refs /\ entry'[e].open = entry[e].open
         /\ e = ent[t] => entry'[e].refs = entry[e].refs - 1 /\ entry'[e].open = entry[e].open
  BY <1>4, <1>6, <1>7, <1>10, <1>13, NoneApart DEF Live
<1>15. \A e \in Entries : e \notin Refd' => ~Live(e)'
  BY <1>10 DEF Live
<1>16. /\ handles' \in Seq(Entries) /\ ToSet(handles') \subseteq ToSet(handles)
       /\ Keyed(handles', PathOf) /\ Len(handles') <= Len(handles)
  BY <1>1, <1>2 DEF PoolInv, Keys, Shape
<1>17. pc[t] # "insert" /\ ~Using(t)' /\ faults' \in 0..MaxFaults
  BY <1>1, <1>2, <1>12 DEF Using, Shape
<1> QED
  BY <1>11, <1>12, <1>14, <1>15, <1>16, <1>17, LettingGo

\* The unlink that ends a failed operation.
LEMMA UnlinkFailedInv ==
  ASSUME PoolInv, NEW t \in Threads, UnlinkFailed(t)
  PROVE  PoolInv'
<1>1. pc[t] = "unlink" /\ Return(t) /\ handles' = handles
  BY DEF UnlinkFailed
<1>2. Shape
  BY DEF PoolInv
<1>3. PICK names : /\ names \in {disk, [disk EXCEPT ![op[t].path] = None]}
                   /\ Settle(entry, names, content)
  BY DEF UnlinkFailed, Unlink
<1>4. names \in [Paths -> Inodes \cup {None}]
  BY <1>2, <1>3 DEF Shape
<1>5. Settle(entry, names, content) /\ faults' \in 0..MaxFaults
  BY <1>2, <1>3, PoolAssumption DEF UnlinkFailed, Fault, Shape
<1>6. entry' = [e \in Entries |-> IF e \in Refd' THEN entry[e] ELSE None]
  BY <1>5, SettleFacts, Zenon
<1>7. /\ entry' \in [Entries -> Entry \cup {None}]
      /\ disk' \in [Paths -> Inodes \cup {None}] /\ content' \in [Inodes -> Contents]
  BY <1>2, <1>4, <1>5, SettleTypes DEF Shape
<1>8. /\ pc' \in [Threads -> PCs] /\ op' \in [Threads -> Op \cup {None}]
      /\ ent' \in [Threads -> Entries \cup {None}]
      /\ Others(t) /\ pc'[t] = "idle" /\ op'[t] = None /\ ent'[t] = None
  BY <1>1, <1>2, ReturnFacts
<1>9. ent[t] = None
  BY <1>1 DEF PoolInv, Locals, Using
<1>10. \A e \in Entries : e \in Refd' => Live(e)
  BY <1>1, <1>8, NoneApart DEF PoolInv, Reached, Refd, Others, Locals
<1>11. \A e \in Entries : e \in Refd' => Live(e)' /\ entry'[e] = entry[e]
  BY <1>6, <1>10 DEF Live
<1>12. \A e \in Entries : e \notin Refd' => ~Live(e)'
  BY <1>6 DEF Live
<1>13. /\ handles' \in Seq(Entries) /\ ToSet(handles') \subseteq ToSet(handles)
       /\ Keyed(handles', PathOf) /\ Len(handles') <= Len(handles)
  BY <1>1, <1>2 DEF PoolInv, Keys, Shape
<1>14. pc[t] # "insert" /\ ~Using(t)'
  BY <1>1, <1>8 DEF Using
<1>15. \A e \in Entries : e # ent[t]
  BY <1>9, NoneApart
<1> QED
  BY <1>5, <1>7, <1>8, <1>11, <1>12, <1>13, <1>14, <1>15, LettingGo

\* A drop: the entry of the path leaves the cache, whichever it is, and the
\* thread's own is closed if it was that one.
LEMMA DropHandleInv ==
  ASSUME PoolInv, NEW t \in Threads, DropHandle(t)
  PROVE  PoolInv'
<1>1. PICK C : C = Cached(op[t].path)
  OBVIOUS
<1>2. PICK ents : ents = [entry EXCEPT ![ent[t]].open = @ /\ ent[t] \notin C]
  OBVIOUS
<1>3. /\ pc[t] = "drop" /\ Fail(t) /\ handles' = Without(handles, C) /\ faults' = faults
      /\ Settle(ents, disk, content)
  BY <1>1, <1>2, Zenon DEF DropHandle
<1>4. Shape
  BY DEF PoolInv
<1>5. ent[t] \in Entries /\ Live(ent[t]) /\ entry[ent[t]] \in Entry /\ op[t] # None
        /\ entry[ent[t]].path = op[t].path
  BY <1>3 DEF PoolInv, Shape, Locals, Using, Live
<1>6. /\ ents[ent[t]] = [entry[ent[t]] EXCEPT !.open = @ /\ ent[t] \notin C]
      /\ \A e \in Entries : e # ent[t] => ents[e] = entry[e]
  <2>1. PICK x \in Entries : x = ent[t]
    BY <1>5
  <2>2. ents = [entry EXCEPT ![x].open = @ /\ x \notin C]
    BY <1>2, <2>1
  <2>3. DOMAIN entry = Entries
    BY <1>4 DEF Shape
  <2>4. ents[x] = [entry[x] EXCEPT !.open = @ /\ x \notin C] /\ \A e \in Entries : e # x => ents[e] = entry[e]
    BY <2>2, <2>3
  <2> QED
    BY <2>1, <2>4
<1>7. /\ ents[ent[t]] \in Entry /\ ents[ent[t]].refs = entry[ent[t]].refs
      /\ ents[ent[t]].path = entry[ent[t]].path
  <2>1. entry[ent[t]].open \in BOOLEAN
    BY <1>5 DEF Entry
  <2>2. PICK b \in BOOLEAN : b = (entry[ent[t]].open /\ ent[t] \notin C)
    OBVIOUS
  <2>3. ents[ent[t]] = [entry[ent[t]] EXCEPT !.open = b]
    BY <1>6, <2>2
  <2> QED
    BY <1>5, <2>3 DEF Entry
<1>8. ents \in [Entries -> Entry \cup {None}]
  BY <1>2, <1>4, <1>5, <1>6, <1>7 DEF Shape
<1>9. entry' = [e \in Entries |-> IF e \in Refd' THEN ents[e] ELSE None]
  BY <1>3, SettleFacts, Zenon
<1>10. /\ entry' \in [Entries -> Entry \cup {None}]
       /\ disk' \in [Paths -> Inodes \cup {None}] /\ content' \in [Inodes -> Contents]
  BY <1>3, <1>4, <1>8, SettleTypes DEF Shape
<1>11. /\ pc' \in [Threads -> PCs] /\ op' \in [Threads -> Op \cup {None}]
       /\ ent' \in [Threads -> Entries \cup {None}]
       /\ Others(t) /\ pc'[t] \in {"get", "unlink"} /\ op'[t] # None /\ ent'[t] = None
  BY <1>3, <1>4, <1>5, FailFacts
<1>12. PICK h : h = handles'
  OBVIOUS
<1>13. h \in Seq(Entries) /\ ToSet(h) = ToSet(handles) \ C /\ Keyed(h, PathOf)
  BY <1>3, <1>4, <1>12, WithoutFacts DEF PoolInv, Keys, Shape
<1>14. Len(h) <= Len(handles)
  <2>1. /\ IsFiniteSet(ToSet(handles)) /\ Cardinality(ToSet(handles)) = Len(handles)
        /\ Cardinality(ToSet(h)) = Len(h)
    BY <1>4, <1>13, KeyedFacts DEF PoolInv, Keys, Shape
  <2>2. Cardinality(ToSet(h)) <= Cardinality(ToSet(handles))
    BY <1>13, <2>1, FS_Subset, ToSet(h) \in SUBSET ToSet(handles)
  <2> QED
    BY <2>1, <2>2
<1>15. \A e \in Entries : e \in Refd' => Live(e)
  BY <1>11, <1>12, <1>13, NoneApart DEF PoolInv, Reached, Refd, Others, Locals
<1>16. ent[t] \notin ToSet(h)
  BY <1>1, <1>5, <1>13 DEF Cached
<1>17. \A e \in Entries : e \in Refd' =>
         /\ Live(e)' /\ entry'[e].path = entry[e].path /\ entry'[e].refs = entry[e].refs
         /\ e # ent[t] => entry'[e].open = entry[e].open
  BY <1>5, <1>6, <1>7, <1>9, <1>15, NoneApart DEF Live
<1>18. \A e \in Entries : e \notin Refd' => ~Live(e)'
  BY <1>9 DEF Live
<1>19. pc[t] # "insert" /\ ~Using(t)' /\ pc'[t] # "idle" /\ faults' \in 0..MaxFaults
  BY <1>3, <1>4, <1>11 DEF Using, Shape
<1>20. /\ handles' \in Seq(Entries) /\ ToSet(handles') \subseteq ToSet(handles)
       /\ Keyed(handles', PathOf) /\ Len(handles') <= Len(handles)
       /\ ent[t] \notin ToSet(handles')
  BY <1>12, <1>13, <1>14, <1>16
<1> QED
  BY <1>10, <1>11, <1>17, <1>18, <1>19, <1>20, LettingGo

\* A new handle: an entry of its own, held once.
LEMMA OpenHandleInv ==
  ASSUME PoolInv, NEW t \in Threads, OpenHandle(t)
  PROVE  PoolInv'
<1>1. PICK e : e = Least({f \in Entries : entry[f] = None})
  OBVIOUS
<1>2. PICK p : p = op[t].path
  OBVIOUS
<1>3. PICK n : n = Opened(p)
  OBVIOUS
<1>4. /\ ent' = [ent EXCEPT ![t] = e]
      /\ entry' = [entry EXCEPT ![e] = [path |-> p, inode |-> n, refs |-> 1, open |-> TRUE]]
      /\ disk' = [disk EXCEPT ![p] = n]
  BY <1>1, <1>2, <1>3 DEF OpenHandle
<1>5. /\ pc[t] = "open" /\ pc' = [pc EXCEPT ![t] = "insert"]
      /\ op' = op /\ handles' = handles /\ content' = content /\ faults' = faults
  BY DEF OpenHandle, Goto
<1>6. Shape
  BY DEF PoolInv
<1>7. ent[t] = None /\ op[t] # None /\ p \in Paths
  BY <1>2, <1>5 DEF PoolInv, Locals, Using, Shape, Op
<1>8. e \in Entries /\ ~Live(e) /\ n \in Inodes
  BY <1>1, <1>3, <1>7, FreeEntry, FreeInode DEF PoolInv
<1>9. [path |-> p, inode |-> n, refs |-> 1, open |-> TRUE] \in Entry
  BY <1>7, <1>8 DEF Entry
<1>10. /\ entry' \in [Entries -> Entry \cup {None}]
       /\ entry'[e].path = p /\ entry'[e].refs = 1 /\ entry'[e].open = TRUE /\ entry'[e] # None
       /\ \A f \in Entries : f # e => entry'[f] = entry[f]
  BY <1>4, <1>6, <1>8, <1>9, NoneApart DEF Shape
<1>11. /\ pc' \in [Threads -> PCs] /\ ent' \in [Threads -> Entries \cup {None}]
       /\ pc'[t] = "insert" /\ ent'[t] = e /\ Others(t)
  BY <1>4, <1>5, <1>6, <1>8 DEF Shape, PCs, Others
<1>12. \A f \in ToSet(handles) : f \in Entries /\ Live(f) /\ f # e
  BY <1>8 DEF PoolInv, Shape, Reached, ToSet
<1>13. \A u \in Threads : Using(u) => ent[u] \in Entries /\ Live(ent[u]) /\ ent[u] # e
  BY <1>8 DEF PoolInv, Shape, Locals
<1>14. \A u \in Threads : ent[u] # e
  BY <1>8, <1>13, NoneApart DEF PoolInv, Locals
<1>15. Shape'
  BY <1>4, <1>5, <1>6, <1>8, <1>10, <1>11 DEF Shape
<1>16. Keys'
  <2>1. \A x \in ToSet(handles) : PathOf'[x] = PathOf[x]
    BY <1>10, <1>12 DEF PathOf
  <2> QED
    BY <1>5, <1>6, <2>1, KeyedAgree DEF PoolInv, Keys, Shape
<1>17. Locals'
  <2>1. ASSUME NEW u \in Threads
        PROVE  /\ (ent[u] # None)' <=> Using(u)'
               /\ (op[u] # None)' <=> (pc[u] # "idle")'
               /\ Using(u)' => Live(ent[u])' /\ (entry[ent[u]].path = op[u].path)'
    <3>1. CASE u = t
      BY <1>2, <1>5, <1>7, <1>8, <1>10, <1>11, <3>1, NoneApart DEF Using, Live
    <3>2. CASE u # t
      <4>1. pc'[u] = pc[u] /\ op'[u] = op[u] /\ ent'[u] = ent[u] /\ (Using(u)' <=> Using(u))
        BY <1>11, <3>2 DEF Others, Using
      <4>2. /\ ent[u] # None <=> Using(u)
            /\ op[u] # None <=> pc[u] # "idle"
            /\ Using(u) => entry[ent[u]].path = op[u].path
        BY DEF PoolInv, Locals
      <4>3. Using(u) => entry'[ent[u]] = entry[ent[u]] /\ entry'[ent[u]] # None
        BY <1>10, <1>13 DEF Live
      <4> QED
        BY <4>1, <4>2, <4>3 DEF Live
    <3> QED
      BY <3>1, <3>2
  <2> QED
    BY <2>1 DEF Locals
<1>18. Reached'
  <2>1. \A f \in Refd : f = None \/ f \in Refd'
    BY <1>5, <1>7, <1>11 DEF Refd, Others
  <2>2. e \in Refd'
    BY <1>11 DEF Refd
  <2>3. \A f \in Entries : f # e => (Live(f)' <=> Live(f))
    BY <1>10 DEF Live
  <2> QED
    BY <1>5, <1>12, <2>1, <2>2, <2>3, NoneApart DEF PoolInv, Reached
<1>19. Fresh'
  <2>1. ASSUME NEW u \in Threads, pc'[u] = "insert"
        PROVE  /\ entry'[ent'[u]].open /\ ent'[u] \notin ToSet(handles)
               /\ \A v \in Threads : ent'[v] = ent'[u] => v = u
    <3>1. CASE u = t
      BY <1>10, <1>11, <1>12, <1>14, <3>1 DEF Others
    <3>2. CASE u # t
      <4>1. pc[u] = "insert" /\ ent'[u] = ent[u]
        BY <1>11, <2>1, <3>2 DEF Others
      <4>2. /\ entry[ent[u]].open /\ ent[u] \notin ToSet(handles)
            /\ \A v \in Threads : ent[v] = ent[u] => v = u
        BY <4>1 DEF PoolInv, Fresh, IsOpen
      <4>3. ent[u] \in Entries /\ ent[u] # e
        BY <1>13, <4>1 DEF Using
      <4> QED
        BY <1>10, <1>11, <4>1, <4>2, <4>3 DEF Others
    <3> QED
      BY <3>1, <3>2
  <2> QED
    BY <1>5, <2>1 DEF Fresh, IsOpen
<1>20. Counted'
  <2>1. ASSUME NEW f \in Entries, Live(f)'
        PROVE  /\ entry'[f].refs >= Cardinality(Held(f)')
               /\ f \in ToSet(handles) => entry'[f].refs = Cardinality(Held(f)')
               /\ (\E u \in Threads : pc'[u] = "insert" /\ ent'[u] = f) => entry'[f].refs = 1
    <3>1. CASE f = e
      <4>1. Held(e) = {}
        BY <1>14 DEF Held
      <4>2. Using(t)' /\ ~Using(t)
        BY <1>5, <1>11 DEF Using
      <4>3. Cardinality(Held(e)') = Cardinality(Held(e)) + 1
        BY <1>11, <4>2, HeldMore
      <4>4. Cardinality(Held(e)') = 1
        BY <4>1, <4>3, FS_EmptySet
      <4> QED
        BY <1>10, <3>1, <4>4
    <3>2. CASE f # e
      <4>1. Held(f)' = Held(f)
        BY <1>7, <1>8, <1>11, <3>2, NoneApart, HeldSame
      <4>2. entry'[f] = entry[f] /\ Live(f)
        BY <1>10, <2>1, <3>2 DEF Live
      <4>3. \A u \in Threads : pc'[u] = "insert" /\ ent'[u] = f => pc[u] = "insert" /\ ent[u] = f
        BY <1>11, <3>2 DEF Others
      <4> QED
        BY <4>1, <4>2, <4>3 DEF PoolInv, Counted
    <3> QED
      BY <3>1, <3>2
  <2> QED
    BY <1>5, <2>1 DEF Counted
<1>21. CachedOpen' /\ Room'
  BY <1>5, <1>10, <1>12 DEF PoolInv, CachedOpen, IsOpen, Room
<1> QED
  BY <1>15, <1>16, <1>17, <1>18, <1>19, <1>20, <1>21 DEF PoolInv

\* The effect of an insertion: what is evicted was idle, so nothing that is
\* cached or held afterwards has changed.
LEMMA InsertFacts ==
  ASSUME PoolInv, NEW t \in Threads, InsertHandle(t)
  PROVE  /\ handles' \in Seq(Entries) /\ Keyed(handles', PathOf)
         /\ Len(handles') <= CacheMax + Cardinality(Threads)
         /\ \A f \in ToSet(handles') : f = ent[t] \/ f \in ToSet(handles)
         /\ ent[t] \in ToSet(handles')
         /\ pc[t] = "insert" /\ pc' = [pc EXCEPT ![t] = "io"]
         /\ op' = op /\ ent' = ent /\ faults' = faults
         /\ \A f \in Entries : f \in Refd' => Live(f) /\ entry'[f] = entry[f]
         /\ \A f \in Entries : f \notin Refd' => entry'[f] = None
         /\ entry' \in [Entries -> Entry \cup {None}]
         /\ disk' = disk /\ content' \in [Inodes -> Contents]
<1>1. PICK V : V = Victims
  OBVIOUS
<1>2. PICK h : h = Without(handles, V)
  OBVIOUS
<1>3. PICK e : e = ent[t]
  OBVIOUS
<1>4. PICK ents : ents = [f \in Entries |-> IF f \in V THEN [entry[f] EXCEPT !.open = FALSE]
                                            ELSE entry[f]]
  OBVIOUS
<1>5. /\ pc[t] = "insert" /\ pc' = [pc EXCEPT ![t] = "io"]
      /\ handles' = Store(h, e)
      /\ op' = op /\ ent' = ent /\ faults' = faults
      /\ Settle(ents, disk, content)
  BY <1>1, <1>2, <1>3, <1>4, Zenon DEF InsertHandle, Goto
<1>6. Shape
  BY DEF PoolInv
<1>7. e \in Entries /\ Live(e) /\ e \notin ToSet(handles)
  BY <1>3, <1>5 DEF PoolInv, Shape, Locals, Fresh, Using
<1>8. \A f \in ToSet(handles) : f \in Entries /\ Live(f)
  BY DEF PoolInv, Shape, Reached, ToSet
<1>9. \A f \in V : f \in ToSet(handles) /\ entry[f].refs = 0
  BY <1>1, <1>6, VictimFacts DEF PoolInv
<1>10. h \in Seq(Entries) /\ ToSet(h) = ToSet(handles) \ V /\ Keyed(h, PathOf)
  BY <1>2, <1>6, WithoutFacts DEF PoolInv, Keys, Shape
<1>11. PICK hs : hs = handles'
  OBVIOUS
<1>12. /\ hs \in Seq(Entries) /\ Keyed(hs, PathOf)
       /\ ToSet(hs) = {x \in ToSet(h) : entry[x].path # entry[e].path} \cup {e}
  BY <1>5, <1>6, <1>7, <1>10, <1>11, StoreFacts
<1>13. \A f \in ToSet(hs) : f \in Entries /\ Live(f) /\ f \notin V /\ (f = e \/ f \in ToSet(handles))
  BY <1>7, <1>8, <1>9, <1>10, <1>12
<1>14. \A f \in V : ~ \E u \in Threads : ent[u] = f
  <2>1. ASSUME NEW f \in V, NEW u \in Threads, ent[u] = f
        PROVE  FALSE
    <3>1. f \in Entries /\ Live(f) /\ f # None
      BY <1>8, <1>9, NoneApart
    <3>2. u \in Held(f)
      BY <2>1, <3>1 DEF PoolInv, Locals, Held
    <3>3. Cardinality(Held(f)) = 0
      BY <1>9, <3>1 DEF PoolInv, Counted
    <3>4. Held(f) = {}
      BY <3>3, FiniteFacts, FS_EmptySet
    <3> QED
      BY <3>2, <3>4
  <2> QED
    BY <2>1
<1>15. \A f \in Entries : f \in Refd' => f \notin V /\ Live(f)
  <2>1. \A f \in Entries : f \in Refd' => f \in ToSet(hs) \/ \E u \in Threads : ent[u] = f
    BY <1>5, <1>11 DEF Refd
  <2>2. \A u \in Threads : ent[u] \in Entries => Live(ent[u])
    BY NoneApart DEF PoolInv, Locals
  <2> QED
    BY <1>13, <1>14, <2>1, <2>2
<1>16. entry' = [f \in Entries |-> IF f \in Refd' THEN ents[f] ELSE None]
  BY <1>5, SettleFacts, Zenon
<1>17. \A f \in Entries : f \notin V => ents[f] = entry[f]
  BY <1>4
<1>18. ents \in [Entries -> Entry \cup {None}]
  <2>1. ASSUME NEW f \in V
        PROVE  [entry[f] EXCEPT !.open = FALSE] \in Entry
    <3>1. entry[f] \in Entry
      BY <1>6, <1>8, <1>9 DEF Shape, Live
    <3> QED
      BY <3>1 DEF Entry
  <2>2. \A f \in Entries : entry[f] \in Entry \cup {None}
    BY <1>6 DEF Shape
  <2> QED
    BY <1>4, <2>1, <2>2
<1>19. /\ entry' \in [Entries -> Entry \cup {None}]
       /\ disk' \in [Paths -> Inodes \cup {None}] /\ content' \in [Inodes -> Contents]
  BY <1>5, <1>6, <1>18, SettleTypes DEF Shape
<1>20. disk' = disk
  BY <1>5, SettleFacts, Zenon
<1>21. Len(hs) <= CacheMax + Cardinality(Threads)
  <2>1. Len(h) + 1 <= CacheMax + Cardinality(Threads)
    BY <1>1, <1>2, <1>5, EvictedRoom
  <2>2. IsFiniteSet(ToSet(h)) /\ Cardinality(ToSet(h)) = Len(h) /\ Cardinality(ToSet(hs)) = Len(hs)
    BY <1>10, <1>12, KeyedFacts
  <2>3. PICK S : S = {x \in ToSet(h) : entry[x].path # entry[e].path}
    OBVIOUS
  <2>4. IsFiniteSet(S) /\ Cardinality(S) <= Cardinality(ToSet(h))
    BY <2>2, <2>3, FS_Subset, S \in SUBSET ToSet(h)
  <2>5. Cardinality(S \cup {e}) <= Cardinality(S) + 1
    BY <2>4, FS_AddElement, FS_CardinalityType
  <2>6. Cardinality(ToSet(hs)) <= Cardinality(S) + 1
    BY <1>12, <2>3, <2>5, Zenon
  <2>7. Cardinality(S) \in Nat /\ Len(h) \in Nat /\ Len(hs) \in Nat
    BY <1>10, <1>12, <2>4, FS_CardinalityType
  <2> QED
    BY <2>1, <2>2, <2>4, <2>6, <2>7, FiniteFacts
<1>22. \A f \in Entries : f \in Refd' => Live(f) /\ entry'[f] = entry[f]
  BY <1>15, <1>16, <1>17
<1>23. \A f \in Entries : f \notin Refd' => entry'[f] = None
  BY <1>16
<1>24. e \in ToSet(hs)
  BY <1>12
<1> QED
  BY <1>3, <1>5, <1>11, <1>12, <1>13, <1>19, <1>20, <1>21, <1>22, <1>23, <1>24

\* The new entry enters the cache, in the place of another one of its path.
LEMMA InsertHandleInv ==
  ASSUME PoolInv, NEW t \in Threads, InsertHandle(t)
  PROVE  PoolInv'
<1>1. PICK e : e = ent[t]
  OBVIOUS
<1>2. PICK hs : hs = ToSet(handles')
  OBVIOUS
<1>3. /\ handles' \in Seq(Entries) /\ Keyed(handles', PathOf)
      /\ Len(handles') <= CacheMax + Cardinality(Threads)
      /\ \A f \in hs : f = e \/ f \in ToSet(handles)
      /\ pc[t] = "insert" /\ pc' = [pc EXCEPT ![t] = "io"]
      /\ op' = op /\ ent' = ent /\ faults' = faults
      /\ entry' \in [Entries -> Entry \cup {None}]
      /\ disk' = disk /\ content' \in [Inodes -> Contents]
  BY <1>1, <1>2, InsertFacts
<1>4. \A f \in Entries : f \in Refd' => Live(f) /\ entry'[f] = entry[f]
  BY InsertFacts
<1>5. \A f \in Entries : f \notin Refd' => entry'[f] = None
  BY InsertFacts
<1>6. Shape
  BY DEF PoolInv
<1>7. pc' \in [Threads -> PCs] /\ pc'[t] = "io" /\ Others(t)
  BY <1>3, <1>6 DEF Shape, PCs, Others
<1>8. e \in Entries /\ Live(e) /\ \A u \in Threads : ent[u] = e => u = t
  BY <1>1, <1>3 DEF PoolInv, Shape, Locals, Fresh, Using
<1>9. /\ \A f \in ToSet(handles) : f \in Entries
      /\ \A f \in hs : f \in Entries /\ f \in Refd'
  BY <1>2, <1>3, <1>6, <1>8 DEF Shape, ToSet, Refd
<1>10. \A u \in Threads : Using(u)' <=> Using(u)
  BY <1>3, <1>7 DEF Others, Using
<1>11. \A u \in Threads : Using(u) => ent[u] \in Entries /\ ent[u] \in Refd' /\ entry'[ent[u]] = entry[ent[u]]
                                     /\ Live(ent[u]) /\ entry[ent[u]].path = op[u].path
  <2>1. ASSUME NEW u \in Threads, Using(u)
        PROVE  /\ ent[u] \in Entries /\ ent[u] \in Refd' /\ Live(ent[u])
               /\ entry[ent[u]].path = op[u].path
    BY <1>3, <1>6, <2>1 DEF PoolInv, Locals, Shape, Refd
  <2> QED
    BY <1>4, <2>1
<1>12. Shape'
  BY <1>3, <1>6, <1>7 DEF Shape
<1>13. Keys'
  <2>1. \A x \in hs : PathOf'[x] = PathOf[x]
    BY <1>4, <1>9 DEF PathOf
  <2> QED
    BY <1>2, <1>3, <2>1, KeyedAgree DEF Keys
<1>14. Locals'
  <2>1. ASSUME NEW u \in Threads
        PROVE  /\ (ent[u] # None)' <=> Using(u)'
               /\ (op[u] # None)' <=> (pc[u] # "idle")'
               /\ Using(u)' => Live(ent[u])' /\ (entry[ent[u]].path = op[u].path)'
    <3>1. /\ ent[u] # None <=> Using(u)
          /\ op[u] # None <=> pc[u] # "idle"
      BY DEF PoolInv, Locals
    <3>2. (pc[u] # "idle")' <=> pc[u] # "idle"
      BY <1>3, <1>7 DEF Others
    <3> QED
      BY <1>3, <1>10, <1>11, <3>1, <3>2 DEF Live
  <2> QED
    BY <2>1 DEF Locals
<1>15. Reached'
  BY <1>2, <1>4, <1>5, <1>9 DEF Reached, Live
<1>16. Fresh'
  <2>1. ASSUME NEW u \in Threads, pc'[u] = "insert"
        PROVE  /\ entry'[ent'[u]].open /\ ent'[u] \notin hs
               /\ \A v \in Threads : ent'[v] = ent'[u] => v = u
    <3>1. u # t /\ pc[u] = "insert"
      BY <1>7, <2>1 DEF Others
    <3>2. /\ entry[ent[u]].open /\ ent[u] \notin ToSet(handles)
          /\ \A v \in Threads : ent[v] = ent[u] => v = u
      BY <3>1 DEF PoolInv, Fresh, IsOpen
    <3>3. ent[u] # e /\ entry'[ent[u]] = entry[ent[u]]
      BY <1>8, <1>11, <3>1 DEF Using
    <3> QED
      BY <1>3, <3>2, <3>3
  <2> QED
    BY <1>2, <2>1 DEF Fresh, IsOpen
<1>17. Counted'
  <2>1. ASSUME NEW f \in Entries, Live(f)'
        PROVE  /\ entry'[f].refs >= Cardinality(Held(f)')
               /\ f \in hs => entry'[f].refs = Cardinality(Held(f)')
               /\ (\E u \in Threads : pc'[u] = "insert" /\ ent'[u] = f) => entry'[f].refs = 1
    <3>1. Held(f)' = Held(f)
      BY <1>3, <1>10 DEF Held
    <3>2. Live(f) /\ entry'[f] = entry[f]
      BY <1>4, <1>5, <2>1 DEF Live
    <3>3. /\ entry[f].refs >= Cardinality(Held(f))
          /\ f \in ToSet(handles) => entry[f].refs = Cardinality(Held(f))
          /\ (\E u \in Threads : pc[u] = "insert" /\ ent[u] = f) => entry[f].refs = 1
      BY <3>2 DEF PoolInv, Counted
    <3>4. \A u \in Threads : pc'[u] = "insert" => pc[u] = "insert"
      BY <1>7 DEF Others
    <3>5. f = e => entry[f].refs = Cardinality(Held(f))
      <4>1. Held(e) = {t}
        BY <1>1, <1>3, <1>8 DEF Held, Using
      <4>2. Cardinality({t}) = 1
        BY FS_Singleton
      <4>3. f = e => entry[f].refs = 1
        BY <1>1, <1>3, <3>3
      <4> QED
        BY <4>1, <4>2, <4>3
    <3> QED
      BY <1>3, <3>1, <3>2, <3>3, <3>4, <3>5
  <2> QED
    BY <1>2, <2>1 DEF Counted
<1>18. CachedOpen'
  <2>1. entry[e].open
    BY <1>1, <1>3 DEF PoolInv, Fresh, IsOpen
  <2> QED
    BY <1>2, <1>3, <1>4, <1>9, <2>1 DEF PoolInv, CachedOpen, IsOpen
<1>19. Room'
  BY <1>3 DEF Room
<1> QED
  BY <1>12, <1>13, <1>14, <1>15, <1>16, <1>17, <1>18, <1>19 DEF PoolInv

\* The collector's unlink: no entry changes.
LEMMA GcUnlinkInv ==
  ASSUME PoolInv, NEW p \in Paths, GcUnlink(p)
  PROVE  PoolInv'
<1>1. PICK names : names = [disk EXCEPT ![p] = None]
  OBVIOUS
<1>2. /\ pc' = pc /\ op' = op /\ ent' = ent /\ handles' = handles /\ faults' = faults
      /\ Settle(entry, names, content)
  BY <1>1 DEF GcUnlink, Unlink
<1>3. Shape
  BY DEF PoolInv
<1>4. names \in [Paths -> Inodes \cup {None}]
  BY <1>1, <1>3 DEF Shape
<1>5. disk' \in [Paths -> Inodes \cup {None}] /\ content' \in [Inodes -> Contents]
  BY <1>2, <1>3, <1>4, SettleTypes DEF Shape
<1>6. entry' = [e \in Entries |-> IF e \in Refd' THEN entry[e] ELSE None]
  BY <1>2, SettleFacts, Zenon
<1>7. Refd' = Refd
  BY <1>2 DEF Refd
<1>8. entry' = entry
  <2>1. \A e \in Entries : e \notin Refd => entry[e] = None
    BY DEF PoolInv, Reached, Live
  <2>2. entry = [e \in Entries |-> entry[e]]
    BY <1>3 DEF Shape
  <2>3. [e \in Entries |-> IF e \in Refd THEN entry[e] ELSE None] = [e \in Entries |-> entry[e]]
    BY <2>1
  <2> QED
    BY <1>6, <1>7, <2>2, <2>3
<1>9. Shape'
  BY <1>2, <1>3, <1>5, <1>8 DEF Shape
<1>10. PathOf' = PathOf
  BY <1>8 DEF PathOf
<1>11. Keys' /\ CachedOpen' /\ Room' /\ Reached'
  BY <1>2, <1>7, <1>8, <1>10 DEF PoolInv, Keys, CachedOpen, IsOpen, Room, Reached, Live
<1>12. Locals' /\ Fresh'
  BY <1>2, <1>8 DEF PoolInv, Locals, Fresh, Using, Live, IsOpen
<1>13. \A e : Held(e)' = Held(e)
  BY <1>2 DEF Held, Using
<1>14. Counted'
  BY <1>2, <1>8, <1>13 DEF PoolInv, Counted, Live
<1> QED
  BY <1>9, <1>11, <1>12, <1>14 DEF PoolInv

\* The next process starts with an empty cache.
LEMMA RestartInv ==
  ASSUME PoolInv, Restart
  PROVE  PoolInv'
<1>1. PICK h : h = handles'
  OBVIOUS
<1>2. h \in Seq(Entries) /\ Len(h) = 0 /\ ToSet(h) = {} /\ 1..Len(h) = {}
  <2>1. h = <<>>
    BY <1>1 DEF Restart
  <2> QED
    BY <2>1 DEF ToSet
<1>3. /\ entry' = [e \in Entries |-> None]
      /\ pc' = [t \in Threads |-> "idle"] /\ op' = [t \in Threads |-> None]
      /\ ent' = [t \in Threads |-> None] /\ disk' = disk /\ faults' = 0
  BY DEF Restart
<1>4. \A t \in Threads : ~Using(t)' /\ pc'[t] = "idle" /\ op'[t] = None /\ ent'[t] = None
  BY <1>3 DEF Using
<1>5. Shape'
  <2>1. content' \in [Inodes -> Contents]
    <3>1. PICK torn : content' = [n \in Inodes |-> IF n \notin Range(disk) THEN "empty"
                                    ELSE IF n \in torn THEN "partial" ELSE content[n]]
      BY DEF Restart
    <3> QED
      BY <3>1 DEF PoolInv, Shape, Contents
  <2>2. handles' \in Seq(Entries)
    BY <1>1, <1>2
  <2> QED
    BY <1>3, <2>1, <2>2, PoolAssumption DEF PoolInv, Shape, PCs
<1>6. Keys' /\ CachedOpen'
  BY <1>1, <1>2 DEF Keys, Keyed, CachedOpen
<1>7. Room'
  BY <1>1, <1>2, FiniteFacts DEF Room
<1>8. Locals' /\ Fresh'
  BY <1>4 DEF Locals, Fresh
<1>9. Reached' /\ Counted'
  BY <1>1, <1>2, <1>3 DEF Reached, Counted, Live
<1> QED
  BY <1>5, <1>6, <1>7, <1>8, <1>9 DEF PoolInv

\* A step that touches neither a thread nor the cache nor a file.
LEMMA StutterInv ==
  ASSUME PoolInv, pc' = pc, op' = op, ent' = ent, handles' = handles, entry' = entry,
         disk' = disk, content' = content, faults' = faults
  PROVE  PoolInv'
<1>2. Shape' /\ Room' /\ Locals'
  BY DEF PoolInv, Shape, Room, Locals, Using, Live
<1>3. PathOf' = PathOf /\ Refd' = Refd /\ \A e : Held(e)' = Held(e)
  BY DEF PathOf, Refd, Held, Using
<1>4. Keys' /\ CachedOpen' /\ Reached' /\ Fresh'
  BY <1>3 DEF PoolInv, Keys, CachedOpen, Reached, Fresh, IsOpen, Live
<1>5. Counted'
  BY <1>3 DEF PoolInv, Counted, Live
<1> QED
  BY <1>2, <1>4, <1>5 DEF PoolInv

\* Every step keeps the invariant.
LEMMA StepInv ==
  ASSUME PoolInv, [Next]_vars
  PROVE  PoolInv'
<1>1. CASE \E t \in Threads, kind \in {"write", "read"}, p \in Paths : Begin(t, kind, p)
  BY <1>1, BeginInv
<1>2. ASSUME NEW t \in Threads, Step(t)
      PROVE  PoolInv'
  BY <1>2, CacheHitInv, CacheMissInv, OpenHandleInv, OpenFailsInv, InsertHandleInv, IoFullInv,
     IoShortInv, ReleaseHandleInv, DropHandleInv, UnlinkFailedInv DEF Step
<1>3. CASE \E p \in Paths : GcUnlink(p)
  BY <1>3, GcUnlinkInv
<1>4. CASE Restart
  BY <1>4, RestartInv
<1>5. CASE UNCHANGED vars
  BY <1>5, StutterInv DEF vars, fsVars
<1> QED
  BY <1>1, <1>2, <1>3, <1>4, <1>5 DEF Next

-----------------------------------------------------------------------------
(* The theorems. *)

\* The inductive invariant holds in every reachable state.
THEOREM Invariance == Spec => []PoolInv
<1>1. Init => PoolInv
  BY InitInv
<1>2. PoolInv /\ [Next]_vars => PoolInv'
  BY StepInv
<1> QED
  BY <1>1, <1>2, PTL DEF Spec

\* What is mixed or spoilt is a path.
LEMMA SetsStep ==
  ASSUME PoolInv, Sets, [Next]_vars
  PROVE  Sets'
<1>1. \A t \in Threads : pc[t] # "idle" => op[t].path \in Paths
  BY DEF PoolInv, Shape, Locals, Op
<1>2. ASSUME NEW t \in Threads, NEW kind \in {"write", "read"}, NEW p \in Paths, Begin(t, kind, p)
      PROVE  Sets'
  BY <1>2 DEF Begin, Sets
<1>3. ASSUME NEW t \in Threads, UnlinkFailed(t)
      PROVE  Sets'
  BY <1>1, <1>3 DEF UnlinkFailed, Unlink, Sets
<1>4. ASSUME NEW t \in Threads, Step(t), ~UnlinkFailed(t)
      PROVE  Sets'
  BY <1>4 DEF Step, CacheHit, CacheMiss, OpenHandle, OpenFails, InsertHandle, IoFull, IoShort,
     ReleaseHandle, DropHandle, auxVars, Sets
<1>5. ASSUME NEW p \in Paths, GcUnlink(p)
      PROVE  Sets'
  BY <1>5 DEF GcUnlink, Unlink, Sets
<1>6. CASE Restart \/ UNCHANGED vars
  BY <1>6 DEF Restart, vars, auxVars, Sets
<1> QED
  BY <1>2, <1>3, <1>4, <1>5, <1>6 DEF Next

\* The handle cache has one entry for a path, and every value its type.
THEOREM TypeCorrect == Spec => []TypeOK
<1>1. PoolInv /\ Sets => TypeOK
  <2> SUFFICES ASSUME PoolInv, Sets
               PROVE  TypeOK
    OBVIOUS
  <2>1. \A k \in 1..Len(handles) : handles[k] \in Entries
    BY DEF PoolInv, Shape
  <2>2. \A k, l \in 1..Len(handles) : entry[handles[k]].path = entry[handles[l]].path => k = l
    BY <2>1 DEF PoolInv, Keys, Keyed, PathOf
  <2> QED
    BY <2>2 DEF PoolInv, Shape, Sets, TypeOK
<1>2. Init => Sets
  BY DEF Init, Sets
<1>3. PoolInv /\ Sets /\ [Next]_vars => Sets'
  BY SetsStep
<1> QED
  BY <1>1, <1>2, <1>3, Invariance, PTL DEF Spec

\* The count of a cached handle is the number of threads that hold it: neither
\* a hit, an overwrite, a drop nor a release of several threads loses one.
THEOREM RefsAreExact == Spec => []RefsExact
<1>1. PoolInv => RefsExact
  <2> SUFFICES ASSUME PoolInv, NEW e \in ToSet(handles)
               PROVE  entry[e].refs = Cardinality(Holders(e))
    BY DEF RefsExact
  <2>1. e \in Entries /\ Live(e)
    BY DEF PoolInv, Shape, Reached, ToSet
  <2>2. Holders(e) = Held(e)
    BY DEF PoolInv, Fresh, Holders, Held, Using
  <2> QED
    BY <2>1, <2>2 DEF PoolInv, Counted
<1> QED
  BY <1>1, Invariance, PTL

\* The cache never hands out a handle that has been closed.
THEOREM CacheIsOpen == Spec => []CachedOpen
<1>1. PoolInv => CachedOpen
  BY DEF PoolInv
<1> QED
  BY <1>1, Invariance, PTL

\* Eviction exceeds the cap of the cache by no more than one handle for each
\* thread.
THEOREM CapIsSoft == Spec => [](Len(handles) <= CacheMax + Cardinality(Threads))
<1>1. PoolInv => Len(handles) <= CacheMax + Cardinality(Threads)
  BY DEF PoolInv, Room
<1> QED
  BY <1>1, Invariance, PTL

\* The action of ClosedByFailureOnly.
CloseByFailure ==
  \A t \in Threads :
    pc[t] = "io" /\ pc'[t] # "idle" /\ IsOpen(ent[t]) /\ ~IsOpen(ent[t])' =>
      \E u \in Threads : pc[u] = "drop" /\ ent[u] = ent[t]

\* Only a drop by one of its own threads closes a handle that is to be used.
LEMMA ClosingStep ==
  ASSUME PoolInv, Next, NEW t \in Threads, pc[t] = "io", pc'[t] # "idle",
         \A u \in Threads : pc[u] = "drop" => ent[u] # ent[t]
  PROVE  entry'[ent'[t]].open = entry[ent[t]].open
<1> PICK e : e = ent[t]
  OBVIOUS
<1>1. Shape /\ e \in Entries /\ Live(e) /\ entry[e] \in Entry
  BY DEF PoolInv, Shape, Locals, Using, Live
<1>2. ent'[t] = e => e \in Refd'
  BY DEF Refd
<1>3. ASSUME NEW u \in Threads, Others(u), u # t
      PROVE  ent'[t] = e
  BY <1>3 DEF Others
<1>4. ASSUME NEW u \in Threads, NEW kind, NEW p, Begin(u, kind, p)
      PROVE  entry'[ent'[t]].open = entry[ent[t]].open
  BY <1>4 DEF Begin
<1>5. ASSUME NEW u \in Threads, CacheHit(u)
      PROVE  entry'[ent'[t]].open = entry[ent[t]].open
  <2>1. PICK f \in Cached(op[u].path) :
          entry' = [entry EXCEPT ![f].refs = @ + 1] /\ ent' = [ent EXCEPT ![u] = f]
    BY <1>5 DEF CacheHit
  <2>2. u # t /\ ent'[t] = e
    BY <1>1, <1>5, <2>1 DEF CacheHit, Shape
  <2>3. entry'[e].open = entry[e].open
    BY <1>1, <2>1 DEF Shape, Entry
  <2> QED
    BY <2>2, <2>3
<1>6. ASSUME NEW u \in Threads, CacheMiss(u) \/ IoFull(u) \/ IoShort(u)
      PROVE  entry'[ent'[t]].open = entry[ent[t]].open
  BY <1>6 DEF CacheMiss, IoFull, IoShort
<1>7. ASSUME NEW u \in Threads, OpenHandle(u)
      PROVE  entry'[ent'[t]].open = entry[ent[t]].open
  <2>1. PICK f : f = Least({g \in Entries : entry[g] = None})
    OBVIOUS
  <2>2. PICK r : entry' = [entry EXCEPT ![f] = r] /\ ent' = [ent EXCEPT ![u] = f]
    BY <1>7, <2>1 DEF OpenHandle
  <2>3. u # t /\ ent[u] = None
    BY <1>7 DEF OpenHandle, PoolInv, Locals, Using
  <2>4. f # e
    BY <1>1, <2>1, <2>3, FreeEntry DEF PoolInv
  <2> QED
    BY <1>1, <2>2, <2>3, <2>4 DEF Shape
<1>8. ASSUME NEW u \in Threads, OpenFails(u)
      PROVE  entry'[ent'[t]].open = entry[ent[t]].open
  <2>1. u # t /\ ent' = [ent EXCEPT ![u] = None] /\ entry' = entry
    BY <1>8 DEF OpenFails, Fail
  <2> QED
    BY <1>1, <2>1 DEF Shape
<1>9. ASSUME NEW u \in Threads, InsertHandle(u)
      PROVE  entry'[ent'[t]].open = entry[ent[t]].open
  <2>1. ent' = ent /\ \A f \in Entries : f \in Refd' => entry'[f] = entry[f]
    BY <1>9, InsertFacts
  <2> QED
    BY <1>1, <1>2, <2>1
<1>10. ASSUME NEW u \in Threads, ReleaseHandle(u)
       PROVE  entry'[ent'[t]].open = entry[ent[t]].open
  <2>1. PICK x : x = ent[u]
    OBVIOUS
  <2>2. PICK ents : ents = [entry EXCEPT ![x].refs = @ - 1]
    OBVIOUS
  <2>3. Settle(ents, disk, content) /\ Return(u) /\ pc[u] = "release"
    BY <1>10, <2>1, <2>2 DEF ReleaseHandle
  <2>4. ent'[t] = e
    BY <1>1, <1>3, <2>3, ReturnFacts
  <2>5. entry' = [f \in Entries |-> IF f \in Refd' THEN ents[f] ELSE None]
    BY <2>3, SettleFacts, Zenon
  <2>6. ents[e].open = entry[e].open
    BY <1>1, <2>2 DEF Shape, Entry
  <2> QED
    BY <1>1, <1>2, <2>4, <2>5, <2>6
<1>11. ASSUME NEW u \in Threads, DropHandle(u)
       PROVE  entry'[ent'[t]].open = entry[ent[t]].open
  <2>1. PICK x : x = ent[u]
    OBVIOUS
  <2>2. PICK ents : ents = [entry EXCEPT ![x].open = @ /\ x \notin Cached(op[u].path)]
    OBVIOUS
  <2>3. Settle(ents, disk, content) /\ Fail(u) /\ pc[u] = "drop"
    BY <1>11, <2>1, <2>2 DEF DropHandle
  <2>4. op[u] # None
    BY <2>3 DEF PoolInv, Locals
  <2>5. ent'[t] = e
    BY <1>1, <1>3, <2>3, <2>4, FailFacts
  <2>6. entry' = [f \in Entries |-> IF f \in Refd' THEN ents[f] ELSE None]
    BY <2>3, SettleFacts, Zenon
  <2>7. x # e
    BY <2>1, <2>3
  <2>8. ents[e] = entry[e]
    BY <1>1, <2>2, <2>7 DEF Shape
  <2> QED
    BY <1>1, <1>2, <2>5, <2>6, <2>8
<1>12. ASSUME NEW u \in Threads, UnlinkFailed(u)
       PROVE  entry'[ent'[t]].open = entry[ent[t]].open
  <2>1. PICK names : Settle(entry, names, content)
    BY <1>12 DEF UnlinkFailed, Unlink
  <2>2. Settle(entry, names, content) /\ Return(u) /\ pc[u] = "unlink"
    BY <1>12, <2>1 DEF UnlinkFailed
  <2>3. ent'[t] = e
    BY <1>1, <1>3, <2>2, ReturnFacts
  <2>4. entry' = [f \in Entries |-> IF f \in Refd' THEN entry[f] ELSE None]
    BY <2>2, SettleFacts, Zenon
  <2> QED
    BY <1>1, <1>2, <2>3, <2>4
<1>13. ASSUME NEW p \in Paths, GcUnlink(p)
       PROVE  entry'[ent'[t]].open = entry[ent[t]].open
  <2>1. PICK names : names = [disk EXCEPT ![p] = None]
    OBVIOUS
  <2>2. Settle(entry, names, content) /\ ent' = ent
    BY <1>13, <2>1 DEF GcUnlink, Unlink
  <2>3. entry' = [f \in Entries |-> IF f \in Refd' THEN entry[f] ELSE None]
    BY <2>2, SettleFacts, Zenon
  <2> QED
    BY <1>1, <1>2, <2>2, <2>3
<1>14. ~Restart
  BY DEF Restart
<1> QED
  BY <1>4, <1>5, <1>6, <1>7, <1>8, <1>9, <1>10, <1>11, <1>12, <1>13, <1>14 DEF Next, Step

\* A handle that a thread is about to use is closed by nothing but a failure of
\* a thread that uses it too: not by an eviction, an overwrite or a release.
THEOREM ClosedOnlyByFailure == Spec => ClosedByFailureOnly
<1>1. PoolInv /\ [Next]_vars => [CloseByFailure]_vars
  BY ClosingStep DEF CloseByFailure, IsOpen
<1> QED
  BY <1>1, Invariance, PTL DEF Spec, ClosedByFailureOnly, CloseByFailure

-----------------------------------------------------------------------------
(* What each step does to one thread, one entry and one file. *)

\* Nothing is added: entries may go, names be removed, contents be lost that
\* no name refers to.
Shrinks ==
  /\ \A e \in Entries : Live(e)' =>
       Live(e) /\ entry'[e].path = entry[e].path /\ entry'[e].inode = entry[e].inode
  /\ \A p \in Paths : disk'[p] = disk[p] \/ disk'[p] = None
  /\ \A n \in Inodes : content'[n] = content[n] \/ content'[n] = "empty"
  /\ \A p \in Paths : disk'[p] # None => content'[disk'[p]] = content[disk'[p]]

\* No content is kept that nothing refers to.
Unused ==
  \A n \in Inodes : content[n] # "empty" =>
    \/ \E p \in Paths : disk[p] = n
    \/ \E e \in Entries : Live(e) /\ entry[e].inode = n

\* The start of an operation.
LEMMA BeginFacts ==
  ASSUME PoolInv, NEW t \in Threads, NEW kind \in {"write", "read"}, NEW p \in Paths,
         Begin(t, kind, p)
  PROVE  /\ Others(t) /\ pc[t] = "idle" /\ pc'[t] = "get"
         /\ op'[t].kind = kind /\ op'[t].path = p /\ op'[t].attempt = 0
         /\ ent' = ent /\ handles' = handles /\ entry' = entry
         /\ disk' = disk /\ content' = content /\ faults' = faults
BY DEF Begin, PoolInv, Shape, Others, Goto, fsVars

\* A step that moves t on, and no more.
LEMMA PassFacts ==
  ASSUME PoolInv, NEW t \in Threads, NEW c \in PCs, Goto(t, c), op' = op, ent' = ent
  PROVE  Others(t) /\ pc'[t] = c
BY DEF PoolInv, Shape, Others, Goto

\* A hit.
LEMMA HitFacts ==
  ASSUME PoolInv, NEW t \in Threads, CacheHit(t)
  PROVE  /\ Others(t) /\ pc[t] = "get" /\ pc'[t] = "io" /\ op' = op
         /\ ent'[t] \in ToSet(handles) /\ entry[ent'[t]].path = op[t].path
         /\ ToSet(handles') = ToSet(handles)
         /\ \A f \in Entries : Live(f)' <=> Live(f)
         /\ \A f \in Entries : Live(f) =>
              /\ entry'[f].path = entry[f].path /\ entry'[f].inode = entry[f].inode
              /\ entry'[f].open = entry[f].open
         /\ disk' = disk /\ content' = content /\ faults' = faults
<1>1. PICK e \in Cached(op[t].path) :
        /\ handles' = Append(Without(handles, {e}), e)
        /\ entry' = [entry EXCEPT ![e].refs = @ + 1]
        /\ ent' = [ent EXCEPT ![t] = e]
  BY DEF CacheHit
<1>2. e \in ToSet(handles) /\ entry[e].path = op[t].path
  BY DEF Cached
<1>3. e \in Entries /\ Live(e) /\ entry[e] \in Entry
  BY <1>2 DEF PoolInv, Shape, Reached, Live, ToSet
<1>4. ToSet(handles') = ToSet(handles)
  BY <1>1, <1>2, MoveToEnd DEF PoolInv, Shape, Keys
<1>5. /\ pc[t] = "get" /\ pc' = [pc EXCEPT ![t] = "io"]
      /\ op' = op /\ disk' = disk /\ content' = content /\ faults' = faults
  BY DEF CacheHit, Goto, fsVars
<1>6. /\ entry'[e].path = entry[e].path /\ entry'[e].inode = entry[e].inode
      /\ entry'[e].open = entry[e].open /\ entry'[e] # None
  <2>1. entry'[e] = [entry[e] EXCEPT !.refs = @ + 1]
    BY <1>1, <1>3 DEF PoolInv, Shape
  <2>2. entry'[e] \in Entry
    BY <1>3, <2>1 DEF Entry
  <2> QED
    BY <1>3, <2>1, <2>2, NoneApart DEF Entry
<1>7. \A f \in Entries : f # e => entry'[f] = entry[f]
  BY <1>1 DEF PoolInv, Shape
<1>8. Others(t) /\ pc'[t] = "io" /\ ent'[t] = e
  BY <1>1, <1>5 DEF PoolInv, Shape, Others
<1> QED
  BY <1>2, <1>3, <1>4, <1>5, <1>6, <1>7, <1>8 DEF Live

\* A successful open.
LEMMA OpenFacts ==
  ASSUME PoolInv, NEW t \in Threads, OpenHandle(t)
  PROVE  LET p == op[t].path  e == ent'[t]  n == Opened(p)
         IN  /\ Others(t) /\ pc[t] = "open" /\ pc'[t] = "insert" /\ op' = op /\ p \in Paths
             /\ e \in Entries /\ ~Live(e) /\ \A u \in Threads : ent[u] # e
             /\ handles' = handles /\ content' = content /\ faults' = faults
             /\ entry'[e] # None /\ entry'[e].path = p /\ entry'[e].inode = n /\ entry'[e].open
             /\ \A f \in Entries : f # e => entry'[f] = entry[f]
             /\ disk'[p] = n /\ \A q \in Paths : q # p => disk'[q] = disk[q]
<1>1. PICK e : e = Least({f \in Entries : entry[f] = None})
  OBVIOUS
<1>2. PICK p : p = op[t].path
  OBVIOUS
<1>3. PICK n : n = Opened(p)
  OBVIOUS
<1>4. PICK r : r = [path |-> p, inode |-> n, refs |-> 1, open |-> TRUE]
  OBVIOUS
<1>5. /\ ent' = [ent EXCEPT ![t] = e] /\ entry' = [entry EXCEPT ![e] = r]
      /\ disk' = [disk EXCEPT ![p] = n]
  BY <1>1, <1>2, <1>3, <1>4 DEF OpenHandle
<1>6. /\ pc[t] = "open" /\ pc' = [pc EXCEPT ![t] = "insert"]
      /\ op' = op /\ handles' = handles /\ content' = content /\ faults' = faults
  BY DEF OpenHandle, Goto
<1>7. ent[t] = None /\ op[t] # None /\ p \in Paths
  BY <1>2, <1>6 DEF PoolInv, Locals, Using, Shape, Op
<1>8. e \in Entries /\ ~Live(e) /\ n \in Inodes
  BY <1>1, <1>3, <1>7, FreeEntry, FreeInode DEF PoolInv
<1>9. r \in Entry /\ r.path = p /\ r.inode = n /\ r.open = TRUE
  BY <1>4, <1>7, <1>8 DEF Entry
<1>10. entry'[e] = r /\ \A f \in Entries : f # e => entry'[f] = entry[f]
  BY <1>5, <1>8 DEF PoolInv, Shape
<1>11. disk'[p] = n /\ \A q \in Paths : q # p => disk'[q] = disk[q]
  BY <1>5, <1>7 DEF PoolInv, Shape
<1>12. Others(t) /\ pc'[t] = "insert" /\ ent'[t] = e
  BY <1>5, <1>6 DEF PoolInv, Shape, Others
<1>13. \A u \in Threads : ent[u] # e
  BY <1>8, NoneApart DEF PoolInv, Locals
<1> QED
  BY <1>2, <1>3, <1>6, <1>7, <1>8, <1>9, <1>10, <1>11, <1>12, <1>13, NoneApart

\* A settled step loses entries, names and contents, and nothing else changes.
LEMMA SettleShrinks ==
  ASSUME PoolInv, NEW ents, NEW names, Settle(ents, names, content), Refd' \subseteq Refd \cup {None},
         ents \in [Entries -> Entry \cup {None}], names \in [Paths -> Inodes \cup {None}],
         \A e \in Entries : Live(e) =>
           ents[e] # None /\ ents[e].path = entry[e].path /\ ents[e].inode = entry[e].inode,
         \A p \in Paths : names[p] = disk[p] \/ names[p] = None
  PROVE  /\ Shrinks /\ Unused'
         /\ \A e \in Entries : Live(e)' => e \in Refd' /\ entry'[e] = ents[e]
<1>1. entry' = [e \in Entries |-> IF e \in Refd' THEN ents[e] ELSE None]
  BY SettleFacts, Zenon
<1>2. disk' = names
  BY SettleFacts, Zenon
<1>3. content' = [n \in Inodes |->
        IF n \in Range(names) \/ \E e \in Refd' \ {None} : ents[e].inode = n
        THEN content[n] ELSE "empty"]
  BY SettleFacts
<1>4. \A e \in Refd : e = None \/ (e \in Entries /\ Live(e))
  BY DEF Refd, PoolInv, Shape, Reached, Locals, ToSet
<1>5. \A e \in Entries : Live(e)' => e \in Refd' /\ Live(e) /\ entry'[e] = ents[e]
  BY <1>1, <1>4, NoneApart DEF Live
<1>6. Shrinks
  <2>1. \A p \in Paths : disk'[p] # None => disk'[p] \in Inodes /\ disk'[p] \in Range(names)
    BY <1>2 DEF Range
  <2>2. \A p \in Paths : disk'[p] # None => content'[disk'[p]] = content[disk'[p]]
    BY <1>3, <2>1
  <2> QED
    BY <1>2, <1>3, <1>5, <2>2 DEF Shrinks
<1>7. Unused'
  <2>1. ASSUME NEW n \in Inodes, content'[n] # "empty"
        PROVE  (\E p \in Paths : disk'[p] = n) \/ (\E e \in Entries : Live(e)' /\ entry'[e].inode = n)
    <3>1. n \in Range(names) \/ \E e \in Refd' \ {None} : ents[e].inode = n
      BY <1>3, <2>1
    <3>2. n \in Range(names) => \E p \in Paths : disk'[p] = n
      BY <1>2 DEF Range
    <3>3. ASSUME NEW e \in Refd' \ {None}, ents[e].inode = n
          PROVE  e \in Entries /\ Live(e)' /\ entry'[e].inode = n
      <4>1. e \in Entries /\ Live(e)
        BY <1>4, <3>3
      <4> QED
        BY <1>1, <3>3, <4>1 DEF Live
    <3> QED
      BY <3>1, <3>2, <3>3
  <2> QED
    BY <2>1 DEF Unused
<1> QED
  BY <1>5, <1>6, <1>7

\* An insertion.
LEMMA InsertFiles ==
  ASSUME PoolInv, NEW t \in Threads, InsertHandle(t)
  PROVE  /\ Shrinks /\ Unused' /\ Others(t) /\ pc[t] = "insert" /\ pc'[t] = "io"
         /\ op' = op /\ ent' = ent /\ faults' = faults /\ disk' = disk
         /\ \A f \in ToSet(handles') : f = ent[t] \/ f \in ToSet(handles)
         /\ \A f \in Entries : Live(f)' => entry'[f] = entry[f]
<1>1. PICK ents : ents = [f \in Entries |-> IF f \in Victims THEN [entry[f] EXCEPT !.open = FALSE]
                                            ELSE entry[f]]
  OBVIOUS
<1>2. Settle(ents, disk, content)
  BY <1>1, Zenon DEF InsertHandle
<1>3. Shape /\ \A f \in Victims : f \in Entries /\ Live(f)
  BY VictimFacts DEF PoolInv, Shape, Reached, ToSet
<1>4. ASSUME NEW f \in Entries, Live(f)
      PROVE  ents[f] \in Entry /\ ents[f].path = entry[f].path /\ ents[f].inode = entry[f].inode
  <2>1. entry[f] \in Entry
    BY <1>3, <1>4 DEF Shape, Live
  <2>2. [entry[f] EXCEPT !.open = FALSE] \in Entry
    BY <2>1 DEF Entry
  <2>3. CASE f \in Victims
    <3>1. ents[f] = [entry[f] EXCEPT !.open = FALSE]
      BY <1>1, <2>3
    <3> QED
      BY <2>1, <2>2, <3>1 DEF Entry
  <2>4. CASE f \notin Victims
    BY <1>1, <2>1, <2>4
  <2> QED
    BY <2>3, <2>4
<1>5. ents \in [Entries -> Entry \cup {None}]
  <2>1. \A f \in Entries : ~Live(f) => ents[f] = None
    BY <1>1, <1>3 DEF Live
  <2>2. ents = [f \in Entries |-> ents[f]]
    BY <1>1
  <2> QED
    BY <1>4, <2>1, <2>2
<1>6. /\ \A f \in ToSet(handles') : f = ent[t] \/ f \in ToSet(handles)
      /\ pc[t] = "insert" /\ pc' = [pc EXCEPT ![t] = "io"]
      /\ op' = op /\ ent' = ent /\ faults' = faults /\ disk' = disk
      /\ \A f \in Entries : f \in Refd' => entry'[f] = entry[f]
  BY InsertFacts
<1>7. Refd' \subseteq Refd
  BY <1>6 DEF Refd
<1>8. disk \in [Paths -> Inodes \cup {None}]
  BY <1>3 DEF Shape
<1>9. /\ Shrinks /\ Unused'
      /\ \A e \in Entries : Live(e)' => e \in Refd' /\ entry'[e] = ents[e]
  BY <1>2, <1>4, <1>5, <1>7, <1>8, NoneApart, SettleShrinks
<1>10. Others(t) /\ pc'[t] = "io"
  BY <1>3, <1>6 DEF Shape, Others
<1> QED
  BY <1>6, <1>9, <1>10

\* A release.
LEMMA ReleaseFiles ==
  ASSUME PoolInv, NEW t \in Threads, ReleaseHandle(t)
  PROVE  /\ Shrinks /\ Unused' /\ Others(t) /\ pc[t] = "release" /\ pc'[t] = "idle"
         /\ op'[t] = None /\ ent'[t] = None
         /\ handles' = handles /\ faults' = faults /\ disk' = disk
         /\ \A f \in Entries : Live(f)' => entry'[f].open = entry[f].open
<1>1. PICK x : x = ent[t]
  OBVIOUS
<1>2. PICK ents : ents = [entry EXCEPT ![x].refs = @ - 1]
  OBVIOUS
<1>3. /\ Settle(ents, disk, content) /\ Return(t) /\ pc[t] = "release"
      /\ handles' = handles /\ faults' = faults
  BY <1>1, <1>2 DEF ReleaseHandle
<1>4. Shape /\ x \in Entries /\ Live(x) /\ entry[x] \in Entry
  BY <1>1, <1>3 DEF PoolInv, Shape, Locals, Using, Live
<1>5. ents[x] = [entry[x] EXCEPT !.refs = @ - 1] /\ \A f \in Entries : f # x => ents[f] = entry[f]
  BY <1>2, <1>4 DEF Shape
<1>6. entry[x].refs - 1 \in Nat
  <2>1. t \in Held(x)
    BY <1>1, <1>3 DEF Held, Using
  <2>2. Cardinality(Held(x)) # 0
    BY <2>1, FiniteFacts, FS_EmptySet
  <2>3. entry[x].refs >= Cardinality(Held(x)) /\ entry[x].refs \in Nat
    BY <1>4 DEF PoolInv, Counted, Entry
  <2> QED
    BY <2>2, <2>3, FiniteFacts
<1>7. /\ ents[x] \in Entry /\ ents[x].path = entry[x].path /\ ents[x].inode = entry[x].inode
      /\ ents[x].open = entry[x].open
  BY <1>4, <1>5, <1>6 DEF Entry
<1>8. ents \in [Entries -> Entry \cup {None}]
  BY <1>2, <1>4, <1>5, <1>7 DEF Shape
<1>9. Others(t) /\ pc'[t] = "idle" /\ op'[t] = None /\ ent'[t] = None
  BY <1>3, <1>4, ReturnFacts
<1>10. Refd' \subseteq Refd \cup {None}
  BY <1>3, <1>9 DEF Refd, Others
<1>11. entry' = [f \in Entries |-> IF f \in Refd' THEN ents[f] ELSE None]
  BY <1>3, SettleFacts, Zenon
<1>12. disk' = disk
  BY <1>3, SettleFacts, Zenon
<1>13. /\ Shrinks /\ Unused'
       /\ \A e \in Entries : Live(e)' => e \in Refd' /\ entry'[e] = ents[e]
  <2>1. \A e \in Entries : Live(e) =>
          ents[e] # None /\ ents[e].path = entry[e].path /\ ents[e].inode = entry[e].inode
    BY <1>5, <1>7, NoneApart DEF Live
  <2>2. disk \in [Paths -> Inodes \cup {None}]
    BY <1>4 DEF Shape
  <2> QED
    BY <1>3, <1>8, <1>10, <2>1, <2>2, SettleShrinks
<1>14. \A f \in Entries : Live(f)' => entry'[f].open = entry[f].open
  BY <1>5, <1>7, <1>13
<1> QED
  BY <1>3, <1>9, <1>12, <1>13, <1>14

\* A drop.
LEMMA DropFiles ==
  ASSUME PoolInv, NEW t \in Threads, DropHandle(t)
  PROVE  /\ Shrinks /\ Unused' /\ Others(t) /\ pc[t] = "drop" /\ pc'[t] \in {"get", "unlink"}
         /\ op[t] # None /\ op'[t] # None
         /\ op'[t].path = op[t].path /\ op'[t].kind = op[t].kind
         /\ pc'[t] = "get" => op[t].kind = "read" /\ op[t].attempt = 0 /\ op'[t].attempt = 1
         /\ pc'[t] = "unlink" => op'[t] = op[t] /\ (op[t].kind = "read" => op[t].attempt = 1)
         /\ ent'[t] = None /\ faults' = faults /\ disk' = disk
         /\ ToSet(handles') = {e \in ToSet(handles) : entry[e].path # op[t].path}
         /\ \A f \in Entries : Live(f)' /\ f # ent[t] => entry'[f] = entry[f]
<1>1. PICK x : x = ent[t]
  OBVIOUS
<1>2. PICK C : C = Cached(op[t].path)
  OBVIOUS
<1>3. PICK ents : ents = [entry EXCEPT ![x].open = @ /\ x \notin C]
  OBVIOUS
<1>4. /\ pc[t] = "drop" /\ Fail(t) /\ handles' = Without(handles, C) /\ faults' = faults
      /\ Settle(ents, disk, content)
  BY <1>1, <1>2, <1>3, Zenon DEF DropHandle
<1>5. Shape /\ x \in Entries /\ Live(x) /\ entry[x] \in Entry /\ op[t] # None
  BY <1>1, <1>4 DEF PoolInv, Shape, Locals, Using, Live
<1>6. ents[x] = [entry[x] EXCEPT !.open = @ /\ x \notin C]
        /\ \A f \in Entries : f # x => ents[f] = entry[f]
  BY <1>3, <1>5 DEF Shape
<1>7. ents[x] \in Entry /\ ents[x].path = entry[x].path /\ ents[x].inode = entry[x].inode
  <2>1. entry[x].open \in BOOLEAN
    BY <1>5 DEF Entry
  <2>2. PICK b \in BOOLEAN : b = (entry[x].open /\ x \notin C)
    OBVIOUS
  <2>3. ents[x] = [entry[x] EXCEPT !.open = b]
    BY <1>6, <2>2
  <2> QED
    BY <1>5, <2>3 DEF Entry
<1>8. ents \in [Entries -> Entry \cup {None}]
  BY <1>3, <1>5, <1>6, <1>7 DEF Shape
<1>9. /\ Others(t) /\ pc'[t] \in {"get", "unlink"} /\ ent'[t] = None
      /\ op'[t] # None /\ op'[t].path = op[t].path /\ op'[t].kind = op[t].kind
      /\ pc'[t] = "get" => op[t].kind = "read" /\ op[t].attempt = 0 /\ op'[t].attempt = 1
      /\ pc'[t] = "unlink" => op'[t] = op[t] /\ (op[t].kind = "read" => op[t].attempt = 1)
  BY <1>4, <1>5, FailFacts
<1>10. ToSet(handles') = {e \in ToSet(handles) : entry[e].path # op[t].path}
  <2>1. ToSet(handles') = ToSet(handles) \ C
    BY <1>4, <1>5, WithoutFacts DEF PoolInv, Keys, Shape
  <2> QED
    BY <1>2, <2>1 DEF Cached
<1>11. Refd' \subseteq Refd \cup {None}
  BY <1>9, <1>10 DEF Refd, Others
<1>12. disk' = disk
  BY <1>4, SettleFacts, Zenon
<1>13. /\ Shrinks /\ Unused'
       /\ \A e \in Entries : Live(e)' => e \in Refd' /\ entry'[e] = ents[e]
  <2>1. \A e \in Entries : Live(e) =>
          ents[e] # None /\ ents[e].path = entry[e].path /\ ents[e].inode = entry[e].inode
    BY <1>6, <1>7, NoneApart DEF Live
  <2>2. disk \in [Paths -> Inodes \cup {None}]
    BY <1>5 DEF Shape
  <2> QED
    BY <1>4, <1>8, <1>11, <2>1, <2>2, SettleShrinks
<1>14. \A f \in Entries : Live(f)' /\ f # ent[t] => entry'[f] = entry[f]
  BY <1>1, <1>6, <1>13
<1> QED
  BY <1>4, <1>5, <1>9, <1>10, <1>12, <1>13, <1>14

\* An unlink.
LEMMA UnlinkFiles ==
  ASSUME PoolInv, NEW names \in [Paths -> Inodes \cup {None}],
         \A p \in Paths : names[p] = disk[p] \/ names[p] = None,
         Settle(entry, names, content), Refd' \subseteq Refd \cup {None}
  PROVE  /\ Shrinks /\ Unused' /\ disk' = names
         /\ \A f \in Entries : Live(f)' => entry'[f] = entry[f]
<1>1. entry \in [Entries -> Entry \cup {None}]
  BY DEF PoolInv, Shape
<1>2. disk' = names
  BY SettleFacts, Zenon
<1>3. /\ Shrinks /\ Unused'
      /\ \A e \in Entries : Live(e)' => e \in Refd' /\ entry'[e] = entry[e]
  BY <1>1, SettleShrinks DEF Live
<1> QED
  BY <1>2, <1>3

\* The unlink that ends a failed operation, or fails itself.
LEMMA UnlinkFailedFiles ==
  ASSUME PoolInv, NEW t \in Threads, UnlinkFailed(t)
  PROVE  /\ Shrinks /\ Unused' /\ Others(t) /\ pc[t] = "unlink" /\ pc'[t] = "idle"
         /\ op'[t] = None /\ ent'[t] = None /\ op[t].path \in Paths
         /\ handles' = handles /\ faults' >= faults
         /\ \A q \in Paths : q # op[t].path => disk'[q] = disk[q]
         /\ \/ /\ disk'[op[t].path] = None
               /\ spoilt' = IF HasFile(op[t].path, "whole") /\ InUse(op[t].path) \ {t} # {}
                            THEN spoilt \cup {op[t].path} ELSE spoilt
            \/ disk'[op[t].path] = disk[op[t].path] /\ spoilt' = spoilt \cup {op[t].path}
         /\ \A f \in Entries : Live(f)' => entry'[f] = entry[f]
<1>1. PICK p : p = op[t].path
  OBVIOUS
<1>2. PICK gone : gone = [disk EXCEPT ![p] = None]
  OBVIOUS
<1>3. /\ Return(t) /\ pc[t] = "unlink" /\ handles' = handles
      /\ \/ /\ Settle(entry, gone, content) /\ faults' = faults
            /\ spoilt' = IF HasFile(p, "whole") /\ InUse(p) \ {t} # {}
                         THEN spoilt \cup {p} ELSE spoilt
         \/ Settle(entry, disk, content) /\ faults' = faults + 1 /\ spoilt' = spoilt \cup {p}
  BY <1>1, <1>2 DEF UnlinkFailed, Unlink, Fault
<1>4. PICK names \in {gone, disk} :
        /\ Settle(entry, names, content)
        /\ \/ /\ names = gone
              /\ spoilt' = IF HasFile(p, "whole") /\ InUse(p) \ {t} # {}
                           THEN spoilt \cup {p} ELSE spoilt
           \/ names = disk /\ spoilt' = spoilt \cup {p}
  BY <1>3
<1>5. Shape /\ p \in Paths /\ faults' >= faults
  BY <1>1, <1>3 DEF PoolInv, Shape, Locals, Op
<1>6. /\ gone \in [Paths -> Inodes \cup {None}] /\ gone[p] = None
      /\ \A q \in Paths : q # p => gone[q] = disk[q]
  BY <1>2, <1>5 DEF Shape
<1>7. Others(t) /\ pc'[t] = "idle" /\ op'[t] = None /\ ent'[t] = None
  BY <1>3, <1>5, ReturnFacts
<1>8. Refd' \subseteq Refd \cup {None}
  BY <1>3, <1>7 DEF Refd, Others
<1>9. /\ names \in [Paths -> Inodes \cup {None}]
      /\ \A q \in Paths : names[q] = disk[q] \/ names[q] = None
  BY <1>5, <1>6 DEF Shape
<1>10. /\ Shrinks /\ Unused' /\ disk' = names
       /\ \A f \in Entries : Live(f)' => entry'[f] = entry[f]
  BY <1>4, <1>8, <1>9, UnlinkFiles
<1>11. /\ \A q \in Paths : q # p => disk'[q] = disk[q]
       /\ \/ /\ disk'[p] = None
             /\ spoilt' = IF HasFile(p, "whole") /\ InUse(p) \ {t} # {}
                          THEN spoilt \cup {p} ELSE spoilt
          \/ disk'[p] = disk[p] /\ spoilt' = spoilt \cup {p}
  BY <1>4, <1>6, <1>10
<1> QED
  BY <1>1, <1>3, <1>5, <1>7, <1>10, <1>11

\* The collector's unlink.
LEMMA GcUnlinkFiles ==
  ASSUME PoolInv, NEW p \in Paths, GcUnlink(p)
  PROVE  /\ Shrinks /\ Unused'
         /\ pc' = pc /\ op' = op /\ ent' = ent /\ handles' = handles /\ faults' = faults
         /\ mixed' = mixed
         /\ spoilt' = IF HasFile(p, "whole") /\ InUse(p) # {} THEN spoilt \cup {p} ELSE spoilt
         /\ disk'[p] = None /\ \A q \in Paths : q # p => disk'[q] = disk[q]
         /\ \A f \in Entries : Live(f)' => entry'[f] = entry[f]
<1>1. PICK names : names = [disk EXCEPT ![p] = None]
  OBVIOUS
<1>2. /\ pc' = pc /\ op' = op /\ ent' = ent /\ handles' = handles /\ faults' = faults
      /\ mixed' = mixed
      /\ spoilt' = IF HasFile(p, "whole") /\ InUse(p) # {} THEN spoilt \cup {p} ELSE spoilt
      /\ Settle(entry, names, content)
  BY <1>1 DEF GcUnlink, Unlink
<1>3. names \in [Paths -> Inodes \cup {None}] /\ names[p] = None
        /\ \A q \in Paths : q # p => names[q] = disk[q]
  BY <1>1 DEF PoolInv, Shape
<1>4. Refd' \subseteq Refd \cup {None}
  BY <1>2 DEF Refd
<1>5. \A q \in Paths : names[q] = disk[q] \/ names[q] = None
  BY <1>3
<1>6. /\ Shrinks /\ Unused' /\ disk' = names
      /\ \A f \in Entries : Live(f)' => entry'[f] = entry[f]
  BY <1>2, <1>3, <1>4, <1>5, UnlinkFiles
<1> QED
  BY <1>2, <1>3, <1>6

\* A restart.
LEMMA RestartFiles ==
  ASSUME PoolInv, Restart
  PROVE  /\ Unused' /\ disk' = disk
         /\ \A t \in Threads : pc'[t] = "idle"
         /\ ToSet(handles') = {} /\ \A f \in Entries : ~Live(f)'
<1>1. PICK torn :
        /\ entry' = [e \in Entries |-> None] /\ handles' = <<>>
        /\ pc' = [t \in Threads |-> "idle"] /\ disk' = disk
        /\ content' = [n \in Inodes |-> IF n \notin Range(disk) THEN "empty"
                                        ELSE IF n \in torn THEN "partial" ELSE content[n]]
  BY DEF Restart
<1>2. ToSet(handles') = {}
  BY <1>1 DEF ToSet
<1>3. \A f \in Entries : ~Live(f)'
  BY <1>1 DEF Live
<1>4. Unused'
  <2>1. Range(disk) = {disk[p] : p \in Paths}
    BY DEF Range, PoolInv, Shape
  <2>2. \A n \in Inodes : content'[n] # "empty" => \E p \in Paths : disk'[p] = n
    BY <1>1, <2>1
  <2> QED
    BY <2>2 DEF Unused
<1> QED
  BY <1>1, <1>2, <1>3, <1>4

\* A failed open.
LEMMA OpenFailsFacts ==
  ASSUME PoolInv, NEW t \in Threads, OpenFails(t)
  PROVE  LET p == op[t].path
         IN  /\ Others(t) /\ pc[t] = "open" /\ pc'[t] \in {"get", "unlink"} /\ p \in Paths
             /\ op[t] # None /\ op'[t] # None /\ op'[t].path = p /\ op'[t].kind = op[t].kind
             /\ pc'[t] = "get" => op[t].kind = "read" /\ op[t].attempt = 0 /\ op'[t].attempt = 1
             /\ pc'[t] = "unlink" => op'[t] = op[t] /\ (op[t].kind = "read" => op[t].attempt = 1)
             /\ ent[t] = None /\ ent' = ent /\ handles' = handles /\ entry' = entry /\ content' = content
             /\ faults' = faults + 1
             /\ disk'[p] = disk[p] \/ disk'[p] = Opened(p)
             /\ \A q \in Paths : q # p => disk'[q] = disk[q]
<1>1. PICK p : p = op[t].path
  OBVIOUS
<1>2. PICK n : n = Opened(p)
  OBVIOUS
<1>3. /\ pc[t] = "open" /\ Fail(t) /\ faults' = faults + 1
      /\ disk' = disk \/ disk' = [disk EXCEPT ![p] = n]
      /\ handles' = handles /\ entry' = entry /\ content' = content
  BY <1>1, <1>2 DEF OpenFails, Fault
<1>4. Shape /\ op[t] # None /\ ent[t] = None /\ p \in Paths
  BY <1>1, <1>3 DEF PoolInv, Locals, Using, Shape, Op
<1>5. ent' = ent
  BY <1>3, <1>4 DEF Fail, Shape
<1>6. /\ Others(t) /\ pc'[t] \in {"get", "unlink"}
      /\ op'[t] # None /\ op'[t].path = op[t].path /\ op'[t].kind = op[t].kind
      /\ pc'[t] = "get" => op[t].kind = "read" /\ op[t].attempt = 0 /\ op'[t].attempt = 1
      /\ pc'[t] = "unlink" => op'[t] = op[t] /\ (op[t].kind = "read" => op[t].attempt = 1)
  BY <1>3, <1>4, FailFacts
<1>7. /\ disk'[p] = disk[p] \/ disk'[p] = n
      /\ \A q \in Paths : q # p => disk'[q] = disk[q]
  BY <1>3, <1>4 DEF Shape
<1> QED
  BY <1>1, <1>2, <1>3, <1>4, <1>5, <1>6, <1>7

\* IO on the file of the thread's entry, n: whole, ...
LEMMA IoFullFacts ==
  ASSUME PoolInv, NEW t \in Threads, IoFull(t)
  PROVE  LET n == entry[ent[t]].inode
         IN  /\ Others(t) /\ pc[t] = "io" /\ pc'[t] = "release" /\ entry[ent[t]].open
             /\ op' = op /\ ent' = ent /\ handles' = handles /\ entry' = entry
             /\ disk' = disk /\ faults' = faults /\ n \in Inodes
             /\ \A m \in Inodes : m # n => content'[m] = content[m]
             /\ op[t].kind = "write" => content'[n] = "whole"
             /\ op[t].kind # "write" => content' = content
<1>1. PICK n : n = entry[ent[t]].inode
  OBVIOUS
<1>2. /\ pc[t] = "io" /\ entry[ent[t]].open /\ pc' = [pc EXCEPT ![t] = "release"]
      /\ op' = op /\ ent' = ent /\ handles' = handles /\ entry' = entry
      /\ disk' = disk /\ faults' = faults
      /\ IF op[t].kind = "write" THEN content' = [content EXCEPT ![n] = "whole"]
         ELSE content' = content
  BY <1>1 DEF IoFull, Goto, IsOpen
<1>3. Shape /\ n \in Inodes
  BY <1>1, <1>2 DEF PoolInv, Shape, Locals, Using, Live, Entry
<1>4. Others(t) /\ pc'[t] = "release"
  BY <1>2, <1>3 DEF Shape, Others
<1>5. /\ \A m \in Inodes : m # n => content'[m] = content[m]
      /\ op[t].kind = "write" => content'[n] = "whole"
      /\ op[t].kind # "write" => content' = content
  BY <1>2, <1>3 DEF Shape
<1> QED
  BY <1>1, <1>2, <1>3, <1>4, <1>5

\* ... or short.
LEMMA IoShortFacts ==
  ASSUME PoolInv, NEW t \in Threads, IoShort(t)
  PROVE  LET n == entry[ent[t]].inode
         IN  /\ Others(t) /\ pc[t] = "io" /\ pc'[t] = "drop"
             /\ op' = op /\ ent' = ent /\ handles' = handles /\ entry' = entry
             /\ disk' = disk /\ n \in Inodes
             /\ \A m \in Inodes : m # n => content'[m] = content[m]
             /\ \/ ~entry[ent[t]].open /\ content' = content /\ faults' = faults
                \/ /\ op[t].kind = "read" /\ content[n] # "whole"
                   /\ content' = content /\ faults' = faults
                \/ /\ entry[ent[t]].open /\ faults' = faults + 1
                   /\ \/ content' = content
                      \/ op[t].kind = "write" /\ content[n] = "empty" /\ content'[n] = "partial"
<1>1. PICK n : n = entry[ent[t]].inode
  OBVIOUS
<1>2. PICK c : c = [content EXCEPT ![n] = "partial"]
  OBVIOUS
<1>3. /\ pc[t] = "io" /\ pc' = [pc EXCEPT ![t] = "drop"]
      /\ op' = op /\ ent' = ent /\ handles' = handles /\ entry' = entry /\ disk' = disk
  BY DEF IoShort, Goto
<1>4. \/ ~entry[ent[t]].open /\ content' = content /\ faults' = faults
      \/ op[t].kind = "read" /\ content[n] # "whole" /\ content' = content /\ faults' = faults
      \/ /\ entry[ent[t]].open /\ faults' = faults + 1
         /\ content' = content \/ (op[t].kind = "write" /\ content[n] = "empty" /\ content' = c)
  BY <1>1, <1>2 DEF IoShort, IsOpen, Fault
<1>5. Shape /\ n \in Inodes
  BY <1>1, <1>3 DEF PoolInv, Shape, Locals, Using, Live, Entry
<1>6. Others(t) /\ pc'[t] = "drop"
  BY <1>3, <1>5 DEF Shape, Others
<1>7. c[n] = "partial" /\ \A m \in Inodes : m # n => c[m] = content[m]
  BY <1>2, <1>5 DEF Shape
<1>8. \A m \in Inodes : m # n => content'[m] = content[m]
  BY <1>4, <1>7
<1>9. \/ ~entry[ent[t]].open /\ content' = content /\ faults' = faults
      \/ op[t].kind = "read" /\ content[n] # "whole" /\ content' = content /\ faults' = faults
      \/ /\ entry[ent[t]].open /\ faults' = faults + 1
         /\ \/ content' = content
            \/ op[t].kind = "write" /\ content[n] = "empty" /\ content'[n] = "partial"
  BY <1>4, <1>7
<1> QED
  BY <1>1, <1>3, <1>5, <1>6, <1>8, <1>9

-----------------------------------------------------------------------------
(* The files: what a name, an entry and a failure say of each other. *)

\* A write fails at once, a read when it has been made again.
Attempts ==
  \A t \in Threads : pc[t] # "idle" =>
    /\ op[t].kind = "write" => op[t].attempt = 0
    /\ pc[t] = "unlink" /\ op[t].kind = "read" => op[t].attempt = 1

\* A write that nothing has run next to.
Writing(t) == pc[t] # "idle" /\ op[t].kind = "write" /\ op[t].path \notin mixed

WriterAlone ==
  \A w, u \in Threads :
    Writing(w) /\ pc[u] # "idle" /\ op[u].path = op[w].path => u = w

\* What the cache holds for the path of a writer is the writer's.
WriterCache ==
  \A w \in Threads : Writing(w) =>
    \A e \in ToSet(handles) : entry[e].path = op[w].path =>
      pc[w] = "get" \/ (pc[w] \in {"io", "drop", "release"} /\ ent[w] = e)

\* A file has one path.
Owners ==
  /\ \A p, q \in Paths : disk[p] = disk[q] /\ disk[p] # None => p = q
  /\ \A p \in Paths, e \in Entries : Live(e) /\ disk[p] = entry[e].inode => entry[e].path = p
  /\ \A e, f \in Entries :
       Live(e) /\ Live(f) /\ entry[e].inode = entry[f].inode => entry[e].path = entry[f].path

\* While the file of a path has content, every entry of the path is on it.
NamedEntries ==
  \A p \in Paths \ mixed : disk[p] # None /\ content[disk[p]] # "empty" =>
    \A e \in Entries : Live(e) /\ entry[e].path = p => entry[e].inode = disk[p]

Good(p) == p \notin mixed /\ disk[p] # None /\ content[disk[p]] = "whole"
Bad(e) == ~entry[e].open \/ \E u \in Threads : pc[u] = "drop" /\ ent[u] = e
Again(t, p) == pc[t] # "idle" /\ op[t].path = p /\ op[t].attempt = 1
Doomed(t) == pc[t] = "unlink" \/ (Using(t) /\ Bad(ent[t]))

\* The failures it takes to come near the unlink of a good file.
Failures ==
  \A p \in Paths : Good(p) =>
    /\ \A t \in Threads : Again(t, p) => faults >= 1
    /\ \A e \in Entries : Live(e) /\ entry[e].path = p /\ Bad(e) => faults >= 1
    /\ \A t \in Threads, e \in ToSet(handles) :
         Again(t, p) /\ entry[e].path = p /\ Bad(e) => faults >= 2
    /\ \A t \in Threads : Again(t, p) /\ Doomed(t) => faults >= 2

FileInv ==
  /\ Attempts /\ WriterAlone /\ WriterCache
  /\ Owners /\ Unused /\ NamedEntries /\ Failures

\* A writer's entry is the only one of its path.
LEMMA WriterEntry ==
  ASSUME PoolInv, FileInv, NEW w \in Threads, Writing(w), Using(w),
         NEW e \in Entries, Live(e), entry[e].path = op[w].path
  PROVE  e = ent[w]
<1>1. CASE e \in ToSet(handles)
  BY <1>1 DEF FileInv, WriterCache, Using
<1>2. CASE e \notin ToSet(handles)
  <2>1. PICK u \in Threads : ent[u] = e
    BY <1>2 DEF PoolInv, Reached, Refd
  <2>2. Using(u) /\ op[u].path = op[w].path
    BY <2>1, NoneApart DEF PoolInv, Locals
  <2>3. u = w
    BY <2>2 DEF FileInv, WriterAlone, Using
  <2> QED
    BY <2>1, <2>3
<1> QED
  BY <1>1, <1>2

\* The calls, after a step of t.
LEMMA CallsKept ==
  ASSUME PoolInv, Attempts, WriterAlone, NEW t \in Threads, Others(t), mixed' = mixed, pc[t] # "idle",
         \/ pc'[t] = "idle"
         \/ /\ op'[t].path = op[t].path /\ op'[t].kind = op[t].kind
            /\ op[t].kind = "write" => op'[t].attempt = op[t].attempt
            /\ pc'[t] = "unlink" /\ op[t].kind = "read" => op'[t].attempt = 1
  PROVE  Attempts' /\ WriterAlone'
<1>1. ASSUME NEW u \in Threads, pc'[u] # "idle"
      PROVE  /\ pc[u] # "idle" /\ op'[u].path = op[u].path /\ op'[u].kind = op[u].kind
             /\ op'[u].kind = "write" => op'[u].attempt = 0
             /\ pc'[u] = "unlink" /\ op'[u].kind = "read" => op'[u].attempt = 1
  <2>1. CASE u = t
    BY <1>1, <2>1 DEF Attempts
  <2>2. CASE u # t
    BY <1>1, <2>2 DEF Attempts, Others
  <2> QED
    BY <2>1, <2>2
<1>2. Attempts'
  BY <1>1 DEF Attempts
<1>3. WriterAlone'
  BY <1>1 DEF WriterAlone, Writing
<1> QED
  BY <1>2, <1>3

\* The files, after a step that adds nothing.
LEMMA ShrinkKept ==
  ASSUME PoolInv, Owners, NamedEntries, Shrinks, mixed' = mixed
  PROVE  Owners' /\ NamedEntries' /\ \A p \in Paths : Good(p)' => Good(p)
<1>1. \A e \in Entries : Live(e)' =>
        Live(e) /\ entry'[e].path = entry[e].path /\ entry'[e].inode = entry[e].inode
  BY DEF Shrinks
<1>2. \A p \in Paths : disk'[p] # None => disk'[p] = disk[p] /\ disk[p] # None /\ disk[p] \in Inodes
  BY DEF Shrinks, PoolInv, Shape
<1>3. \A e \in Entries : Live(e) => entry[e].inode # None
  BY NoneApart DEF PoolInv, Shape, Live, Entry
<1>4. \A p \in Paths : disk'[p] # None /\ content'[disk'[p]] # "empty" =>
        content[disk[p]] = content'[disk'[p]] /\ content[disk[p]] # "empty"
  BY <1>2 DEF Shrinks
<1>5. Owners'
  <2>1. \A p, q \in Paths : disk'[p] = disk'[q] /\ disk'[p] # None => p = q
    BY <1>2 DEF Owners
  <2>2. \A p \in Paths, e \in Entries : Live(e)' /\ disk'[p] = entry'[e].inode => entry'[e].path = p
    BY <1>1, <1>2, <1>3 DEF Owners
  <2>3. \A e, f \in Entries :
          Live(e)' /\ Live(f)' /\ entry'[e].inode = entry'[f].inode => entry'[e].path = entry'[f].path
    BY <1>1 DEF Owners
  <2> QED
    BY <2>1, <2>2, <2>3 DEF Owners
<1>6. NamedEntries'
  BY <1>1, <1>2, <1>4 DEF NamedEntries
<1>7. \A p \in Paths : Good(p)' => Good(p)
  BY <1>2, <1>4 DEF Good
<1> QED
  BY <1>5, <1>6, <1>7

\* The failures, after a step that comes no nearer to an unlink.
LEMMA FailuresKept ==
  ASSUME PoolInv, PoolInv', Failures, faults' >= faults,
         \A p \in Paths : Good(p)' => Good(p),
         \A t \in Threads, p \in Paths : Again(t, p)' => Again(t, p),
         \A e \in Entries : Live(e)' => Live(e) /\ entry'[e].path = entry[e].path,
         \A e \in Entries : Live(e)' /\ Bad(e)' => Bad(e),
         \A e \in ToSet(handles') : e \in ToSet(handles),
         \A t \in Threads, p \in Paths : Again(t, p)' /\ Doomed(t)' => Doomed(t)
  PROVE  Failures'
<1>1. faults \in Nat /\ faults' \in Nat
  BY PoolAssumption DEF PoolInv, Shape
<1>2. \A e \in ToSet(handles') : e \in Entries /\ Live(e)'
  BY DEF PoolInv, Reached, Shape, ToSet
<1>3. ASSUME NEW p \in Paths, Good(p)'
      PROVE  /\ \A t \in Threads : Again(t, p)' => faults' >= 1
             /\ \A e \in Entries : Live(e)' /\ entry'[e].path = p /\ Bad(e)' => faults' >= 1
             /\ \A t \in Threads, e \in ToSet(handles') :
                  Again(t, p)' /\ entry'[e].path = p /\ Bad(e)' => faults' >= 2
             /\ \A t \in Threads : Again(t, p)' /\ Doomed(t)' => faults' >= 2
  <2>1. /\ \A t \in Threads : Again(t, p) => faults >= 1
        /\ \A e \in Entries : Live(e) /\ entry[e].path = p /\ Bad(e) => faults >= 1
        /\ \A t \in Threads, e \in ToSet(handles) :
             Again(t, p) /\ entry[e].path = p /\ Bad(e) => faults >= 2
        /\ \A t \in Threads : Again(t, p) /\ Doomed(t) => faults >= 2
    BY <1>3 DEF Failures
  <2>2. \A t \in Threads : Again(t, p)' => faults' >= 1
    BY <1>1, <2>1
  <2>3. \A e \in Entries : Live(e)' /\ entry'[e].path = p /\ Bad(e)' => faults' >= 1
    BY <1>1, <2>1
  <2>4. \A t \in Threads, e \in ToSet(handles') :
          Again(t, p)' /\ entry'[e].path = p /\ Bad(e)' => faults' >= 2
    BY <1>1, <1>2, <2>1
  <2>5. \A t \in Threads : Again(t, p)' /\ Doomed(t)' => faults' >= 2
    BY <1>1, <2>1
  <2> QED
    BY <2>2, <2>3, <2>4, <2>5
<1> QED
  BY <1>3 DEF Failures

-----------------------------------------------------------------------------
(* Every step keeps the files in order. *)

\* No name, entry or content changes.
LEMMA SameFiles ==
  ASSUME FileInv, disk' = disk, content' = content, \A p \in Paths : p \in mixed => p \in mixed',
         \A e \in Entries : Live(e)' <=> Live(e),
         \A e \in Entries : Live(e) =>
           entry'[e].path = entry[e].path /\ entry'[e].inode = entry[e].inode
  PROVE  Owners' /\ Unused' /\ NamedEntries' /\ \A p \in Paths : Good(p)' => Good(p)
<1>1. Owners'
  BY DEF FileInv, Owners
<1>2. Unused'
  BY DEF FileInv, Unused
<1>3. NamedEntries'
  BY DEF FileInv, NamedEntries
<1>4. \A p \in Paths : Good(p)' => Good(p)
  BY DEF Good
<1> QED
  BY <1>1, <1>2, <1>3, <1>4

\* The start of an operation: a path is mixed when a writer does not find it idle.
LEMMA BeginFile ==
  ASSUME PoolInv, PoolInv', FileInv, NEW t \in Threads, NEW kind \in {"write", "read"},
         NEW p \in Paths, Begin(t, kind, p)
  PROVE  FileInv'
<1>1. /\ Others(t) /\ pc[t] = "idle" /\ pc'[t] = "get"
      /\ op'[t].kind = kind /\ op'[t].path = p /\ op'[t].attempt = 0
      /\ ent' = ent /\ handles' = handles /\ entry' = entry
      /\ disk' = disk /\ content' = content /\ faults' = faults
  BY BeginFacts
<1>2. /\ \A q \in Paths : q \in mixed => q \in mixed'
      /\ \A q : q \in mixed' => q \in mixed \/ q = p
      /\ \A u \in Threads : pc[u] # "idle" /\ op[u].path = p /\ p \notin mixed' =>
           kind # "write" /\ op[u].kind # "write"
  BY DEF Begin, InUse
<1>3. \A u \in Threads : u # t => pc'[u] = pc[u] /\ op'[u] = op[u]
  BY <1>1 DEF Others
<1>4. Attempts'
  BY <1>1, <1>3 DEF FileInv, Attempts
<1>5. WriterAlone'
  <2>1. ASSUME NEW w \in Threads, NEW u \in Threads, pc'[w] # "idle", op'[w].kind = "write",
               op'[w].path \notin mixed', pc'[u] # "idle", op'[u].path = op'[w].path
        PROVE  u = w
    <3> op'[w].path \in Paths
      BY <2>1 DEF PoolInv, Shape, Locals, Op
    <3>1. CASE w = t
      BY <1>1, <1>2, <1>3, <2>1, <3>1
    <3>2. CASE u = t /\ w # t
      BY <1>1, <1>2, <1>3, <2>1, <3>2
    <3>3. CASE u # t /\ w # t
      BY <1>2, <1>3, <2>1, <3>3 DEF FileInv, WriterAlone, Writing
    <3> QED
      BY <3>1, <3>2, <3>3
  <2> QED
    BY <2>1 DEF WriterAlone, Writing
<1>6. WriterCache'
  <2>1. \A w \in Threads : Writing(w)' => op'[w].path \in Paths
    BY DEF PoolInv, Shape, Locals, Op, Writing
  <2> QED
    BY <1>1, <1>2, <1>3, <2>1 DEF FileInv, WriterCache, Writing
<1>7. Owners' /\ Unused' /\ NamedEntries' /\ \A q \in Paths : Good(q)' => Good(q)
  BY <1>1, <1>2, SameFiles DEF Live
<1>8. Failures'
  <2>1. \A u \in Threads, q \in Paths : Again(u, q)' => Again(u, q) /\ u # t
    BY <1>1, <1>3 DEF Again
  <2>2. \A e \in Entries : Bad(e)' => Bad(e)
    BY <1>1, <1>3 DEF Bad
  <2>3. \A u \in Threads, q \in Paths : Again(u, q)' /\ Doomed(u)' => Doomed(u)
    BY <1>1, <1>3, <2>1 DEF Doomed, Using, Bad
  <2>4. faults' >= faults
    BY <1>1, PoolAssumption DEF PoolInv, Shape
  <2> QED
    BY <1>1, <1>7, <2>1, <2>2, <2>3, <2>4, FailuresKept DEF Live, FileInv
<1> QED
  BY <1>4, <1>5, <1>6, <1>7, <1>8 DEF FileInv

\* A hit: a writer holds all that the cache has for its path.
LEMMA CacheHitFile ==
  ASSUME PoolInv, PoolInv', FileInv, NEW t \in Threads, CacheHit(t), mixed' = mixed
  PROVE  FileInv'
<1> PICK x : x = ent'[t]
  OBVIOUS
<1>1. /\ Others(t) /\ pc[t] = "get" /\ pc'[t] = "io" /\ op' = op
      /\ x \in ToSet(handles) /\ entry[x].path = op[t].path
      /\ ToSet(handles') = ToSet(handles)
      /\ disk' = disk /\ content' = content /\ faults' = faults
  BY HitFacts
<1>2. /\ \A f \in Entries : Live(f)' <=> Live(f)
      /\ \A f \in Entries : Live(f) =>
           /\ entry'[f].path = entry[f].path /\ entry'[f].inode = entry[f].inode
           /\ entry'[f].open = entry[f].open
  BY HitFacts
<1>3. \A u \in Threads : u # t => pc'[u] = pc[u] /\ ent'[u] = ent[u]
  BY <1>1 DEF Others
<1>4. \A e \in ToSet(handles) : e \in Entries /\ Live(e) /\ (entry[e].path = entry[x].path => e = x)
  <2>1. \A e, f \in ToSet(handles) : PathOf[e] = PathOf[f] => e = f
    BY KeyedFacts DEF PoolInv, Keys, Shape
  <2>2. \A e \in ToSet(handles) : e \in Entries /\ Live(e)
    BY DEF PoolInv, Reached, Shape, ToSet
  <2> QED
    BY <1>1, <2>1, <2>2 DEF PathOf
<1>5. Attempts' /\ WriterAlone'
  BY <1>1, CallsKept DEF FileInv
<1>6. WriterCache'
  <2>1. ASSUME NEW w \in Threads, pc'[w] # "idle", op[w].kind = "write",
               op[w].path \notin mixed,
               NEW e \in ToSet(handles), entry'[e].path = op[w].path
        PROVE  pc'[w] = "get" \/ (pc'[w] \in {"io", "drop", "release"} /\ ent'[w] = e)
    <3>1. e \in Entries /\ Live(e) /\ entry[e].path = op[w].path
      BY <1>2, <1>4, <2>1
    <3>2. CASE w = t
      BY <1>1, <1>4, <3>1, <3>2
    <3>3. CASE w # t
      BY <1>3, <2>1, <3>1, <3>3 DEF FileInv, WriterCache, Writing
    <3> QED
      BY <3>2, <3>3
  <2> QED
    BY <1>1, <2>1 DEF WriterCache, Writing
<1>7. Owners' /\ Unused' /\ NamedEntries' /\ \A q \in Paths : Good(q)' => Good(q)
  BY <1>1, <1>2, SameFiles
<1>8. Failures'
  <2>1. \A u \in Threads, q \in Paths : Again(u, q)' <=> Again(u, q)
    BY <1>1, <1>3 DEF Again
  <2>2. \A e \in Entries : Live(e) => (Bad(e)' => Bad(e))
    BY <1>1, <1>2, <1>3 DEF Bad
  <2>3. ASSUME NEW q \in Paths, Good(q)
        PROVE  /\ \A u \in Threads : Again(u, q)' => faults >= 1
               /\ \A e \in Entries : Live(e)' /\ entry'[e].path = q /\ Bad(e)' => faults >= 1
               /\ \A u \in Threads, e \in ToSet(handles) :
                    Again(u, q)' /\ entry'[e].path = q /\ Bad(e)' => faults >= 2
               /\ \A u \in Threads : Again(u, q)' /\ Doomed(u)' => faults >= 2
    <3>1. /\ \A u \in Threads : Again(u, q) => faults >= 1
          /\ \A e \in Entries : Live(e) /\ entry[e].path = q /\ Bad(e) => faults >= 1
          /\ \A u \in Threads, e \in ToSet(handles) :
               Again(u, q) /\ entry[e].path = q /\ Bad(e) => faults >= 2
          /\ \A u \in Threads : Again(u, q) /\ Doomed(u) => faults >= 2
      BY <2>3 DEF FileInv, Failures
    <3>2. ASSUME NEW u \in Threads, Again(u, q)', Doomed(u)'
          PROVE  faults >= 2
      <4>1. CASE u = t
        <5>1. Bad(x)' /\ entry[x].path = q
          BY <1>1, <2>1, <3>2, <4>1 DEF Doomed, Again, Using
        <5> QED
          BY <1>1, <1>4, <2>1, <2>2, <3>1, <3>2, <5>1
      <4>2. CASE u # t
        <5>1. Using(u) => ent[u] \in Entries /\ Live(ent[u])
          BY DEF PoolInv, Shape, Locals
        <5>2. Doomed(u)
          BY <1>3, <2>2, <3>2, <4>2, <5>1 DEF Doomed, Using
        <5> QED
          BY <2>1, <3>1, <3>2, <5>2
      <4> QED
        BY <4>1, <4>2
    <3> QED
      BY <1>2, <1>4, <2>1, <2>2, <3>1, <3>2
  <2> QED
    BY <1>1, <1>7, <2>3 DEF Failures
<1> QED
  BY <1>5, <1>6, <1>7, <1>8 DEF FileInv

\* A miss.
LEMMA CacheMissFile ==
  ASSUME PoolInv, PoolInv', FileInv, NEW t \in Threads, CacheMiss(t), mixed' = mixed
  PROVE  FileInv'
<1>1. /\ Others(t) /\ pc[t] = "get" /\ pc'[t] = "open" /\ op' = op /\ ent' = ent
      /\ handles' = handles /\ entry' = entry /\ disk' = disk /\ content' = content
      /\ faults' = faults
  BY PassFacts DEF CacheMiss, fsVars, PCs
<1>2. \A e \in ToSet(handles) : entry[e].path # op[t].path
  BY DEF CacheMiss, Cached
<1>3. \A u \in Threads : u # t => pc'[u] = pc[u]
  BY <1>1 DEF Others
<1>4. Attempts' /\ WriterAlone'
  BY <1>1, CallsKept DEF FileInv
<1>5. WriterCache'
  BY <1>1, <1>2, <1>3 DEF FileInv, WriterCache, Writing
<1>6. Owners' /\ Unused' /\ NamedEntries' /\ \A q \in Paths : Good(q)' => Good(q)
  BY <1>1, SameFiles DEF Live
<1>7. Failures'
  <2>1. \A u \in Threads, q \in Paths : Again(u, q)' => Again(u, q)
    BY <1>1, <1>3 DEF Again
  <2>2. \A e \in Entries : Bad(e)' => Bad(e)
    BY <1>1, <1>3 DEF Bad
  <2>3. \A u \in Threads : Doomed(u)' => Doomed(u)
    BY <1>1, <1>3 DEF Doomed, Using, Bad
  <2>4. faults' >= faults
    BY <1>1, PoolAssumption DEF PoolInv, Shape
  <2> QED
    BY <1>1, <1>6, <2>1, <2>2, <2>3, <2>4, FailuresKept DEF Live, FileInv
<1> QED
  BY <1>4, <1>5, <1>6, <1>7 DEF FileInv

\* The file an open finds or makes.
LEMMA OpenedFacts ==
  ASSUME PoolInv, FileInv, NEW t \in Threads, pc[t] = "open", NEW p \in Paths, NEW n, n = Opened(p)
  PROVE  /\ n \in Inodes /\ n # None /\ (disk[p] # None => n = disk[p])
         /\ disk[p] = None => /\ \A q \in Paths : disk[q] # n
                              /\ \A e \in Entries : Live(e) => entry[e].inode # n
                              /\ content[n] = "empty"
<1>1. ent[t] = None
  BY DEF PoolInv, Locals, Using
<1>2. /\ n \in Inodes /\ (disk[p] # None => n = disk[p])
      /\ disk[p] = None => /\ \A q \in Paths : disk[q] # n
                           /\ \A e \in Entries : Live(e) => entry[e].inode # n
  BY <1>1, FreeInode DEF PoolInv
<1>3. disk[p] = None => content[n] = "empty"
  BY <1>2 DEF FileInv, Unused
<1> QED
  BY <1>2, <1>3, NoneApart

\* A new handle is on the file that its path names.
LEMMA OpenHandleFile ==
  ASSUME PoolInv, PoolInv', FileInv, NEW t \in Threads, OpenHandle(t), mixed' = mixed
  PROVE  FileInv'
<1> PICK p : p = op[t].path
  OBVIOUS
<1> PICK e : e = ent'[t]
  OBVIOUS
<1> PICK n : n = Opened(p)
  OBVIOUS
<1>1. /\ Others(t) /\ pc[t] = "open" /\ pc'[t] = "insert" /\ op' = op /\ p \in Paths
      /\ e \in Entries /\ ~Live(e) /\ \A u \in Threads : ent[u] # e
      /\ handles' = handles /\ content' = content /\ faults' = faults
      /\ entry'[e] # None /\ entry'[e].path = p /\ entry'[e].inode = n /\ entry'[e].open
      /\ \A f \in Entries : f # e => entry'[f] = entry[f]
      /\ disk'[p] = n /\ \A q \in Paths : q # p => disk'[q] = disk[q]
  BY OpenFacts
<1>2. /\ n \in Inodes /\ n # None /\ (disk[p] # None => n = disk[p])
      /\ disk[p] = None => /\ \A q \in Paths : disk[q] # n
                           /\ \A f \in Entries : Live(f) => entry[f].inode # n
                           /\ content[n] = "empty"
  BY <1>1, OpenedFacts
<1>3. \A u \in Threads : u # t => pc'[u] = pc[u] /\ ent'[u] = ent[u]
  BY <1>1 DEF Others
<1>4. \A f \in ToSet(handles) : f \in Entries /\ Live(f) /\ f # e
  BY <1>1 DEF PoolInv, Reached, Shape, ToSet
<1>5. /\ \A f \in Entries : Live(f) => f # e
      /\ \A f \in Entries : Live(f)' => f = e \/ (Live(f) /\ f # e)
  BY <1>1 DEF Live
<1>6. Attempts' /\ WriterAlone'
  BY <1>1, CallsKept DEF FileInv
<1>7. WriterCache'
  <2>1. ASSUME NEW w \in Threads, pc'[w] # "idle", op[w].kind = "write",
               op[w].path \notin mixed,
               NEW f \in ToSet(handles), entry'[f].path = op[w].path
        PROVE  pc'[w] = "get" \/ (pc'[w] \in {"io", "drop", "release"} /\ ent'[w] = f)
    <3>1. entry[f].path = op[w].path
      BY <1>1, <1>4, <2>1
    <3>2. CASE w = t
      BY <1>1, <2>1, <3>1, <3>2 DEF FileInv, WriterCache, Writing
    <3>3. CASE w # t
      BY <1>3, <2>1, <3>1, <3>3 DEF FileInv, WriterCache, Writing
    <3> QED
      BY <3>2, <3>3
  <2> QED
    BY <1>1, <2>1 DEF WriterCache, Writing
<1>8. Owners'
  <2>1. \A q, r \in Paths : disk'[q] = disk'[r] /\ disk'[q] # None => q = r
    BY <1>1, <1>2 DEF FileInv, Owners
  <2>2. ASSUME NEW q \in Paths, NEW f \in Entries, Live(f)', disk'[q] = entry'[f].inode
        PROVE  entry'[f].path = q
    <3>1. CASE f = e
      BY <1>1, <1>2, <2>2, <3>1 DEF FileInv, Owners
    <3>2. CASE f # e
      <4>1. Live(f) /\ entry'[f] = entry[f]
        BY <1>1, <1>5, <2>2, <3>2
      <4>2. disk'[q] = disk[q]
        BY <1>1, <1>2, <2>2, <4>1
      <4> QED
        BY <2>2, <4>1, <4>2 DEF FileInv, Owners
    <3> QED
      BY <3>1, <3>2
  <2>3. ASSUME NEW f \in Entries, Live(f), f # e, entry[f].inode = n
        PROVE  entry[f].path = p
    BY <1>1, <1>2, <2>3 DEF FileInv, Owners
  <2>4. \A f, g \in Entries : Live(f)' /\ Live(g)' /\ entry'[f].inode = entry'[g].inode
          => entry'[f].path = entry'[g].path
    <3>1. ASSUME NEW f \in Entries, NEW g \in Entries, Live(f)', Live(g)',
                 entry'[f].inode = entry'[g].inode
          PROVE  entry'[f].path = entry'[g].path
      <4>1. CASE f = e \/ g = e
        BY <1>1, <1>5, <2>3, <3>1, <4>1
      <4>2. CASE f # e /\ g # e
        BY <1>1, <1>5, <3>1, <4>2 DEF FileInv, Owners
      <4> QED
        BY <4>1, <4>2
    <3> QED
      BY <3>1
  <2> QED
    BY <2>1, <2>2, <2>4 DEF Owners
<1>9. Unused'
  <2>1. ASSUME NEW m \in Inodes, content[m] # "empty"
        PROVE  \/ \E q \in Paths : disk'[q] = m
               \/ \E f \in Entries : Live(f)' /\ entry'[f].inode = m
    <3>1. CASE \E q \in Paths : disk[q] = m
      <4>1. PICK q \in Paths : disk[q] = m
        BY <3>1
      <4>2. m # None
        BY NoneApart
      <4>3. disk'[q] = m
        BY <1>1, <1>2, <4>1, <4>2
      <4> QED
        BY <4>3
    <3>2. CASE \E f \in Entries : Live(f) /\ entry[f].inode = m
      <4>1. PICK f \in Entries : Live(f) /\ entry[f].inode = m
        BY <3>2
      <4>2. Live(f)' /\ entry'[f].inode = m
        BY <1>1, <1>5, <4>1 DEF Live
      <4> QED
        BY <4>2
    <3> QED
      BY <2>1, <3>1, <3>2 DEF FileInv, Unused
  <2> QED
    BY <1>1, <2>1 DEF Unused
<1>10. NamedEntries'
  <2>1. ASSUME NEW q \in Paths \ mixed, disk'[q] # None, content[disk'[q]] # "empty",
               NEW f \in Entries, Live(f)', entry'[f].path = q
        PROVE  entry'[f].inode = disk'[q]
    <3>1. disk'[q] = disk[q] /\ disk[q] # None
      BY <1>1, <1>2, <2>1
    <3>2. CASE f = e
      BY <1>1, <2>1, <3>1, <3>2
    <3>3. CASE f # e
      BY <1>1, <1>5, <2>1, <3>1, <3>3 DEF FileInv, NamedEntries
    <3> QED
      BY <3>2, <3>3
  <2> QED
    BY <1>1, <2>1 DEF NamedEntries
<1>11. \A q \in Paths : Good(q)' => Good(q)
  BY <1>1, <1>2 DEF Good
<1>12. Failures'
  <2>1. \A u \in Threads, q \in Paths : Again(u, q)' <=> Again(u, q)
    BY <1>1, <1>3 DEF Again
  <2>2. ~Bad(e)'
    BY <1>1, <1>3 DEF Bad
  <2>3. \A f \in Entries : Live(f) => (Bad(f)' => Bad(f))
    BY <1>1, <1>3, <1>5 DEF Bad
  <2>4. ASSUME NEW q \in Paths, Good(q)
        PROVE  /\ \A u \in Threads : Again(u, q)' => faults >= 1
               /\ \A f \in Entries : Live(f)' /\ entry'[f].path = q /\ Bad(f)' => faults >= 1
               /\ \A u \in Threads, f \in ToSet(handles) :
                    Again(u, q)' /\ entry'[f].path = q /\ Bad(f)' => faults >= 2
               /\ \A u \in Threads : Again(u, q)' /\ Doomed(u)' => faults >= 2
    <3>1. /\ \A u \in Threads : Again(u, q) => faults >= 1
          /\ \A f \in Entries : Live(f) /\ entry[f].path = q /\ Bad(f) => faults >= 1
          /\ \A u \in Threads, f \in ToSet(handles) :
               Again(u, q) /\ entry[f].path = q /\ Bad(f) => faults >= 2
          /\ \A u \in Threads : Again(u, q) /\ Doomed(u) => faults >= 2
      BY <2>4 DEF FileInv, Failures
    <3>2. ASSUME NEW u \in Threads, Doomed(u)'
          PROVE  Doomed(u)
      <4>1. CASE u = t
        BY <1>1, <2>2, <3>2, <4>1 DEF Doomed
      <4>2. CASE u # t
        <5>1. Using(u) => ent[u] \in Entries /\ Live(ent[u])
          BY DEF PoolInv, Shape, Locals
        <5> QED
          BY <1>3, <2>3, <3>2, <4>2, <5>1 DEF Doomed, Using
      <4> QED
        BY <4>1, <4>2
    <3> QED
      BY <1>1, <1>4, <1>5, <2>1, <2>2, <2>3, <3>1, <3>2
  <2> QED
    BY <1>1, <1>11, <2>4 DEF Failures
<1> QED
  BY <1>6, <1>7, <1>8, <1>9, <1>10, <1>12 DEF FileInv

\* A failed open: the attempt that is made again, or the unlink, costs a failure.
LEMMA OpenFailsFile ==
  ASSUME PoolInv, PoolInv', FileInv, NEW t \in Threads, OpenFails(t), mixed' = mixed
  PROVE  FileInv'
<1> PICK p : p = op[t].path
  OBVIOUS
<1> PICK n : n = Opened(p)
  OBVIOUS
<1>1. /\ Others(t) /\ pc[t] = "open" /\ pc'[t] \in {"get", "unlink"} /\ p \in Paths
      /\ op[t] # None /\ op'[t] # None /\ op'[t].path = p /\ op'[t].kind = op[t].kind
      /\ pc'[t] = "get" => op[t].kind = "read" /\ op[t].attempt = 0 /\ op'[t].attempt = 1
      /\ pc'[t] = "unlink" => op'[t] = op[t] /\ (op[t].kind = "read" => op[t].attempt = 1)
      /\ ent[t] = None /\ ent' = ent /\ handles' = handles /\ entry' = entry /\ content' = content
      /\ faults' = faults + 1
      /\ disk'[p] = disk[p] \/ disk'[p] = n
      /\ \A q \in Paths : q # p => disk'[q] = disk[q]
  BY OpenFailsFacts
<1>2. /\ n \in Inodes /\ n # None /\ (disk[p] # None => n = disk[p])
      /\ disk[p] = None => /\ \A q \in Paths : disk[q] # n
                           /\ \A f \in Entries : Live(f) => entry[f].inode # n
                           /\ content[n] = "empty"
  BY <1>1, OpenedFacts
<1>3. \A u \in Threads : u # t => pc'[u] = pc[u] /\ op'[u] = op[u]
  BY <1>1 DEF Others
<1>4. \A f \in ToSet(handles) : f \in Entries /\ Live(f)
  BY DEF PoolInv, Reached, Shape, ToSet
<1>5. Attempts' /\ WriterAlone'
  BY <1>1, CallsKept DEF FileInv, Attempts
<1>6. WriterCache'
  <2>1. ASSUME NEW w \in Threads, pc'[w] # "idle", op'[w].kind = "write",
               op'[w].path \notin mixed,
               NEW f \in ToSet(handles), entry[f].path = op'[w].path
        PROVE  pc'[w] = "get" \/ (pc'[w] \in {"io", "drop", "release"} /\ ent'[w] = f)
    <3>1. CASE w = t
      BY <1>1, <2>1, <3>1 DEF FileInv, WriterCache, Writing
    <3>2. CASE w # t
      BY <1>1, <1>3, <2>1, <3>2 DEF FileInv, WriterCache, Writing
    <3> QED
      BY <3>1, <3>2
  <2> QED
    BY <1>1, <2>1 DEF WriterCache, Writing
<1>7. Owners'
  <2>1. \A q, r \in Paths : disk'[q] = disk'[r] /\ disk'[q] # None => q = r
    BY <1>1, <1>2 DEF FileInv, Owners
  <2>2. ASSUME NEW q \in Paths, NEW f \in Entries, Live(f), disk'[q] = entry[f].inode
        PROVE  entry[f].path = q
    <3>1. disk'[q] = disk[q]
      BY <1>1, <1>2, <2>2
    <3> QED
      BY <2>2, <3>1 DEF FileInv, Owners
  <2> QED
    BY <1>1, <2>1, <2>2 DEF FileInv, Owners, Live
<1>8. Unused'
  <2>1. ASSUME NEW m \in Inodes, NEW q \in Paths, disk[q] = m
        PROVE  disk'[q] = m
    BY <1>1, <1>2, <2>1, NoneApart
  <2> QED
    BY <1>1, <2>1 DEF FileInv, Unused, Live
<1>9. \A q \in Paths : disk'[q] # None /\ content[disk'[q]] # "empty" => disk'[q] = disk[q]
  BY <1>1, <1>2
<1>10. NamedEntries'
  BY <1>1, <1>9 DEF FileInv, NamedEntries, Live
<1>11. \A q \in Paths : Good(q)' => Good(q)
  BY <1>1, <1>9 DEF Good
<1>12. Failures'
  <2>1. \A u \in Threads, q \in Paths : u # t => (Again(u, q)' <=> Again(u, q))
    BY <1>1, <1>3 DEF Again
  <2>2. \A f \in Entries : Bad(f)' => Bad(f)
    <3>1. \A u \in Threads : pc'[u] = "drop" => pc[u] = "drop"
      BY <1>1, <1>3
    <3> QED
      BY <1>1, <3>1 DEF Bad
  <2>3. faults \in Nat
    BY DEF PoolInv, Shape
  <2>4. ASSUME NEW q \in Paths, Good(q)
        PROVE  /\ \A u \in Threads : Again(u, q)' => faults' >= 1
               /\ \A f \in Entries : Live(f) /\ entry[f].path = q /\ Bad(f)' => faults' >= 1
               /\ \A u \in Threads, f \in ToSet(handles) :
                    Again(u, q)' /\ entry[f].path = q /\ Bad(f)' => faults' >= 2
               /\ \A u \in Threads : Again(u, q)' /\ Doomed(u)' => faults' >= 2
    <3>1. /\ \A u \in Threads : Again(u, q) => faults >= 1
          /\ \A f \in Entries : Live(f) /\ entry[f].path = q /\ Bad(f) => faults >= 1
          /\ \A u \in Threads : Again(u, q) /\ Doomed(u) => faults >= 2
      BY <2>4 DEF FileInv, Failures
    <3>2. ASSUME NEW u \in Threads, Again(u, q)', Doomed(u)'
          PROVE  faults' >= 2
      <4>1. CASE u = t
        <5>1. pc'[t] = "unlink" /\ op'[t] = op[t]
          BY <1>1, <3>2, <4>1 DEF Doomed, Using
        <5>2. Again(t, q)
          BY <1>1, <3>2, <4>1, <5>1 DEF Again
        <5> QED
          BY <1>1, <2>3, <3>1, <5>2
      <4>2. CASE u # t
        <5>1. Using(u) => ent[u] \in Entries
          BY DEF PoolInv, Shape, Locals
        <5>2. Doomed(u)
          BY <1>1, <1>3, <2>2, <3>2, <4>2, <5>1 DEF Doomed, Using
        <5> QED
          BY <1>1, <2>1, <2>3, <3>1, <3>2, <4>2, <5>2
      <4> QED
        BY <4>1, <4>2
    <3> QED
      BY <1>1, <1>4, <2>2, <2>3, <3>1, <3>2
  <2> QED
    BY <1>1, <1>11, <2>4 DEF Failures, Live
<1> QED
  BY <1>5, <1>6, <1>7, <1>8, <1>10, <1>12 DEF FileInv

\* An insertion: the new entry is open and nobody has failed on it.
LEMMA InsertHandleFile ==
  ASSUME PoolInv, PoolInv', FileInv, NEW t \in Threads, InsertHandle(t), mixed' = mixed
  PROVE  FileInv'
<1> PICK e : e = ent[t]
  OBVIOUS
<1>1. /\ Shrinks /\ Unused' /\ Others(t) /\ pc[t] = "insert" /\ pc'[t] = "io"
      /\ op' = op /\ ent' = ent /\ faults' = faults /\ disk' = disk
      /\ \A f \in ToSet(handles') : f = e \/ f \in ToSet(handles)
  BY InsertFiles
<1>2. \A f \in Entries : Live(f)' => entry'[f] = entry[f] /\ Live(f)
  BY InsertFiles DEF Live
<1>3. \A u \in Threads : u # t => pc'[u] = pc[u]
  BY <1>1 DEF Others
<1>4. /\ e \in Entries /\ Live(e) /\ entry[e].open /\ entry[e].path = op[t].path
      /\ \A u \in Threads : ent[u] = e => u = t
  BY <1>1 DEF PoolInv, Shape, Locals, Fresh, IsOpen, Using
<1>5. \A f \in ToSet(handles') : f \in Entries /\ Live(f)' /\ entry'[f] = entry[f] /\ Live(f)
  BY <1>2 DEF PoolInv, Reached, Shape, ToSet
<1>6. Attempts' /\ WriterAlone'
  BY <1>1, CallsKept DEF FileInv
<1>7. WriterCache'
  <2>1. ASSUME NEW w \in Threads, pc'[w] # "idle", op[w].kind = "write",
               op[w].path \notin mixed,
               NEW f \in ToSet(handles'), entry'[f].path = op[w].path
        PROVE  pc'[w] = "get" \/ (pc'[w] \in {"io", "drop", "release"} /\ ent[w] = f)
    <3>1. entry[f].path = op[w].path
      BY <1>5, <2>1
    <3>2. CASE w = t
      BY <1>1, <2>1, <3>1, <3>2 DEF FileInv, WriterCache, Writing
    <3>3. CASE w # t
      <4>1. Writing(w) /\ pc'[w] = pc[w]
        BY <1>3, <2>1, <3>3 DEF Writing
      <4>2. f # e
        BY <1>1, <1>4, <3>1, <3>3, <4>1 DEF FileInv, WriterAlone
      <4> QED
        BY <1>1, <2>1, <3>1, <4>1, <4>2 DEF FileInv, WriterCache
    <3> QED
      BY <3>2, <3>3
  <2> QED
    BY <1>1, <2>1 DEF WriterCache, Writing
<1>8. Owners' /\ NamedEntries' /\ \A q \in Paths : Good(q)' => Good(q)
  BY <1>1, ShrinkKept DEF FileInv
<1>9. Failures'
  <2>1. \A u \in Threads, q \in Paths : Again(u, q)' <=> Again(u, q)
    BY <1>1, <1>3 DEF Again
  <2>2. \A f \in Entries : Live(f)' => (Bad(f)' => Bad(f))
    BY <1>1, <1>2, <1>3 DEF Bad
  <2>3. ~Bad(e)'
    <3>1. Live(e)'
      BY <1>1, <1>4 DEF PoolInv, Locals, Using
    <3>2. entry'[e].open
      BY <1>2, <1>4, <3>1
    <3>3. \A u \in Threads : ent'[u] = e => pc'[u] # "drop"
      BY <1>1, <1>4
    <3> QED
      BY <3>2, <3>3 DEF Bad
  <2>4. ASSUME NEW q \in Paths, Good(q)
        PROVE  /\ \A u \in Threads : Again(u, q)' => faults >= 1
               /\ \A f \in Entries : Live(f)' /\ entry'[f].path = q /\ Bad(f)' => faults >= 1
               /\ \A u \in Threads, f \in ToSet(handles') :
                    Again(u, q)' /\ entry'[f].path = q /\ Bad(f)' => faults >= 2
               /\ \A u \in Threads : Again(u, q)' /\ Doomed(u)' => faults >= 2
    <3>1. /\ \A u \in Threads : Again(u, q) => faults >= 1
          /\ \A f \in Entries : Live(f) /\ entry[f].path = q /\ Bad(f) => faults >= 1
          /\ \A u \in Threads, f \in ToSet(handles) :
               Again(u, q) /\ entry[f].path = q /\ Bad(f) => faults >= 2
          /\ \A u \in Threads : Again(u, q) /\ Doomed(u) => faults >= 2
      BY <2>4 DEF FileInv, Failures
    <3>2. ASSUME NEW u \in Threads, Doomed(u)'
          PROVE  Doomed(u)
      <4>1. CASE u = t
        BY <1>1, <2>3, <3>2, <4>1 DEF Doomed
      <4>2. CASE u # t
        <5>1. Using(u)' => ent[u] \in Entries /\ Live(ent[u])'
          BY <1>1 DEF PoolInv, Shape, Locals
        <5> QED
          BY <1>1, <1>3, <2>2, <3>2, <4>2, <5>1 DEF Doomed, Using
      <4> QED
        BY <4>1, <4>2
    <3>3. \A f \in ToSet(handles') : Bad(f)' => f \in ToSet(handles) /\ Bad(f) /\ entry'[f] = entry[f]
      BY <1>1, <1>5, <2>2, <2>3
    <3> QED
      BY <1>2, <2>1, <2>2, <3>1, <3>2, <3>3
  <2> QED
    BY <1>1, <1>8, <2>4 DEF Failures
<1> QED
  BY <1>1, <1>6, <1>7, <1>8, <1>9 DEF FileInv

\* An entry's file is named by no other path than its own.
LEMMA OwnPath ==
  ASSUME FileInv, NEW e \in Entries, Live(e), NEW p \in Paths, disk[p] = entry[e].inode
  PROVE  entry[e].path = p
BY DEF FileInv, Owners

\* IO of a whole chunk: what a writer writes is open and has not failed.
LEMMA IoFullFile ==
  ASSUME PoolInv, PoolInv', FileInv, NEW t \in Threads, IoFull(t), mixed' = mixed
  PROVE  FileInv'
<1> PICK e : e = ent[t]
  OBVIOUS
<1> PICK n : n = entry[e].inode
  OBVIOUS
<1> PICK p : p = op[t].path
  OBVIOUS
<1>1. /\ Others(t) /\ pc[t] = "io" /\ pc'[t] = "release" /\ entry[e].open
      /\ op' = op /\ ent' = ent /\ handles' = handles /\ entry' = entry
      /\ disk' = disk /\ faults' = faults /\ n \in Inodes
      /\ \A m \in Inodes : m # n => content'[m] = content[m]
      /\ op[t].kind = "write" => content'[n] = "whole"
      /\ op[t].kind # "write" => content' = content
  BY IoFullFacts
<1>2. e \in Entries /\ Live(e) /\ entry[e].path = p
  BY <1>1 DEF PoolInv, Shape, Locals, Using
<1>3. \A u \in Threads : u # t => pc'[u] = pc[u]
  BY <1>1 DEF Others
<1>4. \A q \in Paths : disk[q] \in Inodes \cup {None}
  BY DEF PoolInv, Shape
<1>5. Attempts' /\ WriterAlone'
  BY <1>1, CallsKept DEF FileInv
<1>6. WriterCache'
  <2>1. \A w \in Threads : /\ Writing(w)' => Writing(w)
                           /\ pc[w] = "get" => pc'[w] = "get"
                           /\ pc[w] \in {"io", "drop", "release"} => pc'[w] \in {"io", "drop", "release"}
    BY <1>1, <1>3 DEF Writing
  <2> QED
    BY <1>1, <2>1 DEF FileInv, WriterCache
<1>7. Owners'
  BY <1>1 DEF FileInv, Owners, Live
<1>8. Unused'
  BY <1>1, <1>2 DEF FileInv, Unused, Live
<1>9. /\ \A u \in Threads, q \in Paths : Again(u, q)' => Again(u, q)
      /\ \A f \in Entries : Bad(f)' => Bad(f)
      /\ \A u \in Threads : Doomed(u)' => Doomed(u)
      /\ faults' >= faults
  <2>1. \A u \in Threads : /\ pc'[u] = "drop" => pc[u] = "drop"
                           /\ pc'[u] = "unlink" => pc[u] = "unlink"
                           /\ pc'[u] # "idle" <=> pc[u] # "idle"
                           /\ Using(u)' <=> Using(u)
    BY <1>1, <1>3 DEF Using
  <2>2. \A f \in Entries : Bad(f)' => Bad(f)
    BY <1>1, <2>1 DEF Bad
  <2>3. \A u \in Threads : Using(u) => ent[u] \in Entries
    BY DEF PoolInv, Shape, Locals
  <2> QED
    BY <1>1, <2>1, <2>2, <2>3, PoolAssumption DEF Again, Doomed, PoolInv, Shape
<1>10. CASE op[t].kind # "write"
  <2>1. Owners' /\ Unused' /\ NamedEntries' /\ \A q \in Paths : Good(q)' => Good(q)
    BY <1>1, <1>10, SameFiles DEF Live
  <2>2. Failures'
    BY <1>1, <1>9, <2>1, FailuresKept DEF Live, FileInv
  <2> QED
    BY <1>5, <1>6, <2>1, <2>2 DEF FileInv
<1>11. CASE op[t].kind = "write" /\ p \notin mixed
  <2>1. Writing(t) /\ Using(t)
    BY <1>1, <1>11 DEF Writing, Using
  <2>2. \A f \in Entries : Live(f) /\ entry[f].path = p => f = e
    BY <2>1, WriterEntry
  <2>3. \A u \in Threads : pc[u] # "idle" /\ op[u].path = p => u = t
    BY <2>1 DEF FileInv, WriterAlone
  <2>4. \A q \in Paths : disk[q] = n => q = p
    BY <1>2, OwnPath
  <2>5. NamedEntries'
    <3>1. ASSUME NEW q \in Paths \ mixed, disk[q] # None, content'[disk[q]] # "empty",
                 NEW f \in Entries, Live(f), entry[f].path = q
          PROVE  entry[f].inode = disk[q]
      <4>1. CASE disk[q] = n
        BY <2>2, <2>4, <3>1, <4>1
      <4>2. CASE disk[q] # n
        BY <1>1, <1>4, <3>1, <4>2 DEF FileInv, NamedEntries
      <4> QED
        BY <4>1, <4>2
    <3> QED
      BY <1>1, <3>1 DEF NamedEntries, Live
  <2>6. ASSUME NEW q \in Paths, Good(q)'
        PROVE  q = p \/ Good(q)
    BY <1>1, <1>4, <2>4, <2>6 DEF Good
  <2>7. /\ \A u \in Threads : ~Again(u, p)
        /\ ~Bad(e)'
    <3>1. \A u \in Threads : ~Again(u, p)
      BY <1>11, <2>3 DEF Again, FileInv, Attempts
    <3>2. \A u \in Threads : ent[u] = e => u = t
      BY <1>2, <2>3, NoneApart DEF PoolInv, Locals, Using
    <3>3. ~Bad(e)'
      BY <1>1, <3>2 DEF Bad
    <3> QED
      BY <3>1, <3>3
  <2>8. Failures'
    <3>1. ASSUME NEW q \in Paths, Good(q)'
          PROVE  /\ \A u \in Threads : Again(u, q)' => faults' >= 1
                 /\ \A f \in Entries : Live(f)' /\ entry'[f].path = q /\ Bad(f)' => faults' >= 1
                 /\ \A u \in Threads, f \in ToSet(handles') :
                      Again(u, q)' /\ entry'[f].path = q /\ Bad(f)' => faults' >= 2
                 /\ \A u \in Threads : Again(u, q)' /\ Doomed(u)' => faults' >= 2
      <4>1. CASE q = p
        BY <1>1, <1>9, <2>2, <2>7, <4>1 DEF Live
      <4>2. CASE q # p
        <5>1. /\ \A u \in Threads : Again(u, q) => faults >= 1
              /\ \A f \in Entries : Live(f) /\ entry[f].path = q /\ Bad(f) => faults >= 1
              /\ \A u \in Threads, f \in ToSet(handles) :
                   Again(u, q) /\ entry[f].path = q /\ Bad(f) => faults >= 2
              /\ \A u \in Threads : Again(u, q) /\ Doomed(u) => faults >= 2
          BY <2>6, <3>1, <4>2 DEF FileInv, Failures
        <5>2. \A f \in ToSet(handles) : f \in Entries
          BY DEF PoolInv, Shape, ToSet
        <5> QED
          BY <1>1, <1>9, <5>1, <5>2 DEF Live
      <4> QED
        BY <4>1, <4>2
    <3> QED
      BY <3>1 DEF Failures
  <2> QED
    BY <1>5, <1>6, <1>7, <1>8, <2>5, <2>8 DEF FileInv
<1>12. CASE p \in mixed
  <2>1. \A q \in Paths \ mixed : disk[q] # None => content'[disk[q]] = content[disk[q]]
    <3>1. \A q \in Paths : disk[q] = n => q = p
      BY <1>2, OwnPath
    <3> QED
      BY <1>1, <1>4, <1>12, <3>1
  <2>2. NamedEntries' /\ \A q \in Paths : Good(q)' => Good(q)
    BY <1>1, <2>1 DEF FileInv, NamedEntries, Good, Live
  <2>3. Failures'
    BY <1>1, <1>9, <2>2, FailuresKept DEF Live, FileInv
  <2> QED
    BY <1>5, <1>6, <1>7, <1>8, <2>2, <2>3 DEF FileInv
<1> QED
  BY <1>10, <1>11, <1>12

\* IO that comes up short on a good file has met a failure, now or before.
LEMMA IoShortFile ==
  ASSUME PoolInv, PoolInv', FileInv, NEW t \in Threads, IoShort(t), mixed' = mixed
  PROVE  FileInv'
<1> PICK e : e = ent[t]
  OBVIOUS
<1> PICK n : n = entry[e].inode
  OBVIOUS
<1> PICK p : p = op[t].path
  OBVIOUS
<1>1. /\ Others(t) /\ pc[t] = "io" /\ pc'[t] = "drop"
      /\ op' = op /\ ent' = ent /\ handles' = handles /\ entry' = entry
      /\ disk' = disk /\ n \in Inodes
      /\ \A m \in Inodes : m # n => content'[m] = content[m]
      /\ \/ ~entry[e].open /\ content' = content /\ faults' = faults
         \/ op[t].kind = "read" /\ content[n] # "whole" /\ content' = content /\ faults' = faults
         \/ /\ entry[e].open /\ faults' = faults + 1
            /\ \/ content' = content
               \/ op[t].kind = "write" /\ content[n] = "empty" /\ content'[n] = "partial"
  BY IoShortFacts
<1>2. e \in Entries /\ Live(e) /\ entry[e].path = p /\ p \in Paths
  BY <1>1 DEF PoolInv, Shape, Locals, Using, Live, Entry
<1>3. \A u \in Threads : u # t => pc'[u] = pc[u]
  BY <1>1 DEF Others
<1>4. (\A q \in Paths : disk[q] \in Inodes \cup {None}) /\ faults \in Nat
  BY DEF PoolInv, Shape
<1>5. Attempts' /\ WriterAlone'
  BY <1>1, CallsKept DEF FileInv
<1>6. WriterCache'
  <2>1. \A w \in Threads : /\ Writing(w)' => Writing(w)
                           /\ pc[w] = "get" => pc'[w] = "get"
                           /\ pc[w] \in {"io", "drop", "release"} => pc'[w] \in {"io", "drop", "release"}
    BY <1>1, <1>3 DEF Writing
  <2> QED
    BY <1>1, <2>1 DEF FileInv, WriterCache
<1>7. Owners'
  BY <1>1 DEF FileInv, Owners, Live
<1>8. Unused'
  BY <1>1, <1>2 DEF FileInv, Unused, Live
<1>9. ASSUME NEW q \in Paths, disk[q] = n
      PROVE  q = p
  BY <1>2, <1>9, OwnPath
<1>10. NamedEntries'
  <2>1. CASE content' = content
    BY <1>1, <2>1 DEF FileInv, NamedEntries, Live
  <2>2. CASE content' # content /\ p \notin mixed
    <3>1. Writing(t) /\ Using(t)
      BY <1>1, <2>2 DEF Writing, Using
    <3>2. \A f \in Entries : Live(f) /\ entry[f].path = p => f = e
      BY <3>1, WriterEntry
    <3>3. ASSUME NEW q \in Paths \ mixed, disk[q] # None, content'[disk[q]] # "empty",
                 NEW f \in Entries, Live(f), entry[f].path = q
          PROVE  entry[f].inode = disk[q]
      <4>1. CASE disk[q] = n
        BY <1>9, <3>2, <3>3, <4>1
      <4>2. CASE disk[q] # n
        BY <1>1, <1>4, <3>3, <4>2 DEF FileInv, NamedEntries
      <4> QED
        BY <4>1, <4>2
    <3> QED
      BY <1>1, <3>3 DEF NamedEntries, Live
  <2>3. CASE p \in mixed
    <3>1. \A q \in Paths \ mixed : disk[q] # None => content'[disk[q]] = content[disk[q]]
      BY <1>1, <1>4, <1>9, <2>3
    <3> QED
      BY <1>1, <3>1 DEF FileInv, NamedEntries, Live
  <2> QED
    BY <2>1, <2>2, <2>3
<1>11. \A q \in Paths : Good(q)' => Good(q)
  BY <1>1, <1>4 DEF Good
<1>12. Good(p) => n = disk[p] /\ content[n] = "whole"
  BY <1>2 DEF Good, FileInv, NamedEntries
<1>13. Good(p)' => ~entry[e].open \/ faults' = faults + 1
  BY <1>1, <1>2, <1>11, <1>12
<1>14. Failures'
  <2>1. \A u \in Threads, q \in Paths : Again(u, q)' <=> Again(u, q)
    BY <1>1, <1>3 DEF Again
  <2>2. \A f \in Entries : Bad(f)' => Bad(f) \/ f = e
    BY <1>1, <1>3 DEF Bad
  <2>3. ASSUME NEW u \in Threads, Doomed(u)'
        PROVE  Doomed(u) \/ (Using(u) /\ ent[u] = e)
    <3>1. (Using(u)' <=> Using(u)) /\ (pc'[u] = "unlink" => pc[u] = "unlink")
      BY <1>1, <1>3 DEF Using
    <3>2. Using(u) => ent[u] \in Entries
      BY DEF PoolInv, Shape, Locals
    <3> QED
      BY <1>1, <2>2, <2>3, <3>1, <3>2 DEF Doomed
  <2>4. \A u \in Threads : Using(u) /\ ent[u] = e => op[u].path = p
    BY <1>2 DEF PoolInv, Locals
  <2>5. \A f \in ToSet(handles) : f \in Entries /\ Live(f)
    BY DEF PoolInv, Shape, Reached, ToSet
  <2>6. ASSUME NEW q \in Paths, Good(q)'
        PROVE  /\ \A u \in Threads : Again(u, q)' => faults' >= 1
               /\ \A f \in Entries : Live(f)' /\ entry'[f].path = q /\ Bad(f)' => faults' >= 1
               /\ \A u \in Threads, f \in ToSet(handles') :
                    Again(u, q)' /\ entry'[f].path = q /\ Bad(f)' => faults' >= 2
               /\ \A u \in Threads : Again(u, q)' /\ Doomed(u)' => faults' >= 2
    <3>1. /\ \A u \in Threads : Again(u, q) => faults >= 1
          /\ \A f \in Entries : Live(f) /\ entry[f].path = q /\ Bad(f) => faults >= 1
          /\ \A u \in Threads, f \in ToSet(handles) :
               Again(u, q) /\ entry[f].path = q /\ Bad(f) => faults >= 2
          /\ \A u \in Threads : Again(u, q) /\ Doomed(u) => faults >= 2
      BY <1>11, <2>6 DEF FileInv, Failures
    <3>2. faults' >= faults
      BY <1>1, <1>4
    <3>3. CASE Bad(e) \/ q # p
      <4>1. \A f \in Entries : Live(f) /\ entry[f].path = q /\ Bad(f)' => Bad(f)
        BY <1>2, <2>2, <3>3
      <4>2. \A u \in Threads : Again(u, q) /\ Doomed(u)' => Doomed(u)
        BY <2>3, <2>4, <3>3 DEF Again, Doomed
      <4>3. /\ \A u \in Threads : Again(u, q)' => faults >= 1
            /\ \A f \in Entries : Live(f)' /\ entry'[f].path = q /\ Bad(f)' => faults >= 1
            /\ \A u \in Threads, f \in ToSet(handles') :
                 Again(u, q)' /\ entry'[f].path = q /\ Bad(f)' => faults >= 2
            /\ \A u \in Threads : Again(u, q)' /\ Doomed(u)' => faults >= 2
        BY <1>1, <2>1, <2>5, <3>1, <4>1, <4>2 DEF Live
      <4> QED
        BY <1>1, <1>4, <4>3
    <3>4. CASE ~Bad(e) /\ q = p
      <4>1. faults' = faults + 1
        BY <1>13, <2>6, <3>4 DEF Bad
      <4> QED
        BY <1>4, <2>1, <3>1, <4>1
    <3> QED
      BY <3>3, <3>4
  <2> QED
    BY <2>6 DEF Failures
<1> QED
  BY <1>5, <1>6, <1>7, <1>8, <1>10, <1>14 DEF FileInv

\* A release.
LEMMA ReleaseHandleFile ==
  ASSUME PoolInv, PoolInv', FileInv, NEW t \in Threads, ReleaseHandle(t), mixed' = mixed
  PROVE  FileInv'
<1>1. /\ Shrinks /\ Unused' /\ Others(t) /\ pc[t] = "release" /\ pc'[t] = "idle"
      /\ ent'[t] = None /\ handles' = handles /\ faults' = faults
      /\ \A f \in Entries : Live(f)' => entry'[f].open = entry[f].open
  BY ReleaseFiles
<1>2. \A u \in Threads : u # t => pc'[u] = pc[u] /\ op'[u] = op[u] /\ ent'[u] = ent[u]
  BY <1>1 DEF Others
<1>3. \A f \in Entries : Live(f)' => Live(f) /\ entry'[f].path = entry[f].path
  BY <1>1 DEF Shrinks
<1>4. \A f \in ToSet(handles') : f \in Entries /\ Live(f)'
  BY DEF PoolInv, Shape, Reached, ToSet
<1>5. Attempts' /\ WriterAlone'
  BY <1>1, CallsKept DEF FileInv
<1>6. WriterCache'
  BY <1>1, <1>2, <1>3, <1>4 DEF FileInv, WriterCache, Writing
<1>7. Owners' /\ NamedEntries' /\ \A q \in Paths : Good(q)' => Good(q)
  BY <1>1, ShrinkKept DEF FileInv
<1>8. Failures'
  <2>1. \A u \in Threads, q \in Paths : Again(u, q)' => Again(u, q)
    BY <1>1, <1>2 DEF Again
  <2>2. \A f \in Entries : Live(f)' /\ Bad(f)' => Bad(f)
    BY <1>1, <1>2 DEF Bad
  <2>3. ASSUME NEW u \in Threads, Doomed(u)'
        PROVE  Doomed(u)
    <3>1. u # t /\ (Using(u)' => ent[u] \in Entries /\ Live(ent[u])')
      BY <1>1, <1>2, <2>3 DEF Doomed, Using, PoolInv, Shape, Locals
    <3> QED
      BY <1>2, <2>2, <2>3, <3>1 DEF Doomed, Using
  <2>4. faults' >= faults
    BY <1>1, PoolAssumption DEF PoolInv, Shape
  <2> QED
    BY <1>1, <1>3, <1>7, <2>1, <2>2, <2>3, <2>4, FailuresKept DEF FileInv
<1> QED
  BY <1>1, <1>5, <1>6, <1>7, <1>8 DEF FileInv

\* A drop closes what has failed: other readers of the entry will fail on it,
\* but the failure they owe it to is counted.
LEMMA DropHandleFile ==
  ASSUME PoolInv, PoolInv', FileInv, NEW t \in Threads, DropHandle(t), mixed' = mixed
  PROVE  FileInv'
<1> PICK e : e = ent[t]
  OBVIOUS
<1> PICK p : p = op[t].path
  OBVIOUS
<1>1. /\ Shrinks /\ Unused' /\ Others(t) /\ pc[t] = "drop" /\ pc'[t] \in {"get", "unlink"}
      /\ op[t] # None /\ op'[t] # None /\ op'[t].path = p /\ op'[t].kind = op[t].kind
      /\ pc'[t] = "get" => op[t].kind = "read" /\ op[t].attempt = 0 /\ op'[t].attempt = 1
      /\ pc'[t] = "unlink" => op'[t] = op[t] /\ (op[t].kind = "read" => op[t].attempt = 1)
      /\ ent'[t] = None /\ faults' = faults /\ disk' = disk
  BY DropFiles
<1>2. /\ ToSet(handles') = {f \in ToSet(handles) : entry[f].path # p}
      /\ \A f \in Entries : Live(f)' /\ f # e => entry'[f] = entry[f]
  BY DropFiles
<1>3. \A u \in Threads : u # t => pc'[u] = pc[u] /\ op'[u] = op[u] /\ ent'[u] = ent[u]
  BY <1>1 DEF Others
<1>4. e \in Entries /\ Live(e) /\ entry[e].path = p
  BY <1>1 DEF PoolInv, Shape, Locals, Using
<1>5. \A f \in Entries : Live(f)' => Live(f) /\ entry'[f].path = entry[f].path
  BY <1>1 DEF Shrinks
<1>6. \A f \in ToSet(handles') : f \in Entries /\ Live(f)' /\ f # e /\ f \in ToSet(handles)
                                 /\ entry[f].path # p
  BY <1>2, <1>4 DEF PoolInv, Shape, Reached, ToSet
<1>7. Attempts' /\ WriterAlone'
  BY <1>1, CallsKept DEF FileInv, Attempts
<1>8. WriterCache'
  <2>1. ASSUME NEW w \in Threads, pc'[w] # "idle", op'[w].kind = "write",
               op'[w].path \notin mixed,
               NEW f \in ToSet(handles'), entry'[f].path = op'[w].path
        PROVE  pc'[w] = "get" \/ (pc'[w] \in {"io", "drop", "release"} /\ ent'[w] = f)
    <3>1. f \in ToSet(handles) /\ entry[f].path = op'[w].path /\ entry[f].path # p
      BY <1>5, <1>6, <2>1
    <3>2. w # t
      BY <1>1, <3>1
    <3> QED
      BY <1>3, <2>1, <3>1, <3>2 DEF FileInv, WriterCache, Writing
  <2> QED
    BY <2>1 DEF WriterCache, Writing
<1>9. Owners' /\ NamedEntries' /\ \A q \in Paths : Good(q)' => Good(q)
  BY <1>1, ShrinkKept DEF FileInv
<1>10. Failures'
  <2>1. Bad(e) /\ Using(t)
    BY <1>1 DEF Bad, Using
  <2>2. \A u \in Threads, q \in Paths : Again(u, q)' => Again(u, q) \/ (u = t /\ q = p)
    BY <1>1, <1>3 DEF Again
  <2>3. \A f \in Entries : Live(f)' /\ Bad(f)' => Bad(f)
    <3>1. \A f \in Entries : Live(f)' /\ f # e /\ Bad(f)' => Bad(f)
      BY <1>1, <1>2, <1>3 DEF Bad
    <3> QED
      BY <2>1, <3>1
  <2>4. ASSUME NEW u \in Threads, NEW q \in Paths, Again(u, q)', Doomed(u)'
        PROVE  Again(u, q) /\ Doomed(u)
    <3>1. CASE u = t
      <4>1. pc'[t] = "unlink" /\ op'[t] = op[t]
        BY <1>1, <2>4, <3>1 DEF Doomed, Using
      <4> QED
        BY <1>1, <2>1, <2>4, <3>1, <4>1 DEF Again, Doomed
    <3>2. CASE u # t
      <4>1. Using(u)' => ent[u] \in Entries /\ Live(ent[u])'
        BY <1>3, <3>2 DEF PoolInv, Shape, Locals
      <4> QED
        BY <1>3, <2>3, <2>4, <3>2, <4>1 DEF Again, Doomed, Using
    <3> QED
      BY <3>1, <3>2
  <2>5. ASSUME NEW q \in Paths, Good(q)
        PROVE  /\ \A u \in Threads : Again(u, q)' => faults >= 1
               /\ \A f \in Entries : Live(f)' /\ entry'[f].path = q /\ Bad(f)' => faults >= 1
               /\ \A u \in Threads, f \in ToSet(handles') :
                    Again(u, q)' /\ entry'[f].path = q /\ Bad(f)' => faults >= 2
               /\ \A u \in Threads : Again(u, q)' /\ Doomed(u)' => faults >= 2
    <3>1. /\ \A u \in Threads : Again(u, q) => faults >= 1
          /\ \A f \in Entries : Live(f) /\ entry[f].path = q /\ Bad(f) => faults >= 1
          /\ \A u \in Threads, f \in ToSet(handles) :
               Again(u, q) /\ entry[f].path = q /\ Bad(f) => faults >= 2
          /\ \A u \in Threads : Again(u, q) /\ Doomed(u) => faults >= 2
      BY <2>5 DEF FileInv, Failures
    <3>2. \A u \in Threads : Again(u, q)' => faults >= 1
      BY <1>4, <2>1, <2>2, <3>1
    <3>3. \A u \in Threads, f \in ToSet(handles') :
            Again(u, q)' /\ entry'[f].path = q /\ Bad(f)' => faults >= 2
      <4>1. ASSUME NEW u \in Threads, NEW f \in ToSet(handles'), Again(u, q)',
                   entry'[f].path = q, Bad(f)'
            PROVE  faults >= 2
        <5>1. /\ f \in ToSet(handles) /\ f \in Entries /\ entry[f].path = q /\ q # p /\ Bad(f)
          BY <1>5, <1>6, <2>3, <4>1
        <5> QED
          BY <2>2, <3>1, <4>1, <5>1
      <4> QED
        BY <4>1
    <3> QED
      BY <1>5, <2>3, <2>4, <3>1, <3>2, <3>3
  <2> QED
    BY <1>1, <1>9, <2>5 DEF Failures
<1> QED
  BY <1>1, <1>7, <1>8, <1>9, <1>10 DEF FileInv

\* The unlink that ends a failed operation.
LEMMA UnlinkFailedFile ==
  ASSUME PoolInv, PoolInv', FileInv, NEW t \in Threads, UnlinkFailed(t), mixed' = mixed
  PROVE  FileInv'
<1>1. /\ Shrinks /\ Unused' /\ Others(t) /\ pc[t] = "unlink" /\ pc'[t] = "idle"
      /\ ent'[t] = None /\ handles' = handles /\ faults' >= faults
      /\ \A f \in Entries : Live(f)' => entry'[f] = entry[f]
  BY UnlinkFailedFiles
<1>2. \A u \in Threads : u # t => pc'[u] = pc[u] /\ op'[u] = op[u] /\ ent'[u] = ent[u]
  BY <1>1 DEF Others
<1>3. \A f \in Entries : Live(f)' => Live(f) /\ entry'[f].path = entry[f].path
  BY <1>1 DEF Shrinks
<1>4. \A f \in ToSet(handles') : f \in Entries /\ Live(f)'
  BY DEF PoolInv, Shape, Reached, ToSet
<1>5. Attempts' /\ WriterAlone'
  BY <1>1, CallsKept DEF FileInv
<1>6. WriterCache'
  BY <1>1, <1>2, <1>3, <1>4 DEF FileInv, WriterCache, Writing
<1>7. Owners' /\ NamedEntries' /\ \A q \in Paths : Good(q)' => Good(q)
  BY <1>1, ShrinkKept DEF FileInv
<1>8. Failures'
  <2>1. \A u \in Threads, q \in Paths : Again(u, q)' => Again(u, q)
    BY <1>1, <1>2 DEF Again
  <2>2. \A f \in Entries : Live(f)' /\ Bad(f)' => Bad(f)
    BY <1>1, <1>2 DEF Bad
  <2>3. ASSUME NEW u \in Threads, Doomed(u)'
        PROVE  Doomed(u)
    <3>1. u # t /\ (Using(u)' => ent[u] \in Entries /\ Live(ent[u])')
      BY <1>1, <1>2, <2>3 DEF Doomed, Using, PoolInv, Shape, Locals
    <3> QED
      BY <1>2, <2>2, <2>3, <3>1 DEF Doomed, Using
  <2> QED
    BY <1>1, <1>3, <1>7, <2>1, <2>2, <2>3, FailuresKept DEF FileInv
<1> QED
  BY <1>1, <1>5, <1>6, <1>7, <1>8 DEF FileInv

\* A step of no thread.
LEMMA NoThreadFile ==
  ASSUME PoolInv, PoolInv', FileInv, Shrinks, Unused',
         pc' = pc, op' = op, ent' = ent, faults' = faults, mixed' = mixed,
         \A f \in ToSet(handles') : f \in ToSet(handles),
         \A f \in Entries : Live(f)' => entry'[f] = entry[f]
  PROVE  FileInv'
<1>1. \A f \in Entries : Live(f)' => Live(f)
  BY DEF Shrinks
<1>2. \A f \in ToSet(handles') : f \in Entries /\ Live(f)' /\ f \in ToSet(handles)
  <2>1. handles' \in Seq(Entries) /\ \A f \in ToSet(handles') : Live(f)'
    BY DEF PoolInv, Shape, Reached
  <2>2. \A f \in ToSet(handles') : f \in Entries
    BY <2>1 DEF ToSet
  <2> QED
    BY <2>1, <2>2
<1>3. Attempts' /\ WriterAlone'
  BY DEF FileInv, Attempts, WriterAlone, Writing
<1>4. WriterCache'
  BY <1>2 DEF FileInv, WriterCache, Writing
<1>5. Owners' /\ NamedEntries' /\ \A q \in Paths : Good(q)' => Good(q)
  BY ShrinkKept DEF FileInv
<1>6. Failures'
  <2>1. \A u \in Threads, q \in Paths : Again(u, q)' => Again(u, q)
    BY DEF Again
  <2>2. \A f \in Entries : Live(f)' /\ Bad(f)' => Bad(f)
    BY DEF Bad
  <2>3. ASSUME NEW u \in Threads, Doomed(u)'
        PROVE  Doomed(u)
    <3>1. Using(u)' => ent[u] \in Entries /\ Live(ent[u])'
      BY DEF PoolInv, Shape, Locals
    <3> QED
      BY <2>2, <2>3, <3>1 DEF Doomed, Using
  <2>4. faults' >= faults
    BY PoolAssumption DEF PoolInv, Shape
  <2> QED
    BY <1>1, <1>2, <1>5, <2>1, <2>2, <2>3, <2>4, FailuresKept DEF FileInv
<1> QED
  BY <1>3, <1>4, <1>5, <1>6 DEF FileInv

\* The files an earlier run left.
LEMMA InitFile ==
  ASSUME Init
  PROVE  FileInv
<1>1. /\ \A t \in Threads : pc[t] = "idle"
      /\ \A e \in Entries : ~Live(e)
      /\ ToSet(handles) = {}
  BY DEF Init, Live, ToSet
<1>2. \A p, q \in Paths : disk[p] = disk[q] /\ disk[p] # None => p = q
  BY DEF Init
<1>3. Unused
  <2>1. Range(disk) = {disk[p] : p \in Paths}
    BY DEF Init, Range
  <2> QED
    BY <2>1 DEF Init, Unused
<1>4. Attempts /\ WriterAlone /\ WriterCache
  BY <1>1 DEF Attempts, WriterAlone, WriterCache, Writing
<1>5. Owners /\ NamedEntries
  BY <1>1, <1>2 DEF Owners, NamedEntries
<1>6. Failures
  BY <1>1 DEF Failures, Again
<1> QED
  BY <1>3, <1>4, <1>5, <1>6 DEF FileInv

\* The files a restart finds.
LEMMA RestartFile ==
  ASSUME PoolInv, FileInv, Restart
  PROVE  FileInv'
<1>1. /\ Unused' /\ disk' = disk
      /\ \A t \in Threads : pc'[t] = "idle"
      /\ ToSet(handles') = {} /\ \A f \in Entries : ~Live(f)'
  BY RestartFiles
<1>2. \A p, q \in Paths : disk'[p] = disk'[q] /\ disk'[p] # None => p = q
  BY <1>1 DEF FileInv, Owners
<1>3. Attempts' /\ WriterAlone' /\ WriterCache'
  BY <1>1 DEF Attempts, WriterAlone, WriterCache, Writing
<1>4. Owners' /\ NamedEntries'
  BY <1>1, <1>2 DEF Owners, NamedEntries
<1>5. Failures'
  BY <1>1 DEF Failures, Again
<1> QED
  BY <1>1, <1>3, <1>4, <1>5 DEF FileInv

\* A step that touches neither a thread nor the cache nor a file.
LEMMA StutterFile ==
  ASSUME PoolInv, PoolInv', FileInv, mixed' = mixed, faults' = faults,
         pc' = pc, op' = op, ent' = ent, handles' = handles, entry' = entry,
         disk' = disk, content' = content
  PROVE  FileInv'
<1>1. Shrinks
  BY DEF Shrinks, Live
<1>2. Unused'
  BY DEF FileInv, Unused, Live
<1> QED
  BY <1>1, <1>2, NoThreadFile

\* Only Begin and Restart change what is mixed.
LEMMA MixedKept ==
  ASSUME NEW t \in Threads, Step(t)
  PROVE  mixed' = mixed
BY DEF Step, CacheHit, CacheMiss, OpenHandle, OpenFails, InsertHandle, IoFull, IoShort,
   ReleaseHandle, DropHandle, UnlinkFailed, auxVars

\* Every step keeps the files in order.
LEMMA StepFile ==
  ASSUME PoolInv, PoolInv', FileInv, [Next]_vars
  PROVE  FileInv'
<1>1. CASE \E t \in Threads, kind \in {"write", "read"}, p \in Paths : Begin(t, kind, p)
  BY <1>1, BeginFile
<1>2. ASSUME NEW t \in Threads, Step(t)
      PROVE  FileInv'
  <2> mixed' = mixed
    BY <1>2, MixedKept
  <2>1. CASE CacheHit(t) \/ CacheMiss(t) \/ OpenHandle(t) \/ OpenFails(t) \/ InsertHandle(t)
    BY <2>1, CacheHitFile, CacheMissFile, OpenHandleFile, OpenFailsFile, InsertHandleFile
  <2>2. CASE IoFull(t) \/ IoShort(t) \/ ReleaseHandle(t) \/ DropHandle(t) \/ UnlinkFailed(t)
    BY <2>2, IoFullFile, IoShortFile, ReleaseHandleFile, DropHandleFile, UnlinkFailedFile
  <2> QED
    BY <1>2, <2>1, <2>2 DEF Step
<1>3. ASSUME NEW p \in Paths, GcUnlink(p)
      PROVE  FileInv'
  BY <1>3, GcUnlinkFiles, NoThreadFile
<1>4. CASE Restart
  BY <1>4, RestartFile
<1>5. CASE UNCHANGED vars
  BY <1>5, StutterFile DEF vars, fsVars, auxVars
<1> QED
  BY <1>1, <1>2, <1>3, <1>4, <1>5 DEF Next

\* Names, handles and contents stay in order, and every failure is accounted for.
THEOREM FileInvariance == Spec => [](PoolInv /\ FileInv)
<1>1. Init => PoolInv /\ FileInv
  BY InitInv, InitFile
<1>2. PoolInv /\ FileInv /\ [Next]_vars => (PoolInv /\ FileInv)'
  BY StepInv, StepFile
<1> QED
  BY <1>1, <1>2, PTL DEF Spec

\* The self-heal of a read unlinks a good file only after two failures, on a path where no
\* write has run next to another operation.
THEOREM GoodFilesSurvive == Spec => []GoodFileSurvives
<1>1. PoolInv /\ FileInv => GoodFileSurvives
  <2> SUFFICES ASSUME PoolInv, FileInv, NEW t \in Threads, pc[t] = "unlink", op[t].kind = "read",
                      disk[op[t].path] # None, content[disk[op[t].path]] = "whole",
                      op[t].path \notin mixed
               PROVE  faults >= 2
    BY DEF GoodFileSurvives, KillsGoodFile, HasFile
  <2>1. op[t].path \in Paths
    BY DEF PoolInv, Shape, Locals, Op
  <2>2. Again(t, op[t].path) /\ Doomed(t)
    BY DEF FileInv, Attempts, Again, Doomed
  <2> QED
    BY <2>1, <2>2 DEF FileInv, Failures, Good
<1> QED
  BY <1>1, FileInvariance, PTL

-----------------------------------------------------------------------------
(* Empty files: on a path without mixed operations, whoever makes one is   *)
(* bound to fill it or to unlink it.                                       *)

\* A path on which the properties promise that no empty file is left.
Clear(p) == p \notin mixed /\ p \notin spoilt

\* What every step but a restart does: a path that is not clear stays so.
Grows == \A p \in Paths : Clear(p)' => Clear(p)

Whole(e) == content[entry[e].inode] = "whole"

\* A handle that a thread may still be given.
Avail(e) == e \in ToSet(handles) \/ \E t \in Threads : pc[t] = "insert" /\ ent[t] = e

\* A clear path that names a file which is not whole, or whose file is about to be made.
NotWhole(p) ==
  /\ Clear(p)
  /\ \/ disk[p] = None /\ \E u \in Threads : pc[u] = "open" /\ op[u].path = p
     \/ disk[p] # None /\ content[disk[p]] # "whole"

\* Such a path has no handle on a whole file that it named before: a thread that
\* reads through one would succeed, and leave the empty file behind.
NoneWhole ==
  \A p \in Paths, e \in Entries :
    NotWhole(p) /\ Avail(e) /\ entry[e].path = p => ~Whole(e)

\* A handle on its way into the cache is on the file that its path names.
FreshNamed ==
  \A t \in Threads :
    pc[t] = "insert" /\ Clear(op[t].path) /\ Whole(ent[t]) =>
      disk[op[t].path] = entry[ent[t]].inode

WriterNamed ==
  \A w \in Threads :
    Writing(w) /\ Clear(op[w].path) /\ Using(w) /\ disk[op[w].path] # None =>
      entry[ent[w]].inode = disk[op[w].path]

\* A thread that will fail, or fill the file.
Heals(t) ==
  \/ pc[t] = "unlink"
  \/ pc[t] \in {"insert", "io", "drop"} /\ ~Whole(ent[t])
  \/ pc[t] \in {"get", "open"} /\ op[t].attempt = 1

Healer(t, p) == pc[t] # "idle" /\ op[t].path = p /\ Heals(t)

Ghosts ==
  \A p \in Paths : Clear(p) /\ disk[p] # None /\ content[disk[p]] = "empty" =>
    \E t \in Threads : Healer(t, p)

GhostInv == NoneWhole /\ FreshNamed /\ WriterNamed /\ Ghosts

\* What a step that adds nothing does to a whole file.
LEMMA WholeShrinks ==
  ASSUME Shrinks, PoolInv, PoolInv', NEW e \in Entries, Live(e)', Whole(e)'
  PROVE  Live(e) /\ Whole(e) /\ entry'[e].path = entry[e].path /\ entry'[e].inode = entry[e].inode
<1>1. Live(e) /\ entry'[e].path = entry[e].path /\ entry'[e].inode = entry[e].inode
  BY DEF Shrinks
<1>2. entry[e].inode \in Inodes
  BY <1>1 DEF PoolInv, Shape, Live, Entry
<1> QED
  BY <1>1, <1>2 DEF Shrinks, Whole

\* A thread that is left alone heals as before.
LEMMA HealerKept ==
  ASSUME PoolInv, PoolInv', Shrinks, NEW u \in Threads, NEW p \in Paths, Healer(u, p),
         ent'[u] = ent[u], op'[u] = op[u],
         pc'[u] = pc[u] \/ (pc[u] \in {"insert", "io"} /\ pc'[u] \in {"io", "drop"})
  PROVE  Healer(u, p)'
<1>1. pc'[u] # "idle" /\ op'[u].path = p
  BY DEF Healer
<1>2. Heals(u)'
  <2>1. CASE pc[u] \notin {"insert", "io", "drop"}
    BY <2>1 DEF Healer, Heals
  <2>2. CASE pc[u] \in {"insert", "io", "drop"}
    <3>1. PICK e \in Entries : e = ent[u] /\ e = ent'[u] /\ Live(e)'
      BY <2>2 DEF PoolInv, Shape, Locals, Using
    <3>2. ~Whole(e)
      BY <2>2, <3>1 DEF Healer, Heals
    <3>3. ~Whole(e)'
      BY <3>1, <3>2, WholeShrinks
    <3>4. pc'[u] \in {"insert", "io", "drop"}
      BY <2>2
    <3> QED
      BY <3>1, <3>3, <3>4 DEF Heals, Whole
  <2> QED
    BY <2>1, <2>2
<1> QED
  BY <1>1, <1>2 DEF Healer

\* The condition of a path, when its name stays and nobody goes to open it.
LEMMA NotWholeKept ==
  ASSUME PoolInv, Shrinks, Grows, NEW p \in Paths, disk'[p] = disk[p], NotWhole(p)',
         \A u \in Threads : pc'[u] = "open" => pc[u] = "open" /\ op'[u].path = op[u].path
  PROVE  NotWhole(p)
<1>1. disk'[p] # None => content'[disk'[p]] = content[disk[p]]
  BY DEF Shrinks
<1> QED
  BY <1>1 DEF NotWhole, Grows

\* NoneWhole, after a step that adds nothing.
LEMMA NoneWholeKept ==
  ASSUME PoolInv, PoolInv', NoneWhole, Shrinks,
         \A p \in Paths : NotWhole(p)' => NotWhole(p),
         \A e \in Entries : Avail(e)' => Avail(e)
  PROVE  NoneWhole'
<1>1. ASSUME NEW p \in Paths, NEW e \in Entries, NotWhole(p)', Avail(e)', entry'[e].path = p
      PROVE  ~Whole(e)'
  <2>1. Live(e)'
    <3>1. CASE e \in ToSet(handles')
      BY <3>1 DEF PoolInv, Reached
    <3>2. CASE e \notin ToSet(handles')
      BY <1>1, <3>2 DEF PoolInv, Locals, Avail, Using
    <3> QED
      BY <3>1, <3>2
  <2>2. Live(e) /\ entry[e].path = p
    BY <1>1, <2>1 DEF Shrinks
  <2>3. ~Whole(e)
    BY <1>1, <2>2 DEF NoneWhole
  <2> QED
    BY <2>1, <2>3, WholeShrinks
<1> QED
  BY <1>1 DEF NoneWhole

Stays(u) == pc'[u] = pc[u] /\ op'[u] = op[u] /\ ent'[u] = ent[u]
KeepsName(u) == disk'[op[u].path] = disk[op[u].path]

\* FreshNamed, after a step that adds nothing.
LEMMA FreshNamedKept ==
  ASSUME PoolInv, PoolInv', FreshNamed, Shrinks, Grows,
         \A u \in Threads : pc'[u] = "insert" => Stays(u),
         \A u \in Threads : pc'[u] = "insert" /\ Clear(op[u].path)' => KeepsName(u) \/ ~Whole(ent[u])
  PROVE  FreshNamed'
<1>1. ASSUME NEW u \in Threads, pc'[u] = "insert", Clear(op[u].path)', Whole(ent[u])'
      PROVE  disk'[op'[u].path] = entry'[ent'[u]].inode
  <2>1. PICK e \in Entries : e = ent[u] /\ e = ent'[u] /\ Live(e)'
    BY <1>1 DEF PoolInv, Shape, Locals, Using, Stays
  <2>2. Whole(e)'
    BY <1>1, <2>1 DEF Whole
  <2>3. Whole(e) /\ entry'[e].inode = entry[e].inode
    BY <2>1, <2>2, WholeShrinks
  <2>4. op'[u] = op[u] /\ pc[u] = "insert"
    BY <1>1 DEF Stays
  <2>5. op[u].path \in Paths
    BY <2>4 DEF PoolInv, Shape, Locals, Op
  <2>6. Clear(op[u].path)
    BY <1>1, <2>4, <2>5 DEF Grows, Clear
  <2>7. KeepsName(u)
    BY <1>1, <2>1, <2>3, <2>4 DEF Clear
  <2> QED
    BY <2>1, <2>3, <2>4, <2>6, <2>7 DEF FreshNamed, KeepsName
<1> QED
  BY <1>1 DEF FreshNamed

\* WriterNamed, after a step that adds nothing and gives no writer a handle.
LEMMA WriterNamedKept ==
  ASSUME PoolInv, PoolInv', WriterNamed, Shrinks, Grows,
         \A w \in Threads : Writing(w)' /\ Using(w)' =>
           Using(w) /\ ent'[w] = ent[w] /\ op'[w] = op[w]
  PROVE  WriterNamed'
<1>1. ASSUME NEW w \in Threads, Writing(w)', Clear(op[w].path)', Using(w)', disk'[op'[w].path] # None
      PROVE  entry'[ent'[w]].inode = disk'[op'[w].path]
  <2>0. Using(w) /\ op'[w] = op[w] /\ op[w].path \in Paths
    BY <1>1 DEF Using, PoolInv, Shape, Locals, Op
  <2>1. Writing(w) /\ Using(w) /\ op[w].path \in Paths /\ Clear(op[w].path)
    BY <1>1, <2>0 DEF Writing, Using, Grows, Clear
  <2>2. PICK e \in Entries : e = ent[w] /\ e = ent'[w] /\ Live(e)'
    BY <1>1 DEF PoolInv, Shape, Locals
  <2>3. disk'[op[w].path] = disk[op[w].path] /\ entry'[e].inode = entry[e].inode
    BY <1>1, <2>1, <2>2 DEF Shrinks
  <2> QED
    BY <1>1, <2>1, <2>2, <2>3 DEF WriterNamed
<1> QED
  BY <1>1 DEF WriterNamed

\* Ghosts, after a step that adds nothing.
LEMMA GhostsKept ==
  ASSUME PoolInv, PoolInv', Ghosts, Shrinks, Grows,
         \A u \in Threads, p \in Paths :
           Clear(p)' /\ disk'[p] # None /\ disk[p] # None /\ content[disk[p]] = "empty" /\ Healer(u, p) =>
             Stays(u) \/ Healer(u, p)'
  PROVE  Ghosts'
<1>1. ASSUME NEW p \in Paths, Clear(p)', disk'[p] # None, content'[disk'[p]] = "empty"
      PROVE  \E u \in Threads : Healer(u, p)'
  <2>1. Clear(p) /\ disk[p] # None /\ content[disk[p]] = "empty"
    BY <1>1 DEF Shrinks, Grows
  <2>2. PICK u \in Threads : Healer(u, p)
    BY <2>1 DEF Ghosts
  <2>3. Stays(u) => Healer(u, p)'
    BY <2>2, HealerKept DEF Stays
  <2> QED
    BY <1>1, <2>1, <2>2, <2>3
<1> QED
  BY <1>1 DEF Ghosts

\* A thread other than a writer's is not on its path.
LEMMA OthersAway ==
  ASSUME FileInv, NEW w \in Threads, Writing(w), NEW u \in Threads, u # w, pc[u] # "idle"
  PROVE  op[u].path # op[w].path
BY DEF FileInv, WriterAlone

\* The start of an operation makes no empty file.
LEMMA BeginGhost ==
  ASSUME PoolInv, PoolInv', GhostInv, NEW t \in Threads, NEW kind \in {"write", "read"},
         NEW p \in Paths, Begin(t, kind, p)
  PROVE  GhostInv'
<1>1. /\ Others(t) /\ pc[t] = "idle" /\ pc'[t] = "get" /\ handles' = handles
      /\ ent' = ent /\ entry' = entry /\ disk' = disk /\ content' = content
  BY BeginFacts
<1>2. Shrinks /\ Grows
  BY <1>1 DEF Shrinks, Live, Begin, Grows, Clear
<1>3. \A u \in Threads : u # t => Stays(u)
  BY <1>1 DEF Others, Stays
<1>4. \A q \in Paths : NotWhole(q)' => NotWhole(q)
  BY <1>1, <1>2, <1>3, NotWholeKept DEF Stays
<1>5. \A e \in Entries : Avail(e)' => Avail(e)
  BY <1>1, <1>3 DEF Avail, Stays
<1>6. NoneWhole'
  BY <1>2, <1>4, <1>5, NoneWholeKept DEF GhostInv
<1>7. FreshNamed'
  BY <1>1, <1>2, <1>3, FreshNamedKept DEF GhostInv, KeepsName
<1>8. WriterNamed'
  BY <1>1, <1>2, <1>3, WriterNamedKept DEF GhostInv, Stays, Using
<1>9. Ghosts'
  BY <1>1, <1>2, <1>3, GhostsKept DEF GhostInv, Healer
<1> QED
  BY <1>6, <1>7, <1>8, <1>9 DEF GhostInv

\* A hit hands out no whole file that is not the one of the path.
LEMMA CacheHitGhost ==
  ASSUME PoolInv, PoolInv', FileInv, GhostInv, NEW t \in Threads, CacheHit(t),
         mixed' = mixed, spoilt' = spoilt
  PROVE  GhostInv'
<1>1. /\ Others(t) /\ pc[t] = "get" /\ pc'[t] = "io" /\ op' = op
      /\ ent'[t] \in ToSet(handles) /\ entry[ent'[t]].path = op[t].path
      /\ ToSet(handles') = ToSet(handles)
      /\ \A f \in Entries : Live(f)' <=> Live(f)
      /\ \A f \in Entries : Live(f) =>
           entry'[f].path = entry[f].path /\ entry'[f].inode = entry[f].inode
      /\ disk' = disk /\ content' = content
  BY HitFacts
<1>2. Shrinks /\ Grows
  BY <1>1 DEF Shrinks, Grows, Clear
<1>3. \A u \in Threads : u # t => Stays(u)
  BY <1>1 DEF Others, Stays
<1>4. \A q \in Paths : NotWhole(q)' => NotWhole(q)
  BY <1>1, <1>2, <1>3, NotWholeKept DEF Stays
<1>5. \A e \in Entries : Avail(e)' => Avail(e)
  BY <1>1, <1>3 DEF Avail, Stays
<1>6. NoneWhole'
  BY <1>2, <1>4, <1>5, NoneWholeKept DEF GhostInv
<1>7. FreshNamed'
  BY <1>1, <1>2, <1>3, FreshNamedKept DEF GhostInv, KeepsName
<1>8. PICK e \in Entries : e = ent'[t] /\ e \in ToSet(handles) /\ Live(e) /\ entry[e].path = op[t].path
  BY <1>1 DEF PoolInv, Shape, Reached, ToSet
<1>9. op[t].path \in Paths
  BY <1>1 DEF PoolInv, Shape, Locals, Op
<1>10. ASSUME Writing(t), Clear(op[t].path), disk[op[t].path] # None
       PROVE  entry[e].inode = disk[op[t].path]
  <2>1. CASE content[disk[op[t].path]] # "empty"
    BY <1>8, <1>9, <1>10, <2>1 DEF FileInv, NamedEntries, Clear
  <2>2. CASE content[disk[op[t].path]] = "empty"
    <3>1. PICK u \in Threads : Healer(u, op[t].path)
      BY <1>9, <1>10, <2>2 DEF GhostInv, Ghosts
    <3>2. u = t
      BY <1>10, <3>1 DEF FileInv, WriterAlone, Healer
    <3>3. op[t].attempt = 1
      BY <1>1, <3>1, <3>2 DEF Healer, Heals
    <3> QED
      BY <1>10, <3>3 DEF FileInv, Attempts, Writing
  <2> QED
    BY <2>1, <2>2
<1>11. WriterNamed'
  <2>1. ASSUME NEW w \in Threads, Writing(w)', Clear(op[w].path)', Using(w)', disk'[op'[w].path] # None
        PROVE  entry'[ent'[w]].inode = disk'[op'[w].path]
    <3>1. CASE w = t
      <4>1. Writing(t) /\ Clear(op[t].path) /\ disk[op[t].path] # None
        BY <1>1, <2>1, <3>1 DEF Writing, Clear
      <4>2. entry[e].inode = disk[op[t].path]
        BY <4>1, <1>10
      <4> QED
        BY <1>1, <1>8, <3>1, <4>2
    <3>2. CASE w # t
      <4>1. Writing(w) /\ Clear(op[w].path) /\ Using(w) /\ ent'[w] = ent[w] /\ op'[w] = op[w]
        BY <1>3, <2>1, <3>2 DEF Writing, Using, Stays, Clear
      <4>2. ent[w] \in Entries /\ Live(ent[w])
        BY <4>1 DEF PoolInv, Shape, Locals
      <4> QED
        BY <1>1, <2>1, <4>1, <4>2 DEF GhostInv, WriterNamed
    <3> QED
      BY <3>1, <3>2
  <2> QED
    BY <2>1 DEF WriterNamed
<1>12. ASSUME NEW q \in Paths, Clear(q), disk[q] # None, content[disk[q]] = "empty", Healer(t, q)
       PROVE  Healer(t, q)'
  <2>1. q = op[t].path
    BY <1>12 DEF Healer
  <2>2. ~Whole(e)
    BY <1>8, <1>12, <2>1 DEF GhostInv, NoneWhole, NotWhole, Avail
  <2>3. ~Whole(ent[t])'
    BY <1>1, <1>8, <2>2 DEF Whole
  <2> QED
    BY <1>1, <2>1, <2>3 DEF Healer, Heals
<1>13. Ghosts'
  BY <1>1, <1>2, <1>3, <1>12, GhostsKept DEF GhostInv, Grows
<1> QED
  BY <1>6, <1>7, <1>11, <1>13 DEF GhostInv

\* A miss finds no handle on a whole file on its way into the cache, when the
\* path names no file.
LEMMA CacheMissGhost ==
  ASSUME PoolInv, PoolInv', GhostInv, NEW t \in Threads, CacheMiss(t),
         mixed' = mixed, spoilt' = spoilt
  PROVE  GhostInv'
<1>1. /\ Others(t) /\ pc[t] = "get" /\ pc'[t] = "open" /\ op' = op /\ ent' = ent
      /\ handles' = handles /\ entry' = entry /\ disk' = disk /\ content' = content
      /\ Cached(op[t].path) = {}
  BY PassFacts DEF CacheMiss, fsVars, PCs
<1>2. Shrinks /\ Grows
  BY <1>1 DEF Shrinks, Live, Grows, Clear
<1>3. \A u \in Threads : u # t => Stays(u)
  BY <1>1 DEF Others, Stays
<1>4. ASSUME NEW q \in Paths, NEW e \in Entries, NotWhole(q)', Avail(e)', entry'[e].path = q
      PROVE  ~Whole(e)'
  <2>1. Avail(e) /\ entry[e].path = q /\ (Whole(e)' <=> Whole(e))
    BY <1>1, <1>3, <1>4 DEF Avail, Stays, Whole
  <2>2. CASE NotWhole(q)
    BY <2>1, <2>2 DEF GhostInv, NoneWhole
  <2>3. CASE ~NotWhole(q)
    <3>1. Clear(q) /\ disk[q] = None /\ q = op[t].path
      BY <1>1, <1>3, <1>4, <2>3 DEF NotWhole, Stays, Clear
    <3>2. e \notin ToSet(handles)
      BY <1>1, <2>1, <3>1 DEF Cached
    <3>3. PICK u \in Threads : pc[u] = "insert" /\ ent[u] = e
      BY <2>1, <3>2 DEF Avail
    <3>4. op[u].path = q
      BY <2>1, <3>3 DEF PoolInv, Locals, Using
    <3>5. entry[e].inode # None
      BY <3>3, NoneApart DEF PoolInv, Shape, Locals, Using, Live, Entry
    <3>6. ~Whole(e)
      BY <3>1, <3>3, <3>4, <3>5 DEF GhostInv, FreshNamed
    <3> QED
      BY <2>1, <3>6
  <2> QED
    BY <2>2, <2>3
<1>5. NoneWhole'
  BY <1>4 DEF NoneWhole
<1>6. FreshNamed'
  BY <1>1, <1>2, <1>3, FreshNamedKept DEF GhostInv, KeepsName
<1>7. WriterNamed'
  BY <1>1, <1>2, <1>3, WriterNamedKept DEF GhostInv, Stays, Using
<1>8. \A q \in Paths : Healer(t, q) => Healer(t, q)'
  BY <1>1 DEF Healer, Heals
<1>9. Ghosts'
  BY <1>2, <1>3, <1>8, GhostsKept DEF GhostInv
<1> QED
  BY <1>5, <1>6, <1>7, <1>9 DEF GhostInv

\* An open makes an empty file only where the thread will meet it itself.
LEMMA OpenHandleGhost ==
  ASSUME PoolInv, PoolInv', FileInv, GhostInv, NEW t \in Threads, OpenHandle(t),
         mixed' = mixed, spoilt' = spoilt
  PROVE  GhostInv'
<1>1. PICK p : p = op[t].path
  OBVIOUS
<1>2. PICK e : e = ent'[t]
  OBVIOUS
<1>3. PICK n : n = Opened(p)
  OBVIOUS
<1>4. /\ Others(t) /\ pc[t] = "open" /\ pc'[t] = "insert" /\ op' = op /\ p \in Paths
      /\ e \in Entries /\ ~Live(e) /\ \A u \in Threads : ent[u] # e
      /\ handles' = handles /\ content' = content
      /\ entry'[e].path = p /\ entry'[e].inode = n
      /\ \A f \in Entries : f # e => entry'[f] = entry[f]
      /\ disk'[p] = n /\ \A q \in Paths : q # p => disk'[q] = disk[q]
  BY <1>1, <1>2, <1>3, OpenFacts
<1>5. /\ n \in Inodes /\ n # None /\ (disk[p] # None => n = disk[p])
      /\ disk[p] = None => content[n] = "empty"
  BY <1>3, <1>4, OpenedFacts
<1>6. \A u \in Threads : u # t => Stays(u)
  BY <1>4 DEF Others, Stays
<1>7. \A u \in Threads : u # t /\ Using(u) =>
        /\ ent[u] \in Entries /\ ent[u] # e /\ entry'[ent'[u]] = entry[ent[u]]
        /\ (Whole(ent[u])' <=> Whole(ent[u]))
  BY <1>4, <1>6 DEF PoolInv, Shape, Locals, Stays, Whole
<1>8. ASSUME NEW q \in Paths, NEW f \in Entries, NotWhole(q)', Avail(f)', entry'[f].path = q
      PROVE  ~Whole(f)'
  <2>1. CASE f = e
    <3>1. q = p /\ content[n] # "whole"
      BY <1>4, <1>5, <1>8, <2>1 DEF NotWhole
    <3> QED
      BY <1>4, <2>1, <3>1 DEF Whole
  <2>2. CASE f # e
    <3>1. Avail(f) /\ entry[f].path = q /\ (Whole(f)' <=> Whole(f))
      BY <1>2, <1>4, <1>6, <1>8, <2>2 DEF Avail, Stays, Whole
    <3>2. CASE q = p
      <4>1. NotWhole(p)
        BY <1>1, <1>4, <1>5, <1>8, <3>2 DEF NotWhole, Clear
      <4> QED
        BY <3>1, <3>2, <4>1 DEF GhostInv, NoneWhole
    <3>3. CASE q # p
      <4>1. NotWhole(q)
        BY <1>4, <1>6, <1>8, <3>3 DEF NotWhole, Stays, Clear
      <4> QED
        BY <3>1, <4>1 DEF GhostInv, NoneWhole
    <3> QED
      BY <3>2, <3>3
  <2> QED
    BY <2>1, <2>2
<1>9. NoneWhole'
  BY <1>8 DEF NoneWhole
<1>10. FreshNamed'
  <2>1. ASSUME NEW u \in Threads, pc'[u] = "insert", Clear(op[u].path)', Whole(ent[u])'
        PROVE  disk'[op'[u].path] = entry'[ent'[u]].inode
    <3>1. CASE u = t
      BY <1>1, <1>2, <1>4, <3>1
    <3>2. CASE u # t
      <4>1. pc[u] = "insert" /\ Using(u) /\ Whole(ent[u]) /\ Clear(op[u].path)
        BY <1>6, <1>7, <2>1, <3>2 DEF Stays, Using, Clear
      <4>2. /\ ent[u] \in Entries /\ entry[ent[u]].path = op[u].path
            /\ op[u].path \in Paths /\ Avail(ent[u])
        BY <4>1 DEF PoolInv, Shape, Locals, Op, Avail, Using
      <4>3. op[u].path = p => disk[p] # None
        BY <1>1, <1>4, <4>1, <4>2 DEF GhostInv, NoneWhole, NotWhole
      <4>4. disk'[op[u].path] = disk[op[u].path]
        BY <1>4, <1>5, <4>2, <4>3
      <4>5. disk[op[u].path] = entry[ent[u]].inode
        BY <4>1 DEF GhostInv, FreshNamed
      <4> QED
        BY <1>4, <1>7, <3>2, <4>1, <4>4, <4>5
    <3> QED
      BY <3>1, <3>2
  <2> QED
    BY <2>1 DEF FreshNamed
<1>11. WriterNamed'
  <2>1. ASSUME NEW w \in Threads, Writing(w)', Clear(op[w].path)', Using(w)', disk'[op'[w].path] # None
        PROVE  entry'[ent'[w]].inode = disk'[op'[w].path]
    <3>1. CASE w = t
      BY <1>1, <1>2, <1>4, <3>1
    <3>2. CASE w # t
      <4>1. Writing(w) /\ Clear(op[w].path) /\ Using(w)
        BY <1>6, <2>1, <3>2 DEF Writing, Using, Stays, Clear
      <4>2. op[w].path # p /\ op[w].path \in Paths
        BY <1>1, <1>4, <3>2, <4>1, OthersAway DEF PoolInv, Shape, Locals, Op, Using
      <4>3. disk'[op[w].path] = disk[op[w].path]
        BY <1>4, <4>2
      <4>4. entry[ent[w]].inode = disk[op[w].path]
        BY <1>4, <2>1, <4>1, <4>3 DEF GhostInv, WriterNamed
      <4> QED
        BY <1>4, <1>7, <3>2, <4>1, <4>3, <4>4
    <3> QED
      BY <3>1, <3>2
  <2> QED
    BY <2>1 DEF WriterNamed
<1>12. Ghosts'
  <2>1. ASSUME NEW q \in Paths, Clear(q)', disk'[q] # None, content'[disk'[q]] = "empty"
        PROVE  \E u \in Threads : Healer(u, q)'
    <3>1. CASE q = p
      <4>1. ~Whole(ent[t])'
        BY <1>2, <1>4, <2>1, <3>1 DEF Whole
      <4> QED
        BY <1>1, <1>4, <3>1, <4>1 DEF Healer, Heals
    <3>2. CASE q # p
      <4>1. Clear(q) /\ disk[q] # None /\ content[disk[q]] = "empty"
        BY <1>4, <2>1, <3>2 DEF Clear
      <4>2. PICK u \in Threads : Healer(u, q)
        BY <4>1 DEF GhostInv, Ghosts
      <4>3. u # t
        BY <1>1, <3>2, <4>2 DEF Healer
      <4>4. Heals(u)'
        BY <1>6, <1>7, <4>2, <4>3 DEF Healer, Heals, Stays, Using
      <4> QED
        BY <1>6, <4>2, <4>3, <4>4 DEF Healer, Stays
    <3> QED
      BY <3>1, <3>2
  <2> QED
    BY <2>1 DEF Ghosts
<1> QED
  BY <1>9, <1>10, <1>11, <1>12 DEF GhostInv

\* A failed open may leave an empty file; the thread comes back for it.
LEMMA OpenFailsGhost ==
  ASSUME PoolInv, PoolInv', FileInv, GhostInv, NEW t \in Threads, OpenFails(t),
         mixed' = mixed, spoilt' = spoilt
  PROVE  GhostInv'
<1>1. PICK p : p = op[t].path
  OBVIOUS
<1>2. PICK n : n = Opened(p)
  OBVIOUS
<1>3. /\ Others(t) /\ pc[t] = "open" /\ pc'[t] \in {"get", "unlink"} /\ p \in Paths
      /\ op[t] # None /\ op'[t] # None /\ op'[t].path = p
      /\ pc'[t] = "get" => op'[t].attempt = 1
      /\ ent' = ent /\ handles' = handles /\ entry' = entry /\ content' = content
      /\ disk'[p] = disk[p] \/ disk'[p] = n
      /\ \A q \in Paths : q # p => disk'[q] = disk[q]
  BY <1>1, <1>2, OpenFailsFacts
<1>4. n \in Inodes /\ n # None /\ (disk[p] # None => n = disk[p])
  BY <1>2, <1>3, OpenedFacts
<1>5. \A u \in Threads : u # t => Stays(u)
  BY <1>3 DEF Others, Stays
<1>6. \A f : Whole(f)' <=> Whole(f)
  BY <1>3 DEF Whole
<1>7. ASSUME NEW q \in Paths, NotWhole(q)'
      PROVE  NotWhole(q)
  <2>1. CASE q = p /\ disk[p] = None
    BY <1>1, <1>3, <1>7, <2>1 DEF NotWhole, Clear
  <2>2. CASE ~(q = p /\ disk[p] = None)
    <3>1. disk'[q] = disk[q]
      BY <1>3, <1>4, <2>2
    <3> QED
      BY <1>3, <1>5, <1>7, <3>1 DEF NotWhole, Stays, Clear
  <2> QED
    BY <2>1, <2>2
<1>8. \A f \in Entries : Avail(f)' => Avail(f)
  BY <1>3, <1>5 DEF Avail, Stays
<1>9. NoneWhole'
  BY <1>3, <1>6, <1>7, <1>8 DEF GhostInv, NoneWhole
<1>10. FreshNamed'
  <2>1. ASSUME NEW u \in Threads, pc'[u] = "insert", Clear(op[u].path)', Whole(ent[u])'
        PROVE  disk'[op'[u].path] = entry'[ent'[u]].inode
    <3>1. /\ u # t /\ pc[u] = "insert" /\ op'[u] = op[u] /\ Whole(ent[u])
          /\ Clear(op[u].path)
      BY <1>3, <1>5, <1>6, <2>1 DEF Stays, Whole, Clear
    <3>2. /\ ent[u] \in Entries /\ entry[ent[u]].path = op[u].path
          /\ op[u].path \in Paths /\ Avail(ent[u])
      BY <3>1 DEF PoolInv, Shape, Locals, Op, Avail, Using
    <3>3. op[u].path = p => disk[p] # None
      BY <1>1, <1>3, <3>1, <3>2 DEF GhostInv, NoneWhole, NotWhole
    <3>4. disk'[op[u].path] = disk[op[u].path]
      BY <1>3, <1>4, <3>2, <3>3
    <3>5. disk[op[u].path] = entry[ent[u]].inode
      BY <3>1 DEF GhostInv, FreshNamed
    <3> QED
      BY <1>3, <3>1, <3>4, <3>5
  <2> QED
    BY <2>1 DEF FreshNamed
<1>11. WriterNamed'
  <2>1. ASSUME NEW w \in Threads, Writing(w)', Clear(op[w].path)', Using(w)', disk'[op'[w].path] # None
        PROVE  entry'[ent'[w]].inode = disk'[op'[w].path]
    <3>1. w # t /\ op'[w] = op[w] /\ Writing(w) /\ Clear(op[w].path) /\ Using(w)
      BY <1>3, <1>5, <2>1 DEF Writing, Using, Stays, Clear
    <3>2. op[w].path # p /\ op[w].path \in Paths
      BY <1>1, <1>3, <3>1, OthersAway DEF PoolInv, Shape, Locals, Op, Using
    <3>3. disk'[op[w].path] = disk[op[w].path]
      BY <1>3, <3>2
    <3>4. entry[ent[w]].inode = disk[op[w].path]
      BY <2>1, <3>1, <3>3 DEF GhostInv, WriterNamed
    <3> QED
      BY <1>3, <3>1, <3>3, <3>4
  <2> QED
    BY <2>1 DEF WriterNamed
<1>12. Ghosts'
  <2>1. ASSUME NEW q \in Paths, Clear(q)', disk'[q] # None, content'[disk'[q]] = "empty"
        PROVE  \E u \in Threads : Healer(u, q)'
    <3>1. CASE q = p
      BY <1>3, <3>1 DEF Healer, Heals
    <3>2. CASE q # p
      <4>1. Clear(q) /\ disk[q] # None /\ content[disk[q]] = "empty"
        BY <1>3, <2>1, <3>2 DEF Clear
      <4>2. PICK u \in Threads : Healer(u, q)
        BY <4>1 DEF GhostInv, Ghosts
      <4>3. u # t
        BY <1>1, <3>2, <4>2 DEF Healer
      <4>4. Heals(u)'
        BY <1>3, <1>5, <4>2, <4>3 DEF Healer, Heals, Stays, Whole
      <4> QED
        BY <1>5, <4>2, <4>3, <4>4 DEF Healer, Stays
    <3> QED
      BY <3>1, <3>2
  <2> QED
    BY <2>1 DEF Ghosts
<1> QED
  BY <1>9, <1>10, <1>11, <1>12 DEF GhostInv

\* A handle that enters the cache was on offer before.
LEMMA InsertHandleGhost ==
  ASSUME PoolInv, PoolInv', GhostInv, NEW t \in Threads, InsertHandle(t),
         mixed' = mixed, spoilt' = spoilt
  PROVE  GhostInv'
<1>1. /\ Shrinks /\ Others(t) /\ pc[t] = "insert" /\ pc'[t] = "io"
      /\ op' = op /\ ent' = ent /\ disk' = disk
      /\ \A f \in ToSet(handles') : f = ent[t] \/ f \in ToSet(handles)
  BY InsertFiles
<1> Grows
  BY DEF Grows, Clear
<1>2. \A u \in Threads : u # t => Stays(u)
  BY <1>1 DEF Others, Stays
<1>3. \A q \in Paths : NotWhole(q)' => NotWhole(q)
  BY <1>1, <1>2, NotWholeKept DEF Stays
<1>4. \A e \in Entries : Avail(e)' => Avail(e)
  BY <1>1, <1>2 DEF Avail, Stays
<1>5. NoneWhole'
  BY <1>1, <1>3, <1>4, NoneWholeKept DEF GhostInv
<1>6. FreshNamed'
  BY <1>1, <1>2, FreshNamedKept DEF GhostInv, KeepsName
<1>7. WriterNamed'
  BY <1>1, <1>2, WriterNamedKept DEF GhostInv, Stays, Using
<1>8. \A q \in Paths : Healer(t, q) => Healer(t, q)'
  BY <1>1, HealerKept
<1>9. Ghosts'
  BY <1>1, <1>2, <1>8, GhostsKept DEF GhostInv
<1> QED
  BY <1>5, <1>6, <1>7, <1>9 DEF GhostInv

\* What is written is what the path names, and the writer is alone on it.
LEMMA IoFullGhost ==
  ASSUME PoolInv, PoolInv', FileInv, GhostInv, NEW t \in Threads, IoFull(t),
         mixed' = mixed, spoilt' = spoilt
  PROVE  GhostInv'
<1>1. PICK n : n = entry[ent[t]].inode
  OBVIOUS
<1>2. PICK p : p = op[t].path
  OBVIOUS
<1>3. /\ Others(t) /\ pc[t] = "io" /\ pc'[t] = "release"
      /\ op' = op /\ ent' = ent /\ handles' = handles /\ entry' = entry
      /\ disk' = disk /\ n \in Inodes
      /\ \A m \in Inodes : m # n => content'[m] = content[m]
      /\ op[t].kind = "write" => content'[n] = "whole"
      /\ op[t].kind # "write" => content' = content
  BY <1>1, IoFullFacts
<1>4. op[t].kind # "write" => content[n] = "whole"
  BY <1>1 DEF IoFull
<1>5. /\ p \in Paths /\ ent[t] \in Entries /\ Live(ent[t]) /\ entry[ent[t]].path = p
  BY <1>2, <1>3 DEF PoolInv, Shape, Locals, Op, Using
<1>6. \A u \in Threads : u # t => Stays(u)
  BY <1>3 DEF Others, Stays
<1>7. \A f \in Entries : Avail(f)' => Avail(f)
  BY <1>3, <1>6 DEF Avail, Stays
<1>8. \A f \in Entries : Avail(f) => Live(f) /\ entry[f].inode \in Inodes
  <2>1. \A f \in Entries : Avail(f) => Live(f)
    BY DEF PoolInv, Reached, Locals, Avail, Using
  <2> QED
    BY <2>1 DEF PoolInv, Shape, Live, Entry
<1>9. CASE op[t].kind # "write"
  <2>1. content' = content /\ content[n] = "whole"
    BY <1>3, <1>4, <1>9
  <2>2. Shrinks /\ Grows
    BY <1>3, <2>1 DEF Shrinks, Live, Grows, Clear
  <2>3. \A q \in Paths : NotWhole(q)' => NotWhole(q)
    BY <1>3, <1>6, <2>2, NotWholeKept DEF Stays
  <2>4. NoneWhole'
    BY <1>7, <2>2, <2>3, NoneWholeKept DEF GhostInv
  <2>5. FreshNamed'
    BY <1>3, <1>6, <2>2, FreshNamedKept DEF GhostInv, KeepsName
  <2>6. WriterNamed'
    BY <1>3, <1>6, <2>2, WriterNamedKept DEF GhostInv, Stays, Using
  <2>7. \A q \in Paths : ~Healer(t, q)
    BY <1>1, <1>3, <2>1 DEF Healer, Heals, Whole
  <2>8. Ghosts'
    BY <1>6, <2>2, <2>7, GhostsKept DEF GhostInv
  <2> QED
    BY <2>4, <2>5, <2>6, <2>8 DEF GhostInv
<1>10. CASE op[t].kind = "write"
  <2>1. Using(t) /\ content'[n] = "whole" /\ (Clear(p) => Writing(t))
    BY <1>2, <1>3, <1>10 DEF Writing, Using, Clear
  <2>2. Clear(p) /\ disk[p] # None => disk[p] = n
    BY <1>1, <1>2, <2>1 DEF GhostInv, WriterNamed
  <2>3. Clear(p) => \A u \in Threads : u # t /\ pc[u] # "idle" => op[u].path # p
    BY <1>2, <2>1, OthersAway
  <2>4. \A q \in Paths : q # p => disk[q] # n
    BY <1>1, <1>5, OwnPath
  <2>5. ASSUME NEW f \in Entries, Live(f), entry[f].path # p
        PROVE  Whole(f)' <=> Whole(f)
    <3>1. entry[f].inode # n /\ entry[f].inode \in Inodes
      BY <1>1, <1>5, <2>5 DEF FileInv, Owners, PoolInv, Shape, Live, Entry
    <3> QED
      BY <1>3, <3>1 DEF Whole
  <2>6. ASSUME NEW q \in Paths, NEW f \in Entries, NotWhole(q)', Avail(f)', entry'[f].path = q
        PROVE  ~Whole(f)'
    <3>1. q # p
      BY <1>2, <1>3, <1>6, <2>1, <2>2, <2>3, <2>6 DEF NotWhole, Stays, Clear
    <3>2. disk[q] # None => disk[q] \in Inodes /\ content'[disk[q]] = content[disk[q]]
      BY <1>3, <2>4, <3>1 DEF PoolInv, Shape
    <3>3. NotWhole(q)
      BY <1>3, <1>6, <2>6, <3>2 DEF NotWhole, Stays, Clear
    <3>4. Avail(f) /\ Live(f) /\ entry[f].path = q
      BY <1>3, <1>7, <1>8, <2>6
    <3>5. ~Whole(f)
      BY <3>3, <3>4 DEF GhostInv, NoneWhole
    <3> QED
      BY <2>5, <3>1, <3>4, <3>5
  <2>7. NoneWhole'
    BY <2>6 DEF NoneWhole
  <2>8. \A u \in Threads : u # t /\ Using(u) /\ Clear(op[u].path) =>
          ent[u] \in Entries /\ Live(ent[u]) /\ (Whole(ent[u])' <=> Whole(ent[u]))
    <3>1. \A u \in Threads : u # t /\ Using(u) /\ Clear(op[u].path) =>
            ent[u] \in Entries /\ Live(ent[u]) /\ entry[ent[u]].path # p
      <4>1. \A u \in Threads : Using(u) =>
              ent[u] \in Entries /\ Live(ent[u]) /\ entry[ent[u]].path = op[u].path
        BY DEF PoolInv, Shape, Locals
      <4>2. \A u \in Threads : Using(u) => pc[u] # "idle"
        BY DEF Using
      <4> QED
        BY <2>3, <4>1, <4>2
    <3>2. \A u \in Threads : ent[u] \in Entries /\ Live(ent[u]) /\ entry[ent[u]].path # p =>
            (content'[entry'[ent'[u]].inode] = "whole" <=> content[entry[ent[u]].inode] = "whole")
      BY <1>3, <2>5 DEF Whole
    <3> QED
      BY <3>1, <3>2 DEF Whole
  <2>9. FreshNamed'
    BY <1>3, <1>6, <2>8 DEF GhostInv, FreshNamed, Stays, Using, Clear
  <2>10. WriterNamed'
    BY <1>3, <1>6 DEF GhostInv, WriterNamed, Stays, Using, Writing, Clear
  <2>11. ASSUME NEW q \in Paths, Clear(q)', disk'[q] # None, content'[disk'[q]] = "empty"
         PROVE  \E u \in Threads : Healer(u, q)'
    <3>1. disk[q] # None /\ disk[q] # n /\ disk[q] \in Inodes
      BY <1>3, <2>1, <2>11 DEF PoolInv, Shape
    <3>2. Clear(q) /\ content[disk[q]] = "empty"
      BY <1>3, <2>11, <3>1 DEF Clear
    <3>3. PICK u \in Threads : Healer(u, q)
      BY <3>1, <3>2 DEF GhostInv, Ghosts
    <3>4. u # t
      BY <1>2, <2>2, <3>1, <3>2, <3>3 DEF Healer
    <3>5. Heals(u)'
      BY <1>6, <2>8, <3>2, <3>3, <3>4 DEF Healer, Heals, Stays, Using
    <3> QED
      BY <1>6, <3>3, <3>4, <3>5 DEF Healer, Stays
  <2>12. Ghosts'
    BY <2>11 DEF Ghosts
  <2> QED
    BY <2>7, <2>9, <2>10, <2>12 DEF GhostInv
<1> QED
  BY <1>9, <1>10

\* A write that comes up short leaves a file that is not whole, and no handle
\* on a whole one.
LEMMA IoShortGhost ==
  ASSUME PoolInv, PoolInv', FileInv, GhostInv, NEW t \in Threads, IoShort(t),
         mixed' = mixed, spoilt' = spoilt
  PROVE  GhostInv'
<1>1. PICK n : n = entry[ent[t]].inode
  OBVIOUS
<1>2. PICK p : p = op[t].path
  OBVIOUS
<1>3. /\ Others(t) /\ pc[t] = "io" /\ pc'[t] = "drop"
      /\ op' = op /\ ent' = ent /\ handles' = handles /\ entry' = entry
      /\ disk' = disk /\ n \in Inodes
      /\ \A m \in Inodes : m # n => content'[m] = content[m]
      /\ content' = content \/ (op[t].kind = "write" /\ content'[n] = "partial")
  BY <1>1, IoShortFacts
<1>4. /\ p \in Paths /\ ent[t] \in Entries /\ Live(ent[t]) /\ entry[ent[t]].path = p
  BY <1>2, <1>3 DEF PoolInv, Shape, Locals, Op, Using
<1>5. \A u \in Threads : u # t => Stays(u)
  BY <1>3 DEF Others, Stays
<1>6. \A f \in Entries : Avail(f)' => Avail(f)
  BY <1>3, <1>5 DEF Avail, Stays
<1>7. \A m \in Inodes : content'[m] = "whole" => content[m] = "whole"
  BY <1>3
<1>8. \A f \in Entries : Live(f) /\ Whole(f)' => Whole(f)
  BY <1>3, <1>7 DEF Whole, PoolInv, Shape, Live, Entry
<1>9. \A f \in Entries : Avail(f) => Live(f)
  BY DEF PoolInv, Reached, Locals, Avail, Using
<1>10. ASSUME NEW q \in Paths, NEW f \in Entries, NotWhole(q)', Avail(f)', entry'[f].path = q
       PROVE  ~Whole(f)'
  <2>1. Avail(f) /\ Live(f) /\ entry[f].path = q
    BY <1>3, <1>6, <1>9, <1>10
  <2>2. CASE NotWhole(q)
    BY <1>8, <2>1, <2>2 DEF GhostInv, NoneWhole
  <2>3. CASE ~NotWhole(q)
    <3>1. /\ Clear(q) /\ disk[q] # None
          /\ content[disk[q]] = "whole" /\ content'[disk[q]] # "whole"
      BY <1>3, <1>5, <1>10, <2>3 DEF NotWhole, Stays, Clear
    <3>2. disk[q] = n /\ op[t].kind = "write" /\ content'[n] = "partial"
      BY <1>3, <3>1 DEF PoolInv, Shape
    <3>3. q = p /\ Writing(t) /\ Using(t)
      <4>1. q = p
        BY <1>1, <1>3, <1>4, <3>2, OwnPath
      <4> QED
        BY <1>2, <1>3, <3>1, <3>2, <4>1 DEF Writing, Using, Clear
    <3>4. f = ent[t]
      BY <1>2, <2>1, <3>3, WriterEntry
    <3> QED
      BY <1>1, <1>3, <3>2, <3>4 DEF Whole
  <2> QED
    BY <2>2, <2>3
<1>11. NoneWhole'
  BY <1>10 DEF NoneWhole
<1>12. \A u \in Threads : Using(u) => ent[u] \in Entries /\ (Whole(ent[u])' => Whole(ent[u]))
  <2>1. \A u \in Threads : Using(u) => ent[u] \in Entries /\ Live(ent[u])
    BY DEF PoolInv, Shape, Locals
  <2>2. \A u \in Threads : ent[u] \in Entries /\ Live(ent[u]) =>
          (content'[entry'[ent'[u]].inode] = "whole" => content[entry[ent[u]].inode] = "whole")
    BY <1>3, <1>8 DEF Whole
  <2> QED
    BY <2>1, <2>2 DEF Whole
<1>13. FreshNamed'
  BY <1>3, <1>5, <1>12 DEF GhostInv, FreshNamed, Stays, Using, Clear
<1>14. WriterNamed'
  BY <1>3, <1>5 DEF GhostInv, WriterNamed, Stays, Using, Writing, Clear
<1>15. ASSUME NEW q \in Paths, Clear(q)', disk'[q] # None, content'[disk'[q]] = "empty"
       PROVE  \E u \in Threads : Healer(u, q)'
  <2>1. Clear(q) /\ disk[q] # None /\ content[disk[q]] = "empty"
    BY <1>3, <1>15 DEF PoolInv, Shape, Clear
  <2>2. PICK u \in Threads : Healer(u, q)
    BY <2>1 DEF GhostInv, Ghosts
  <2>3. Heals(u)'
    BY <1>3, <1>5, <1>12, <2>2 DEF Healer, Heals, Stays, Using
  <2> QED
    BY <1>3, <1>5, <2>2, <2>3 DEF Healer, Stays
<1>16. Ghosts'
  BY <1>15 DEF Ghosts
<1> QED
  BY <1>11, <1>13, <1>14, <1>16 DEF GhostInv

\* A release is by a thread whose file was whole.
LEMMA ReleaseHandleGhost ==
  ASSUME PoolInv, PoolInv', GhostInv, NEW t \in Threads, ReleaseHandle(t),
         mixed' = mixed, spoilt' = spoilt
  PROVE  GhostInv'
<1>1. /\ Shrinks /\ Others(t) /\ pc[t] = "release" /\ pc'[t] = "idle"
      /\ handles' = handles /\ disk' = disk
  BY ReleaseFiles
<1> Grows
  BY DEF Grows, Clear
<1>2. \A u \in Threads : u # t => Stays(u)
  BY <1>1 DEF Others, Stays
<1>3. \A q \in Paths : NotWhole(q)' => NotWhole(q)
  BY <1>1, <1>2, NotWholeKept DEF Stays
<1>4. \A e \in Entries : Avail(e)' => Avail(e)
  BY <1>1, <1>2 DEF Avail, Stays
<1>5. NoneWhole'
  BY <1>1, <1>3, <1>4, NoneWholeKept DEF GhostInv
<1>6. FreshNamed'
  BY <1>1, <1>2, FreshNamedKept DEF GhostInv, KeepsName
<1>7. WriterNamed'
  BY <1>1, <1>2, WriterNamedKept DEF GhostInv, Stays, Using
<1>8. \A q \in Paths : ~Healer(t, q)
  BY <1>1 DEF Healer, Heals
<1>9. Ghosts'
  BY <1>1, <1>2, <1>8, GhostsKept DEF GhostInv
<1> QED
  BY <1>5, <1>6, <1>7, <1>9 DEF GhostInv

\* A thread that dropped its handle comes back for an empty file.
LEMMA DropHandleGhost ==
  ASSUME PoolInv, PoolInv', GhostInv, NEW t \in Threads, DropHandle(t),
         mixed' = mixed, spoilt' = spoilt
  PROVE  GhostInv'
<1>1. /\ Shrinks /\ Others(t) /\ pc[t] = "drop" /\ pc'[t] \in {"get", "unlink"}
      /\ op'[t].path = op[t].path /\ (pc'[t] = "get" => op'[t].attempt = 1)
      /\ disk' = disk
      /\ ToSet(handles') = {e \in ToSet(handles) : entry[e].path # op[t].path}
  BY DropFiles
<1> Grows
  BY DEF Grows, Clear
<1>2. \A u \in Threads : u # t => Stays(u)
  BY <1>1 DEF Others, Stays
<1>3. \A q \in Paths : NotWhole(q)' => NotWhole(q)
  BY <1>1, <1>2, NotWholeKept DEF Stays
<1>4. \A e \in Entries : Avail(e)' => Avail(e)
  BY <1>1, <1>2 DEF Avail, Stays
<1>5. NoneWhole'
  BY <1>1, <1>3, <1>4, NoneWholeKept DEF GhostInv
<1>6. FreshNamed'
  BY <1>1, <1>2, FreshNamedKept DEF GhostInv, KeepsName
<1>7. WriterNamed'
  BY <1>1, <1>2, WriterNamedKept DEF GhostInv, Stays, Using
<1>8. \A q \in Paths : Healer(t, q) => Healer(t, q)'
  BY <1>1 DEF Healer, Heals
<1>9. Ghosts'
  BY <1>1, <1>2, <1>8, GhostsKept DEF GhostInv
<1> QED
  BY <1>5, <1>6, <1>7, <1>9 DEF GhostInv

\* An unlink takes the file of p away, or leaves p to be exempt.
Unlinks(p) ==
  /\ \A q \in Paths : q # p => disk'[q] = disk[q]
  /\ Clear(p)' => disk'[p] = None

\* It takes a whole file from others only at that price.
Spares(p, users) == HasFile(p, "whole") /\ users # {} => ~Clear(p)'

\* An unlink leaves nobody with a handle on a whole file that has no name.
LEMMA UnlinkGhost ==
  ASSUME PoolInv, PoolInv', GhostInv, Shrinks, Grows, NEW p \in Paths, NEW users,
         Unlinks(p), Spares(p, users),
         \A f \in ToSet(handles') : f \in ToSet(handles),
         \A u \in Threads : Stays(u) \/ (pc'[u] = "idle" /\ ~(pc[u] \in {"open", "insert"})),
         \A u \in Threads : Stays(u) /\ pc[u] # "idle" /\ op[u].path = p => u \in users,
         \A u \in Threads, q \in Paths : Healer(u, q) => Stays(u) \/ q = p
  PROVE  GhostInv'
<1>1. \A u \in Threads : Stays(u) \/ pc'[u] = "idle"
  OBVIOUS
<1>2. ASSUME NEW q \in Paths, NotWhole(q)'
      PROVE  NotWhole(q)
  <2>1. CASE q # p
    <3>1. \A u \in Threads : pc'[u] = "open" => pc[u] = "open" /\ op'[u].path = op[u].path
      BY <1>1 DEF Stays
    <3>2. disk'[q] = disk[q]
      BY <2>1 DEF Unlinks
    <3> QED
      BY <1>2, <3>1, <3>2, NotWholeKept
  <2>2. CASE q = p
    <3>1. Clear(p)' /\ Clear(p) /\ disk'[p] = None
      BY <1>2, <2>2 DEF NotWhole, Unlinks, Grows
    <3>2. PICK u \in Threads : pc'[u] = "open" /\ op'[u].path = p
      BY <1>2, <2>2, <3>1 DEF NotWhole
    <3>3. Stays(u) /\ pc[u] = "open" /\ op[u].path = p
      BY <1>1, <3>2 DEF Stays
    <3>4. ~HasFile(p, "whole")
      BY <3>1, <3>3 DEF Spares
    <3> QED
      BY <2>2, <3>1, <3>3, <3>4 DEF NotWhole, HasFile
  <2> QED
    BY <2>1, <2>2
<1>3. \A e \in Entries : Avail(e)' => Avail(e)
  BY <1>1 DEF Avail, Stays
<1>4. NoneWhole'
  BY <1>2, <1>3, NoneWholeKept DEF GhostInv
<1>5. \A u \in Threads : pc'[u] = "insert" => Stays(u)
  BY <1>1
<1>6. ASSUME NEW u \in Threads, pc'[u] = "insert", Clear(op[u].path)'
      PROVE  KeepsName(u) \/ ~Whole(ent[u])
  <2>1. Stays(u) /\ pc[u] = "insert" /\ op'[u] = op[u]
    BY <1>5, <1>6 DEF Stays
  <2>2. op[u].path \in Paths
    BY <2>1 DEF PoolInv, Shape, Locals, Op
  <2>3. CASE op[u].path # p
    BY <2>2, <2>3 DEF KeepsName, Unlinks
  <2>4. CASE op[u].path = p
    <3>1. Clear(p)' /\ Clear(p)
      BY <1>6, <2>1, <2>4 DEF Grows, Clear
    <3>2. ~HasFile(p, "whole")
      BY <2>1, <2>4, <3>1 DEF Spares
    <3>3. entry[ent[u]].inode # None
      BY <2>1, NoneApart DEF PoolInv, Shape, Locals, Using, Live, Entry
    <3> QED
      BY <2>1, <2>4, <3>1, <3>2, <3>3 DEF GhostInv, FreshNamed, Whole, HasFile
  <2> QED
    BY <2>3, <2>4
<1>7. FreshNamed'
  BY <1>5, <1>6, FreshNamedKept DEF GhostInv
<1>8. WriterNamed'
  BY <1>1, WriterNamedKept DEF GhostInv, Stays, Using
<1>9. \A u \in Threads, q \in Paths :
        Clear(q)' /\ disk'[q] # None /\ Healer(u, q) => Stays(u)
  BY DEF Unlinks
<1>10. Ghosts'
  BY <1>9, GhostsKept DEF GhostInv
<1> QED
  BY <1>4, <1>7, <1>8, <1>10 DEF GhostInv

\* The unlink that ends a failed operation.
LEMMA UnlinkFailedGhost ==
  ASSUME PoolInv, PoolInv', GhostInv, NEW t \in Threads, UnlinkFailed(t), mixed' = mixed
  PROVE  GhostInv'
<1> PICK p : p = op[t].path
  OBVIOUS
<1>1. /\ Shrinks /\ Others(t) /\ pc[t] = "unlink" /\ pc'[t] = "idle"
      /\ handles' = handles /\ p \in Paths
      /\ \A q \in Paths : q # p => disk'[q] = disk[q]
  BY UnlinkFailedFiles
<1>2. \/ /\ disk'[p] = None
         /\ spoilt' = IF HasFile(p, "whole") /\ InUse(p) \ {t} # {} THEN spoilt \cup {p} ELSE spoilt
      \/ spoilt' = spoilt \cup {p}
  BY UnlinkFailedFiles
<1>3. Grows /\ Unlinks(p) /\ Spares(p, InUse(p) \ {t})
  BY <1>1, <1>2 DEF Grows, Clear, Unlinks, Spares
<1>4. \A u \in Threads : u # t => Stays(u)
  BY <1>1 DEF Others, Stays
<1>5. \A u \in Threads : Stays(u) /\ pc[u] # "idle" /\ op[u].path = p => u \in InUse(p) \ {t}
  BY <1>1 DEF InUse, Stays
<1>6. \A u \in Threads, q \in Paths : Healer(u, q) => Stays(u) \/ q = p
  BY <1>4 DEF Healer
<1> QED
  BY <1>1, <1>3, <1>4, <1>5, <1>6, UnlinkGhost

\* An unlink by the GC.
LEMMA GcUnlinkGhost ==
  ASSUME PoolInv, PoolInv', GhostInv, NEW p \in Paths, GcUnlink(p)
  PROVE  GhostInv'
<1>1. /\ Shrinks /\ pc' = pc /\ op' = op /\ ent' = ent /\ handles' = handles
      /\ mixed' = mixed
      /\ spoilt' = IF HasFile(p, "whole") /\ InUse(p) # {} THEN spoilt \cup {p} ELSE spoilt
      /\ disk'[p] = None /\ \A q \in Paths : q # p => disk'[q] = disk[q]
  BY GcUnlinkFiles
<1>2. Grows /\ Unlinks(p) /\ Spares(p, InUse(p))
  BY <1>1 DEF Grows, Clear, Unlinks, Spares
<1>3. \A u \in Threads : Stays(u)
  BY <1>1 DEF Stays
<1>4. \A u \in Threads : pc[u] # "idle" /\ op[u].path = p => u \in InUse(p)
  BY DEF InUse
<1> QED
  BY <1>1, <1>2, <1>3, <1>4, UnlinkGhost

\* A step that touches neither a thread nor the cache nor a file.
LEMMA StutterGhost ==
  ASSUME PoolInv, GhostInv, mixed' = mixed, spoilt' = spoilt,
         pc' = pc, op' = op, ent' = ent, handles' = handles, entry' = entry,
         disk' = disk, content' = content
  PROVE  GhostInv'
<1>1. \A p : (NotWhole(p)' <=> NotWhole(p)) /\ (Clear(p)' <=> Clear(p))
  BY DEF NotWhole, Clear
<1>2. \A e : (Whole(e)' <=> Whole(e)) /\ (Avail(e)' <=> Avail(e))
  BY DEF Whole, Avail
<1>3. NoneWhole'
  BY <1>1, <1>2 DEF GhostInv, NoneWhole
<1>4. FreshNamed' /\ WriterNamed'
  BY DEF GhostInv, FreshNamed, WriterNamed, Clear, Whole, Writing, Using
<1>5. Ghosts'
  BY DEF GhostInv, Ghosts, Clear, Healer, Heals, Whole
<1> QED
  BY <1>3, <1>4, <1>5 DEF GhostInv

\* No thread and no handle is on a path, and the empty files are known.
LEMMA FreshGhost ==
  ASSUME \A t \in Threads : pc[t] = "idle", ToSet(handles) = {},
         \A p \in Paths : HasFile(p, "empty") => p \in spoilt
  PROVE  GhostInv
<1>1. NoneWhole /\ FreshNamed /\ WriterNamed
  BY DEF NoneWhole, FreshNamed, WriterNamed, Avail, Using
<1>2. Ghosts
  BY DEF Ghosts, Clear, HasFile
<1> QED
  BY <1>1, <1>2 DEF GhostInv

\* What an earlier run left empty is known.
LEMMA InitGhost ==
  ASSUME Init
  PROVE  GhostInv
<1>1. \A t \in Threads : pc[t] = "idle"
  BY DEF Init
<1>2. ToSet(handles) = {}
  BY DEF Init, ToSet
<1>3. \A p \in Paths : HasFile(p, "empty") => p \in spoilt
  BY DEF Init
<1> QED
  BY <1>1, <1>2, <1>3, FreshGhost

\* A restart makes no empty file.
LEMMA RestartGhost ==
  ASSUME PoolInv, Restart
  PROVE  GhostInv'
<1>1. /\ disk' = disk /\ ToSet(handles') = {}
      /\ \A t \in Threads : pc'[t] = "idle"
  BY RestartFiles
<1>2. ASSUME NEW p \in Paths, HasFile(p, "empty")'
      PROVE  p \in spoilt'
  <2>1. PICK torn :
          content' = [n \in Inodes |-> IF n \notin Range(disk) THEN "empty"
                                       ELSE IF n \in torn THEN "partial" ELSE content[n]]
    BY DEF Restart
  <2>2. disk[p] # None /\ disk[p] \in Inodes /\ disk[p] \in Range(disk)
    BY <1>1, <1>2 DEF HasFile, PoolInv, Shape, Range
  <2>3. content[disk[p]] = "empty"
    BY <1>1, <1>2, <2>1, <2>2 DEF HasFile
  <2> QED
    BY <2>2, <2>3 DEF Restart, HasFile
<1>3. NoneWhole' /\ FreshNamed' /\ WriterNamed'
  BY <1>1 DEF NoneWhole, FreshNamed, WriterNamed, Avail, Using
<1>4. Ghosts'
  BY <1>2 DEF Ghosts, Clear, HasFile
<1> QED
  BY <1>3, <1>4 DEF GhostInv

\* Only an unlink and a restart change what is spoilt.
LEMMA SpoiltKept ==
  ASSUME NEW t \in Threads, Step(t)
  PROVE  spoilt' = spoilt \/ UnlinkFailed(t)
BY DEF Step, CacheHit, CacheMiss, OpenHandle, OpenFails, InsertHandle, IoFull, IoShort,
   ReleaseHandle, DropHandle, auxVars

\* Every step leaves each empty file to its maker.
LEMMA StepGhost ==
  ASSUME PoolInv, PoolInv', FileInv, GhostInv, [Next]_vars
  PROVE  GhostInv'
<1>1. CASE \E t \in Threads, kind \in {"write", "read"}, p \in Paths : Begin(t, kind, p)
  BY <1>1, BeginGhost
<1>2. ASSUME NEW t \in Threads, Step(t)
      PROVE  GhostInv'
  <2> mixed' = mixed
    BY <1>2, MixedKept
  <2>1. CASE UnlinkFailed(t)
    BY <2>1, UnlinkFailedGhost
  <2>2. CASE ~UnlinkFailed(t)
    <3> spoilt' = spoilt
      BY <1>2, <2>2, SpoiltKept
    <3>1. CASE CacheHit(t) \/ CacheMiss(t) \/ OpenHandle(t) \/ OpenFails(t)
      BY <3>1, CacheHitGhost, CacheMissGhost, OpenHandleGhost, OpenFailsGhost
    <3>2. CASE InsertHandle(t) \/ IoFull(t) \/ IoShort(t) \/ ReleaseHandle(t) \/ DropHandle(t)
      BY <3>2, InsertHandleGhost, IoFullGhost, IoShortGhost, ReleaseHandleGhost, DropHandleGhost
    <3> QED
      BY <1>2, <2>2, <3>1, <3>2 DEF Step
  <2> QED
    BY <2>1, <2>2
<1>3. ASSUME NEW p \in Paths, GcUnlink(p)
      PROVE  GhostInv'
  BY <1>3, GcUnlinkGhost
<1>4. CASE Restart
  BY <1>4, RestartGhost
<1>5. CASE UNCHANGED vars
  BY <1>5, StutterGhost DEF vars, fsVars, auxVars
<1> QED
  BY <1>1, <1>2, <1>3, <1>4, <1>5 DEF Next

\* Every empty file on a clear path has somebody who will fill it or unlink it.
THEOREM GhostInvariance == Spec => [](PoolInv /\ FileInv /\ GhostInv)
<1>1. Init => PoolInv /\ FileInv /\ GhostInv
  BY InitInv, InitFile, InitGhost
<1>2. PoolInv /\ FileInv /\ GhostInv /\ [Next]_vars => (PoolInv /\ FileInv /\ GhostInv)'
  BY StepInv, StepFile, StepGhost
<1> QED
  BY <1>1, <1>2, PTL DEF Spec

\* A read that creates the file it looks for also removes it: through every overlap
\* of reads, every eviction, sweep and transient failure, no empty file outlives
\* the operations on its path, but for the exemptions that NoGhostFile names.
THEOREM NoGhostFileStays == Spec => []NoGhostFile
<1>1. PoolInv /\ FileInv /\ GhostInv => NoGhostFile
  <2> SUFFICES ASSUME GhostInv, NEW p \in Paths, p \notin mixed, p \notin spoilt,
                      InUse(p) = {}, HasFile(p, "empty")
               PROVE  FALSE
    BY DEF NoGhostFile
  <2>1. PICK t \in Threads : Healer(t, p)
    BY DEF GhostInv, Ghosts, Clear, HasFile
  <2> QED
    BY <2>1 DEF Healer, InUse
<1> QED
  BY <1>1, GhostInvariance, PTL
=============================================================================
