--------------------- MODULE GdsOffloadingManager_proofs ----------------------
(***************************************************************************)
(* Theorems about GdsOffloadingManager, for every finite set of chunks and *)
(* of transfer jobs, with and without failure reports, and for any number  *)
(* of resets and crashes.                                                  *)
(***************************************************************************)
EXTENDS GdsOffloadingManager, FiniteSetTheorems, TLAPS

-----------------------------------------------------------------------------
(* The inductive invariant. *)

\* The uses of chunks by the jobs in flight of a kind, as pairs <<job, key>>.
Uses(kind) ==
  {u \in Jobs \X Keys :
     InFlight(u[1]) /\ job[u[1]].kind = kind /\ u[2] \in job[u[1]].keys}

\* The counters count uses: the one of the loads always, the one of the stores
\* until a reset zeroes it, after which it may lag behind.
Counted ==
  /\ inflightLoads = Cardinality(Uses("load"))
  /\ inflightStores \in 0..Cardinality(Uses("store"))
  /\ resets = 0 => inflightStores = Cardinality(Uses("store"))

\* Until a reset, a chunk is used by the job its entry is about and no other.
UsedOnce ==
  resets = 0 =>
    \A k \in Keys :
      /\ \A i, j \in JobsOn(k) : i = j
      /\ entries[k] = "store_inflight" <=> \E j \in JobsOn(k) : job[j].kind = "store"
      /\ entries[k] = "load_inflight" <=> \E j \in JobsOn(k) : job[j].kind = "load"

\* What TypeOK says of the variables that count nothing.
Shape ==
  /\ entries \in [Keys -> States \cup {None}]
  /\ known \in [Keys -> {"unknown", "present", "missing"}]
  /\ protected \in [Keys -> Nat]
  /\ doomed \subseteq Keys
  /\ file \in [Keys -> {"absent", "partial", "whole"}]
  /\ job \in [Jobs -> Job \cup {None}]
  /\ resets \in 0..MaxResets

MgrInv == Shape /\ Counted /\ UsedOnce /\ ProtectedExact

-----------------------------------------------------------------------------
(* The three things a step can do to the jobs in flight. *)

\* A job of a kind starts on the keys in K.
Starts(j, kind, K) ==
  /\ ~InFlight(j)
  /\ job' = [job EXCEPT ![j] = [kind |-> kind, keys |-> K, outcome |-> "running"]]

\* A job is reported complete and its identity is free again.
Completes(j) == InFlight(j) /\ job' = [job EXCEPT ![j] = None]

\* The jobs stay in flight with their keys; an outcome may become known.
SameJobs ==
  /\ job' \in [Jobs -> Job \cup {None}]
  /\ \A j \in Jobs :
       /\ InFlight(j)' <=> InFlight(j)
       /\ InFlight(j) => job'[j].kind = job[j].kind /\ job'[j].keys = job[j].keys

\* The sets that the invariant counts are finite, the uses at most one for each
\* job and chunk.
LEMMA FiniteUses ==
  /\ \A k \in Keys : IsFiniteSet(JobsOn(k)) /\ Cardinality(JobsOn(k)) \in 0..Cardinality(Jobs)
  /\ \A kind : IsFiniteSet(Uses(kind)) /\ Cardinality(Uses(kind)) \in 0..MaxInFlight
  /\ \A K \in SUBSET Keys : IsFiniteSet(K) /\ Cardinality(K) \in Nat
  /\ MaxInFlight \in Nat
<1>1. IsFiniteSet(Jobs) /\ IsFiniteSet(Keys) /\ Cardinality(Jobs) \in Nat /\ Cardinality(Keys) \in Nat
  BY ManagerAssumption, FS_CardinalityType
<1>2. IsFiniteSet(Jobs \X Keys) /\ Cardinality(Jobs \X Keys) = MaxInFlight
  BY <1>1, FS_Product DEF MaxInFlight
<1>3. MaxInFlight \in Nat
  BY <1>2, FS_CardinalityType
<1>4. ASSUME NEW k \in Keys
      PROVE  IsFiniteSet(JobsOn(k)) /\ Cardinality(JobsOn(k)) \in 0..Cardinality(Jobs)
  <2>1. JobsOn(k) \in SUBSET Jobs
    BY DEF JobsOn
  <2>2. IsFiniteSet(JobsOn(k)) /\ Cardinality(JobsOn(k)) <= Cardinality(Jobs)
    BY <1>1, <2>1, FS_Subset
  <2> QED BY <1>1, <2>2, FS_CardinalityType
<1>5. ASSUME NEW kind
      PROVE  IsFiniteSet(Uses(kind)) /\ Cardinality(Uses(kind)) \in 0..MaxInFlight
  <2>1. Uses(kind) \in SUBSET (Jobs \X Keys)
    BY DEF Uses
  <2>2. IsFiniteSet(Uses(kind)) /\ Cardinality(Uses(kind)) <= MaxInFlight
    BY <1>2, <2>1, FS_Subset
  <2> QED BY <1>3, <2>2, FS_CardinalityType
<1>6. ASSUME NEW K \in SUBSET Keys
      PROVE  IsFiniteSet(K) /\ Cardinality(K) \in Nat
  BY <1>1, FS_Subset, FS_CardinalityType
<1> QED BY <1>3, <1>4, <1>5, <1>6

\* A job that starts adds itself to the jobs on its keys and, for its kind, one
\* use for each of them.
LEMMA StartsUses ==
  ASSUME job \in [Jobs -> Job \cup {None}], NEW j \in Jobs, NEW kind \in {"store", "load"},
         NEW K \in (SUBSET Keys) \ {{}}, Starts(j, kind, K)
  PROVE  /\ job' \in [Jobs -> Job \cup {None}]
         /\ \A k \in Keys : JobsOn(k)' = IF k \in K THEN JobsOn(k) \cup {j} ELSE JobsOn(k)
         /\ \A k \in Keys : j \notin JobsOn(k)
         /\ \A i \in Jobs \ {j} : job'[i] = job[i]
         /\ job'[j].kind = kind
         /\ Cardinality(Uses(kind)') = Cardinality(Uses(kind)) + Cardinality(K)
         /\ \A other \in {"store", "load"} \ {kind} : Uses(other)' = Uses(other)
<1> DEFINE new == [kind |-> kind, keys |-> K, outcome |-> "running"]
<1>1. new \in Job /\ new # None /\ new.kind = kind /\ new.keys = K
  BY NoneAssumption DEF Job
<1>2. job' = [job EXCEPT ![j] = new] /\ job[j] = None
  BY DEF Starts, InFlight
<1> HIDE DEF new
<1>3. job' \in [Jobs -> Job \cup {None}] /\ job'[j] = new /\ \A i \in Jobs \ {j} : job'[i] = job[i]
  BY <1>1, <1>2
<1>4. \A k \in Keys : JobsOn(k)' = IF k \in K THEN JobsOn(k) \cup {j} ELSE JobsOn(k)
  BY <1>1, <1>2, <1>3 DEF JobsOn, InFlight
<1>5. \A k \in Keys : j \notin JobsOn(k)
  BY <1>2 DEF JobsOn, InFlight
<1>6. Uses(kind)' = Uses(kind) \cup ({j} \X K)
  BY <1>1, <1>2, <1>3 DEF Uses, InFlight
<1>7. Uses(kind) \cap ({j} \X K) = {}
  BY <1>2 DEF Uses, InFlight
<1>8. \A other \in {"store", "load"} \ {kind} : Uses(other)' = Uses(other)
  BY <1>1, <1>2, <1>3 DEF Uses, InFlight
<1>9. IsFiniteSet({j} \X K) /\ Cardinality({j} \X K) = Cardinality(K)
  <2>1. IsFiniteSet({j}) /\ Cardinality({j}) = 1 /\ IsFiniteSet(K) /\ Cardinality(K) \in Nat
    BY FS_Singleton, FiniteUses
  <2> QED BY <2>1, FS_Product
<1>10. Cardinality(Uses(kind)') = Cardinality(Uses(kind)) + Cardinality(K)
  <2>1. IsFiniteSet(Uses(kind)) /\ Cardinality(Uses(kind)) \in Nat /\ Cardinality(K) \in Nat
    BY FiniteUses
  <2>2. Cardinality(Uses(kind) \cup ({j} \X K))
          = Cardinality(Uses(kind)) + Cardinality({j} \X K) - Cardinality(Uses(kind) \cap ({j} \X K))
    BY <2>1, <1>9, FS_Union
  <2>3. Cardinality(Uses(kind) \cap ({j} \X K)) = 0
    BY <1>7, FS_EmptySet
  <2>4. Cardinality(Uses(kind) \cup ({j} \X K)) = Cardinality(Uses(kind)) + Cardinality(K)
    BY <2>1, <2>2, <2>3, <1>9
  <2> QED BY <2>4, <1>6
<1> QED BY <1>1, <1>3, <1>4, <1>5, <1>8, <1>10

\* A job that completes leaves the jobs on its keys and takes its uses along.
LEMMA CompletesUses ==
  ASSUME job \in [Jobs -> Job \cup {None}], NEW j \in Jobs, Completes(j),
         NEW kind, NEW K, job[j].kind = kind, job[j].keys = K
  PROVE  /\ job' \in [Jobs -> Job \cup {None}]
         /\ kind \in {"store", "load"} /\ K \in (SUBSET Keys) \ {{}}
         /\ \A k \in Keys : JobsOn(k)' = JobsOn(k) \ {j}
         /\ \A k \in Keys : j \in JobsOn(k) <=> k \in K
         /\ \A i \in Jobs \ {j} : job'[i] = job[i]
         /\ Cardinality(Uses(kind)') = Cardinality(Uses(kind)) - Cardinality(K)
         /\ Cardinality(K) <= Cardinality(Uses(kind))
         /\ \A other \in {"store", "load"} \ {kind} : Uses(other)' = Uses(other)
<1>1. job[j] \in Job /\ job[j] # None /\ K \in (SUBSET Keys) \ {{}} /\ kind \in {"store", "load"}
  BY DEF Completes, InFlight, Job
<1>2. job' = [job EXCEPT ![j] = None]
  BY DEF Completes
<1>3. job' \in [Jobs -> Job \cup {None}] /\ job'[j] = None /\ \A i \in Jobs \ {j} : job'[i] = job[i]
  BY <1>2
<1>4. \A k \in Keys : JobsOn(k)' = JobsOn(k) \ {j}
  BY <1>3 DEF JobsOn, InFlight
<1>5. \A k \in Keys : j \in JobsOn(k) <=> k \in K
  BY <1>1 DEF JobsOn, InFlight
<1>6. Uses(kind)' = Uses(kind) \ ({j} \X K)
  <2>1. ASSUME NEW u \in Jobs \X Keys
        PROVE  u \in Uses(kind)' <=> u \in Uses(kind) /\ u \notin {j} \X K
    <3>1. CASE u[1] = j
      BY <1>1, <1>3, <3>1 DEF Uses, InFlight
    <3>2. CASE u[1] # j
      BY <1>3, <3>2 DEF Uses, InFlight
    <3> QED BY <3>1, <3>2
  <2>2. Uses(kind)' \subseteq Jobs \X Keys /\ Uses(kind) \subseteq Jobs \X Keys
    BY DEF Uses
  <2> QED BY <2>1, <2>2
<1>7. {j} \X K \subseteq Uses(kind)
  BY <1>1 DEF Uses, InFlight
<1>8. \A other \in {"store", "load"} \ {kind} : Uses(other)' = Uses(other)
  BY <1>1, <1>3 DEF Uses, InFlight
<1>9. IsFiniteSet({j} \X K) /\ Cardinality({j} \X K) = Cardinality(K)
  <2>1. IsFiniteSet({j}) /\ Cardinality({j}) = 1 /\ IsFiniteSet(K) /\ Cardinality(K) \in Nat
    BY <1>1, FS_Singleton, FiniteUses
  <2>2. /\ IsFiniteSet({j} \X K)
        /\ Cardinality({j} \X K) = Cardinality({j}) * Cardinality(K)
    BY <2>1, FS_Product
  <2> QED BY <2>1, <2>2
<1>10. /\ Cardinality(Uses(kind)') = Cardinality(Uses(kind)) - Cardinality(K)
       /\ Cardinality(K) <= Cardinality(Uses(kind))
  <2>1. IsFiniteSet(Uses(kind))
    BY FiniteUses
  <2>2. Cardinality(Uses(kind) \ ({j} \X K))
          = Cardinality(Uses(kind)) - Cardinality(Uses(kind) \cap ({j} \X K))
    BY <2>1, FS_Difference
  <2>3. Uses(kind) \cap ({j} \X K) = {j} \X K
    BY <1>7
  <2>4. Cardinality({j} \X K) <= Cardinality(Uses(kind))
    BY <1>7, <2>1, FS_Subset
  <2> QED BY <2>2, <2>3, <2>4, <1>6, <1>9
<1> QED BY <1>1, <1>3, <1>4, <1>5, <1>8, <1>10

\* While the jobs stay the same, nothing that is counted changes.
LEMMA SameJobsUses ==
  ASSUME job \in [Jobs -> Job \cup {None}], SameJobs
  PROVE  /\ \A k \in Keys : JobsOn(k)' = JobsOn(k)
         /\ \A kind : Uses(kind)' = Uses(kind)
BY DEF SameJobs, JobsOn, Uses, InFlight

-----------------------------------------------------------------------------
(* Every step keeps the invariant. *)

\* What the lookup cache, the workers and the sweep do to the manager: nothing.
Elsewhere == SameJobs /\ Shape' /\ UNCHANGED <<mgrVars, protected, resets>>

\* The steps that are not the manager's own leave its state as it is.
LEMMA OthersElsewhere ==
  ASSUME Shape,
         \/ \E k \in Keys : Lookup(k) \/ AsyncResolve(k) \/ Cleanup(k)
         \/ \E j \in Jobs : StoreEnds(j) \/ LoadEnds(j)
         \/ \E j \in Jobs, k \in Keys : WriteBegins(j, k)
         \/ SweepChooses
         \/ \E k \in Keys : SweepUnlinks(k)
         \/ UNCHANGED vars
  PROVE  Elsewhere
<1>1. ASSUME NEW k \in Keys, Lookup(k) \/ AsyncResolve(k) \/ Cleanup(k)
      PROVE  Elsewhere
  BY <1>1 DEF Lookup, AsyncResolve, Cleanup, Elsewhere, SameJobs, Shape, InFlight, mgrVars
<1>2. ASSUME NEW j \in Jobs, StoreEnds(j) \/ LoadEnds(j)
      PROVE  Elsewhere
  <2>1. InFlight(j) /\ job[j] \in Job
    BY <1>2 DEF StoreEnds, LoadEnds, Running, Shape, InFlight
  <2>2. PICK failed : End(j, failed)
    BY <1>2 DEF StoreEnds, LoadEnds
  <2>3. PICK outcome \in {"ok", "failed"} : job' = [job EXCEPT ![j].outcome = outcome]
    BY <2>2 DEF End
  <2> DEFINE new == [job[j] EXCEPT !.outcome = outcome]
  <2>4. new \in Job /\ new # None /\ new.kind = job[j].kind /\ new.keys = job[j].keys
    BY <2>1, NoneAssumption DEF Job
  <2>5. job' = [job EXCEPT ![j] = new]
    BY <2>3
  <2> HIDE DEF new
  <2>6. SameJobs
    BY <2>1, <2>4, <2>5 DEF SameJobs, InFlight, Shape
  <2>7. file' \in [Keys -> {"absent", "partial", "whole"}]
    BY <1>2 DEF StoreEnds, LoadEnds, Shape
  <2> QED BY <1>2, <2>6, <2>7 DEF StoreEnds, LoadEnds, Elsewhere, SameJobs, Shape, mgrVars
<1>3. ASSUME NEW j \in Jobs, NEW k \in Keys, WriteBegins(j, k)
      PROVE  Elsewhere
  BY <1>3 DEF WriteBegins, Elsewhere, SameJobs, Shape, InFlight, mgrVars
<1>4. ASSUME SweepChooses
      PROVE  Elsewhere
  BY <1>4 DEF SweepChooses, Elsewhere, SameJobs, Shape, InFlight, mgrVars
<1>5. ASSUME NEW k \in Keys, SweepUnlinks(k)
      PROVE  Elsewhere
  BY <1>5 DEF SweepUnlinks, Elsewhere, SameJobs, Shape, InFlight, mgrVars
<1>6. ASSUME UNCHANGED vars
      PROVE  Elsewhere
  BY <1>6 DEF vars, Elsewhere, SameJobs, Shape, InFlight, mgrVars
<1> QED BY <1>1, <1>2, <1>3, <1>4, <1>5, <1>6

\* What leaves the manager's state and the jobs' keys as they are keeps the
\* invariant: it counts nothing else.
LEMMA ElsewhereInv ==
  ASSUME MgrInv, Elsewhere
  PROVE  MgrInv'
<1>1. job \in [Jobs -> Job \cup {None}] /\ SameJobs
  BY DEF MgrInv, Shape, Elsewhere
<1>2. (\A k \in Keys : JobsOn(k)' = JobsOn(k)) /\ \A kind : Uses(kind)' = Uses(kind)
  BY <1>1, SameJobsUses
<1>3. Counted'
  BY <1>2 DEF MgrInv, Counted, Elsewhere, mgrVars
<1>4. ProtectedExact'
  BY <1>2 DEF MgrInv, ProtectedExact, Elsewhere
<1>5. UsedOnce'
  <2>1. \A k \in Keys, j \in Jobs : j \in JobsOn(k) => job'[j].kind = job[j].kind
    BY <1>1 DEF SameJobs, JobsOn
  <2>2. \A k \in Keys : JobsOn(k) \subseteq Jobs
    BY DEF JobsOn
  <2> QED BY <1>2, <2>1, <2>2 DEF MgrInv, UsedOnce, Elsewhere, mgrVars
<1> QED BY <1>3, <1>4, <1>5 DEF MgrInv, Elsewhere

\* A load is prepared for chunks that are answered HIT: no job of the manager's
\* present entries uses them, and each is used once more.
LEMMA PrepareLoadInv ==
  ASSUME MgrInv, NEW j \in Jobs, NEW K \in (SUBSET Keys) \ {{}}, PrepareLoad(j, K)
  PROVE  MgrInv'
<1>1. \A k \in K : entries[k] \in {None, "ready"}
  BY NoneAssumption DEF PrepareLoad, Answer, MgrInv, Shape, States
<1>2. {k \in K : entries[k] \in {None, "ready"}} = K
  BY <1>1
<1>3. /\ Starts(j, "load", K) /\ Protect(K)
      /\ entries' = [k \in Keys |-> IF k \in K THEN "load_inflight" ELSE entries[k]]
      /\ inflightLoads' = inflightLoads + Cardinality(K)
      /\ UNCHANGED <<inflightStores, known, doomed, file, resets>>
  BY <1>2 DEF PrepareLoad, Starts
<1>4. /\ job' \in [Jobs -> Job \cup {None}]
      /\ \A k \in Keys : JobsOn(k)' = IF k \in K THEN JobsOn(k) \cup {j} ELSE JobsOn(k)
      /\ \A k \in Keys : j \notin JobsOn(k)
      /\ \A i \in Jobs \ {j} : job'[i] = job[i]
      /\ job'[j].kind = "load"
      /\ Cardinality(Uses("load")') = Cardinality(Uses("load")) + Cardinality(K)
      /\ Uses("store")' = Uses("store")
  BY <1>3, StartsUses DEF MgrInv, Shape
<1>5. Shape'
  BY <1>3, <1>4 DEF MgrInv, Shape, Protect, States
<1>6. Counted'
  BY <1>3, <1>4 DEF MgrInv, Counted
<1>7. ProtectedExact'
  <2>1. \A k \in Keys : IsFiniteSet(JobsOn(k))
    BY FiniteUses
  <2>2. \A k \in Keys : Cardinality(JobsOn(k) \cup {j}) = Cardinality(JobsOn(k)) + 1
    BY <2>1, <1>4, FS_AddElement
  <2> QED BY <2>2, <1>3, <1>4 DEF MgrInv, ProtectedExact, Protect
<1>8. UsedOnce'
  <2> SUFFICES ASSUME resets = 0, NEW k \in Keys
               PROVE  /\ \A i, l \in JobsOn(k)' : i = l
                      /\ entries'[k] = "store_inflight" <=> \E i \in JobsOn(k)' : job'[i].kind = "store"
                      /\ entries'[k] = "load_inflight" <=> \E i \in JobsOn(k)' : job'[i].kind = "load"
    BY <1>3 DEF UsedOnce
  <2>1. JobsOn(k) \subseteq Jobs /\ \A i \in JobsOn(k) : job[i].kind \in {"store", "load"}
    BY DEF JobsOn, InFlight, MgrInv, Shape, Job
  <2>2. CASE k \in K
    <3>1. JobsOn(k) = {}
      BY <1>1, <2>1, <2>2, NoneAssumption DEF MgrInv, UsedOnce, States
    <3> QED BY <3>1, <2>2, <1>3, <1>4
  <2>3. CASE k \notin K
    BY <2>1, <2>3, <1>3, <1>4 DEF MgrInv, UsedOnce, Shape
  <2> QED BY <2>2, <2>3
<1> QED BY <1>5, <1>6, <1>7, <1>8 DEF MgrInv

\* A store is prepared for the chunks without an entry, which nothing uses.
LEMMA PrepareStoreInv ==
  ASSUME MgrInv, NEW j \in Jobs, NEW K \in (SUBSET Keys) \ {{}}, PrepareStore(j, K)
  PROVE  MgrInv'
<1> DEFINE fresh == {k \in K : entries[k] = None}
<1>1. PICK F \in (SUBSET Keys) \ {{}} : F = fresh
  BY DEF PrepareStore, Storable
<1>2. \A k \in F : entries[k] = None
  BY <1>1
<1>3. /\ Starts(j, "store", F) /\ Protect(F)
      /\ entries' = [k \in Keys |-> IF k \in F THEN "store_inflight" ELSE entries[k]]
      /\ inflightStores' = inflightStores + Cardinality(F)
      /\ UNCHANGED <<inflightLoads, known, doomed, file, resets>>
  BY <1>1 DEF PrepareStore, Storable, Starts
<1> HIDE DEF fresh
<1>4. /\ job' \in [Jobs -> Job \cup {None}]
      /\ \A k \in Keys : JobsOn(k)' = IF k \in F THEN JobsOn(k) \cup {j} ELSE JobsOn(k)
      /\ \A k \in Keys : j \notin JobsOn(k)
      /\ \A i \in Jobs \ {j} : job'[i] = job[i]
      /\ job'[j].kind = "store"
      /\ Cardinality(Uses("store")') = Cardinality(Uses("store")) + Cardinality(F)
      /\ Uses("load")' = Uses("load")
  BY <1>3, StartsUses DEF MgrInv, Shape
<1>5. Shape'
  BY <1>3, <1>4 DEF MgrInv, Shape, Protect, States
<1>6. Counted'
  <2>1. Cardinality(F) \in Nat /\ Cardinality(Uses("store")) \in Nat
    BY FiniteUses
  <2> QED BY <2>1, <1>3, <1>4 DEF MgrInv, Counted
<1>7. ProtectedExact'
  <2>1. \A k \in Keys : IsFiniteSet(JobsOn(k))
    BY FiniteUses
  <2>2. \A k \in Keys : Cardinality(JobsOn(k) \cup {j}) = Cardinality(JobsOn(k)) + 1
    BY <2>1, <1>4, FS_AddElement
  <2> QED BY <2>2, <1>3, <1>4 DEF MgrInv, ProtectedExact, Protect
<1>8. UsedOnce'
  <2> SUFFICES ASSUME resets = 0, NEW k \in Keys
               PROVE  /\ \A i, l \in JobsOn(k)' : i = l
                      /\ entries'[k] = "store_inflight" <=> \E i \in JobsOn(k)' : job'[i].kind = "store"
                      /\ entries'[k] = "load_inflight" <=> \E i \in JobsOn(k)' : job'[i].kind = "load"
    BY <1>3 DEF UsedOnce
  <2>1. JobsOn(k) \subseteq Jobs /\ \A i \in JobsOn(k) : job[i].kind \in {"store", "load"}
    BY DEF JobsOn, InFlight, MgrInv, Shape, Job
  <2>2. CASE k \in F
    <3>1. JobsOn(k) = {}
      BY <1>2, <2>1, <2>2, NoneAssumption DEF MgrInv, UsedOnce, States
    <3> QED BY <3>1, <2>2, <1>3, <1>4
  <2>3. CASE k \notin F
    BY <2>1, <2>3, <1>3, <1>4 DEF MgrInv, UsedOnce, Shape
  <2> QED BY <2>2, <2>3
<1> QED BY <1>5, <1>6, <1>7, <1>8 DEF MgrInv

\* A job that is reported complete gives back what it counted and protected.
\* v is what its entries become: "ready", or None for a failed store.
LEMMA CompleteInv ==
  ASSUME MgrInv, NEW j \in Jobs, NEW kind \in {"store", "load"}, NEW K,
         Completes(j), job[j].kind = kind, job[j].keys = K, Release(K),
         NEW v \in {None, "ready"},
         Advance(K, IF kind = "store" THEN "store_inflight" ELSE "load_inflight", v),
         inflightStores' = IF kind = "store" THEN Minus(inflightStores, Cardinality(K))
                           ELSE inflightStores,
         inflightLoads' = IF kind = "load" THEN Minus(inflightLoads, Cardinality(K))
                          ELSE inflightLoads,
         known' \in [Keys -> {"unknown", "present", "missing"}],
         UNCHANGED <<doomed, file, resets>>
  PROVE  MgrInv'
<1>1. /\ job' \in [Jobs -> Job \cup {None}]
      /\ K \in (SUBSET Keys) \ {{}}
      /\ \A k \in Keys : JobsOn(k)' = JobsOn(k) \ {j}
      /\ \A k \in Keys : j \in JobsOn(k) <=> k \in K
      /\ \A i \in Jobs \ {j} : job'[i] = job[i]
      /\ Cardinality(Uses(kind)') = Cardinality(Uses(kind)) - Cardinality(K)
      /\ Cardinality(K) <= Cardinality(Uses(kind))
      /\ \A other \in {"store", "load"} \ {kind} : Uses(other)' = Uses(other)
  BY CompletesUses DEF MgrInv, Shape
<1>2. Shape'
  BY <1>1 DEF MgrInv, Shape, Release, Minus, Advance, States
<1>3. Counted'
  <2>1. Cardinality(K) \in Nat /\ \A w \in {"store", "load"} : Cardinality(Uses(w)) \in Nat
    BY <1>1, FiniteUses
  <2>2. CASE kind = "store"
    BY <1>1, <2>1, <2>2 DEF MgrInv, Counted, Minus
  <2>3. CASE kind = "load"
    BY <1>1, <2>1, <2>3 DEF MgrInv, Counted, Minus
  <2> QED BY <2>2, <2>3
<1>4. ProtectedExact'
  <2> SUFFICES ASSUME NEW k \in Keys
               PROVE  protected'[k] = Cardinality(JobsOn(k)')
    BY DEF ProtectedExact
  <2>1. IsFiniteSet(JobsOn(k)) /\ Cardinality(JobsOn(k)) \in Nat
    BY FiniteUses
  <2>2. protected[k] = Cardinality(JobsOn(k))
    BY DEF MgrInv, ProtectedExact
  <2>3. Cardinality(JobsOn(k) \ {j}) = IF k \in K THEN Cardinality(JobsOn(k)) - 1
                                       ELSE Cardinality(JobsOn(k))
    BY <1>1, <2>1, FS_RemoveElement
  <2>4. k \in K => Cardinality(JobsOn(k)) # 0
    BY <1>1, <2>1, FS_EmptySet
  <2>5. protected'[k] = IF k \in K THEN Cardinality(JobsOn(k)) - 1 ELSE Cardinality(JobsOn(k))
    BY <2>1, <2>2, <2>4 DEF Release, Minus, MgrInv, Shape
  <2> QED BY <1>1, <2>3, <2>5
<1>5. UsedOnce'
  <2> SUFFICES ASSUME resets = 0, NEW k \in Keys
               PROVE  /\ \A i, l \in JobsOn(k)' : i = l
                      /\ entries'[k] = "store_inflight" <=> \E i \in JobsOn(k)' : job'[i].kind = "store"
                      /\ entries'[k] = "load_inflight" <=> \E i \in JobsOn(k)' : job'[i].kind = "load"
    BY DEF UsedOnce
  <2>1. JobsOn(k) \subseteq Jobs /\ \A i \in JobsOn(k) : job[i].kind \in {"store", "load"}
    BY DEF JobsOn, InFlight, MgrInv, Shape, Job
  <2>2. /\ \A i, l \in JobsOn(k) : i = l
        /\ entries[k] = "store_inflight" <=> \E i \in JobsOn(k) : job[i].kind = "store"
        /\ entries[k] = "load_inflight" <=> \E i \in JobsOn(k) : job[i].kind = "load"
    BY DEF MgrInv, UsedOnce
  <2>3. CASE k \in K
    <3>1. JobsOn(k) = {j} /\ JobsOn(k)' = {}
      BY <1>1, <2>2, <2>3
    <3>2. entries'[k] = v
      BY <2>2, <2>3, <3>1 DEF Advance
    <3> QED BY <3>1, <3>2, NoneAssumption DEF States
  <2>4. CASE k \notin K
    BY <1>1, <2>1, <2>2, <2>4 DEF Advance
  <2> QED BY <2>3, <2>4
<1> QED BY <1>2, <1>3, <1>4, <1>5 DEF MgrInv

\* complete_load keeps the invariant: it is the complement of prepare_load.
LEMMA CompleteLoadInv ==
  ASSUME MgrInv, NEW j \in Jobs, CompleteLoad(j)
  PROVE  MgrInv'
<1>1. Completes(j) /\ job[j].kind = "load"
  BY DEF CompleteLoad, Ended, Completes
<1> QED BY <1>1, CompleteInv DEF CompleteLoad, MgrInv, Shape

\* complete_store keeps the invariant, whatever success it is told.
LEMMA CompleteStoreInv ==
  ASSUME MgrInv, NEW j \in Jobs, NEW success \in BOOLEAN, CompleteStore(j, success)
  PROVE  MgrInv'
<1>1. Completes(j) /\ job[j].kind = "store"
  BY DEF CompleteStore, Ended, Completes
<1>2. known' \in [Keys -> {"unknown", "present", "missing"}]
  BY DEF CompleteStore, MgrInv, Shape
<1>3. PICK v \in {None, "ready"} : Advance(job[j].keys, "store_inflight", v)
  BY DEF CompleteStore
<1> QED BY <1>1, <1>2, <1>3, CompleteInv DEF CompleteStore

\* A reset zeroes the count of the stores and forgets the entries, so that from
\* then on the invariant asks less of both.
LEMMA ResetCacheInv ==
  ASSUME MgrInv, ResetCache
  PROVE  MgrInv'
<1>1. SameJobs
  BY DEF ResetCache, SameJobs, InFlight, MgrInv, Shape
<1>2. (\A k \in Keys : JobsOn(k)' = JobsOn(k)) /\ \A kind : Uses(kind)' = Uses(kind)
  BY <1>1, SameJobsUses DEF MgrInv, Shape
<1>3. Cardinality(Uses("store")) \in Nat
  BY FiniteUses
<1>4. resets' # 0
  BY ManagerAssumption DEF ResetCache, MgrInv, Shape
<1> QED BY <1>2, <1>3, <1>4, ManagerAssumption
        DEF ResetCache, MgrInv, Shape, Counted, UsedOnce, ProtectedExact

\* A process that has just started has no job and counts none.
LEMMA NoJobsInv ==
  ASSUME Shape, job = [j \in Jobs |-> None], entries = [k \in Keys |-> None],
         inflightStores = 0, inflightLoads = 0, protected = [k \in Keys |-> 0]
  PROVE  MgrInv
<1>1. (\A k \in Keys : JobsOn(k) = {}) /\ \A kind : Uses(kind) = {}
  BY DEF JobsOn, Uses, InFlight
<1> QED BY <1>1, FS_EmptySet, NoneAssumption
        DEF MgrInv, Counted, UsedOnce, ProtectedExact, States

\* The manager starts with the invariant, whatever files it finds.
LEMMA InitInv == Init => MgrInv
BY NoJobsInv, ManagerAssumption DEF Init, Shape

\* A crash loses the jobs together with what the manager counted of them.
LEMMA CrashInv ==
  ASSUME MgrInv, Crash
  PROVE  MgrInv'
<1>1. Shape'
  BY DEF Crash, Fresh, MgrInv, Shape
<1>2. (\A k \in Keys : JobsOn(k)' = {}) /\ \A kind : Uses(kind)' = {}
  BY DEF Crash, Fresh, JobsOn, Uses, InFlight
<1>3. Counted' /\ ProtectedExact'
  BY <1>2, FS_EmptySet DEF Crash, Fresh, Counted, ProtectedExact
<1>4. UsedOnce'
  BY <1>2, NoneAssumption DEF Crash, Fresh, UsedOnce, States
<1> QED BY <1>1, <1>3, <1>4 DEF MgrInv

\* Every step of the scheduler, the workers, the sweep and a crash keeps the
\* invariant.
THEOREM Invariance == Spec => []MgrInv
<1>1. ASSUME MgrInv, [Next]_vars
      PROVE  MgrInv'
  <2>1. CASE \E j \in Jobs, K \in (SUBSET Keys) \ {{}} : PrepareLoad(j, K) \/ PrepareStore(j, K)
    BY <1>1, <2>1, PrepareLoadInv, PrepareStoreInv
  <2>2. CASE \E j \in Jobs : CompleteLoad(j)
    BY <1>1, <2>2, CompleteLoadInv
  <2>3. CASE \E j \in Jobs, success \in BOOLEAN : CompleteStore(j, success)
    BY <1>1, <2>3, CompleteStoreInv
  <2>4. CASE ResetCache
    BY <1>1, <2>4, ResetCacheInv
  <2>5. CASE Crash
    BY <1>1, <2>5, CrashInv
  <2>6. CASE Elsewhere
    BY <1>1, <2>6, ElsewhereInv
  <2>7. Shape
    BY <1>1 DEF MgrInv
  <2> QED BY <1>1, <2>1, <2>2, <2>3, <2>4, <2>5, <2>6, <2>7, OthersElsewhere DEF Next
<1> QED BY <1>1, InitInv, PTL DEF Spec

-----------------------------------------------------------------------------
(* The properties of GdsOffloadingManager. *)

\* The variables keep their types; the counters of transfers in flight, which
\* max(0, ...) clamps, never exceed what can be in flight.
THEOREM TypeCorrect == Spec => []TypeOK
<1>1. MgrInv => TypeOK
  <2> SUFFICES ASSUME MgrInv
               PROVE  TypeOK
    OBVIOUS
  <2>1. inflightStores \in 0..MaxInFlight /\ inflightLoads \in 0..MaxInFlight
    BY FiniteUses DEF MgrInv, Counted
  <2>2. \A k \in Keys : protected[k] \in 0..Cardinality(Jobs)
    BY FiniteUses DEF MgrInv, ProtectedExact
  <2> QED BY <2>1, <2>2 DEF MgrInv, Shape, TypeOK
<1> QED BY <1>1, Invariance, PTL

\* GdsGcManager protects a chunk exactly as often as jobs in flight use it: the
\* releases of complete_load and complete_store never take another's protection.
THEOREM ProtectionExact == Spec => []ProtectedExact
BY Invariance, PTL DEF MgrInv

\* Until reset_cache is called, prepare_load and prepare_store never let two
\* transfers use one chunk, and its entry names the one that does.
THEOREM TransferUnique == Spec => []OneTransferPerChunk
<1>1. MgrInv => OneTransferPerChunk
  <2> SUFFICES ASSUME MgrInv, resets = 0, NEW k \in Keys
               PROVE  Cardinality(JobsOn(k)) <= 1
    BY DEF MgrInv, UsedOnce, OneTransferPerChunk
  <2>1. CASE JobsOn(k) = {}
    BY <2>1, FS_EmptySet
  <2>2. ASSUME NEW j \in JobsOn(k)
        PROVE  Cardinality(JobsOn(k)) <= 1
    <3>1. JobsOn(k) = {j}
      BY <2>2 DEF MgrInv, UsedOnce
    <3> QED BY <3>1, FS_Singleton
  <2> QED BY <2>1, <2>2
<1> QED BY <1>1, Invariance, PTL

\* A job in flight has a use, so that the uses of its kind are not zero.
LEMMA InFlightUses ==
  ASSUME MgrInv, NEW j \in Jobs, InFlight(j)
  PROVE  job[j].kind \in {"store", "load"} /\ Cardinality(Uses(job[j].kind)) > 0
<1>1. job[j] \in Job
  BY DEF InFlight, MgrInv, Shape
<1>2. PICK k \in Keys : k \in job[j].keys
  BY <1>1 DEF Job
<1>3. <<j, k>> \in Uses(job[j].kind)
  BY <1>2 DEF Uses
<1>4. IsFiniteSet(Uses(job[j].kind)) /\ Cardinality(Uses(job[j].kind)) \in Nat
  BY FiniteUses
<1>5. Cardinality(Uses(job[j].kind)) # 0
  BY <1>3, <1>4, FS_EmptySet
<1> QED BY <1>1, <1>4, <1>5 DEF Job

\* has_pending_work stays true while a load is in flight, across resets: the
\* engine does not stop polling for it.
THEOREM LoadsPending == Spec => []LoadsArePending
<1>1. MgrInv => LoadsArePending
  BY InFlightUses DEF LoadsArePending, MgrInv, Counted
<1> QED BY <1>1, Invariance, PTL

\* Until reset_cache is called, has_pending_work is true exactly while a job is in
\* flight.
THEOREM PendingTrue == Spec => []PendingExact
<1>1. MgrInv => PendingExact
  <2> SUFFICES ASSUME MgrInv, resets = 0
               PROVE  HasPendingWork <=> \E j \in Jobs : InFlight(j)
    BY DEF PendingExact
  <2>1. ASSUME \E j \in Jobs : InFlight(j)
        PROVE  HasPendingWork
    BY <2>1, InFlightUses DEF HasPendingWork, MgrInv, Counted
  <2>2. ASSUME ~\E j \in Jobs : InFlight(j)
        PROVE  ~HasPendingWork
    <3>1. \A kind : Uses(kind) = {}
      BY <2>2 DEF Uses
    <3> QED BY <3>1, FS_EmptySet DEF HasPendingWork, MgrInv, Counted
  <2> QED BY <2>1, <2>2
<1> QED BY <1>1, Invariance, PTL
=============================================================================
