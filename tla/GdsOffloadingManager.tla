------------------------ MODULE GdsOffloadingManager -------------------------
(***************************************************************************)
(* The scheduler side of the GDS backend: class GdsOffloadingManager of    *)
(* gds_direct_v1/pkg/gds/spec.py, with the protection counts of            *)
(* GdsGcManager that it shares with the sweep thread.                      *)
(*                                                                         *)
(* The scheduler thread calls the manager, one call at a time.  Around it: *)
(* the workers, which run the jobs prepare_load and prepare_store return;  *)
(* the connector, which reports a job complete some time after it ended;   *)
(* the sweep thread, which unlinks chunk files; and a crash of the process *)
(* at any moment, after which only the files are left.                     *)
(*                                                                         *)
(* A definition named Mut... is a plausible bug in the definition after    *)
(* it; TLC finds a property violated once it takes that one's place.       *)
(***************************************************************************)
EXTENDS Naturals, FiniteSets

CONSTANTS
  Keys,            \* chunk keys: a key names one chunk file
  Jobs,            \* identities of transfer jobs, reused once complete
  ReportsFailure,  \* whether the connector passes success=False for a failed
                   \* store; mark_completed(job_id) carries no such flag
  MaxResets,       \* bound: calls of reset_cache
  None

ASSUME ManagerAssumption ==
  /\ IsFiniteSet(Keys) /\ IsFiniteSet(Jobs)
  /\ ReportsFailure \in BOOLEAN
  /\ MaxResets \in Nat

VARIABLES
  entries,         \* self._entries: None when the key is absent
  inflightStores,  \* self._inflight_stores
  inflightLoads,   \* self._inflight_loads
  known,           \* what AsyncLookupManager has cached about a key
  protected,       \* GdsGcManager._protected: 0 when the path is absent
  doomed,          \* files the running sweep has chosen and not yet unlinked
  file,            \* the chunk file of a key
  job,             \* the transfer jobs in flight: kind, keys, outcome
  resets           \* calls of reset_cache so far

mgrVars == <<entries, inflightStores, inflightLoads>>
vars == <<mgrVars, known, protected, doomed, file, job, resets>>

States == {"ready", "store_inflight", "load_inflight"}
Job == [kind : {"store", "load"}, keys : (SUBSET Keys) \ {{}},
        outcome : {"running", "ok", "failed"}]

ASSUME NoneAssumption == None \notin States \cup Job

InFlight(j) == job[j] # None
JobsOn(k) == {j \in Jobs : InFlight(j) /\ k \in job[j].keys}
Running(j, kind) == InFlight(j) /\ job[j].kind = kind /\ job[j].outcome = "running"
Ended(j, kind) == InFlight(j) /\ job[j].kind = kind /\ job[j].outcome # "running"
Exists(k) == file[k] # "absent"

\* A process starts with nothing in memory.
Fresh ==
  /\ entries' = [k \in Keys |-> None]
  /\ inflightStores' = 0 /\ inflightLoads' = 0
  /\ known' = [k \in Keys |-> "unknown"]
  /\ protected' = [k \in Keys |-> 0]
  /\ doomed' = {}
  /\ job' = [j \in Jobs |-> None]

\* The files were left by an earlier run, which may have died in a write.
Init ==
  /\ entries = [k \in Keys |-> None]
  /\ inflightStores = 0 /\ inflightLoads = 0
  /\ known = [k \in Keys |-> "unknown"]
  /\ protected = [k \in Keys |-> 0]
  /\ doomed = {}
  /\ file \in [Keys -> {"absent", "partial", "whole"}]
  /\ job = [j \in Jobs |-> None]
  /\ resets = 0

\* max(0, n - m)
MutMinus(n, m) == n - m
MutMinusOne(n, m) == IF n > 1 THEN n - 1 ELSE 0
Minus(n, m) == IF n > m THEN n - m ELSE 0

\* GdsGcManager.protect and release count the jobs that use a path.
Protect(K) == protected' = [k \in Keys |-> IF k \in K THEN protected[k] + 1 ELSE protected[k]]

MutRelease(K) == protected' = [k \in Keys |-> IF k \in K THEN 0 ELSE protected[k]]

Release(K) ==
  protected' = [k \in Keys |-> IF k \in K THEN Minus(protected[k], 1) ELSE protected[k]]

\* The entries of the keys in K that are in state s become v.
MutAdvance(K, s, v) ==
  entries' = [k \in Keys |-> IF k \in K /\ entries[k] = s /\ s # "load_inflight" THEN v
                             ELSE entries[k]]

Advance(K, s, v) ==
  entries' = [k \in Keys |-> IF k \in K /\ entries[k] = s THEN v ELSE entries[k]]

-----------------------------------------------------------------------------
(* Scheduler thread: lookup. *)

\* What lookup answers (sync_lookup is set, so never RETRY).
Answer(k) ==
  CASE entries[k] = "ready" -> "HIT"
    [] entries[k] \in {"store_inflight", "load_inflight"} -> "HIT_PENDING"
    [] entries[k] = None /\ known[k] = "unknown" -> IF Exists(k) THEN "HIT" ELSE "MISS"
    [] entries[k] = None /\ known[k] = "present" -> "HIT"
    [] entries[k] = None /\ known[k] = "missing" -> "MISS"

\* A key nothing is known about is resolved inline: mark_present for a file
\* that exists, invalidate for one that does not.
Lookup(k) ==
  /\ entries[k] = None /\ known[k] = "unknown" /\ Exists(k)
  /\ known' = [known EXCEPT ![k] = "present"]
  /\ UNCHANGED <<mgrVars, protected, doomed, file, job, resets>>

\* AsyncLookupManager resolves a key in the background (flush), and forgets it
\* with the request that asked (cleanup).
AsyncResolve(k) ==
  /\ known[k] = "unknown"
  /\ known' = [known EXCEPT ![k] = IF Exists(k) THEN "present" ELSE "missing"]
  /\ UNCHANGED <<mgrVars, protected, doomed, file, job, resets>>

Cleanup(k) ==
  /\ known[k] # "unknown"
  /\ known' = [known EXCEPT ![k] = "unknown"]
  /\ UNCHANGED <<mgrVars, protected, doomed, file, job, resets>>

-----------------------------------------------------------------------------
(* Scheduler thread: transfers. *)

\* The connector loads chunks that lookup has just answered HIT for.
PrepareLoad(j, K) ==
  LET ready == {k \in K : entries[k] \in {None, "ready"}} IN
  /\ ~InFlight(j)
  /\ \A k \in K : Answer(k) = "HIT"
  /\ entries' = [k \in Keys |-> IF k \in ready THEN "load_inflight" ELSE entries[k]]
  /\ inflightLoads' = inflightLoads + Cardinality(ready)
  /\ Protect(ready)
  /\ job' = [job EXCEPT ![j] = [kind |-> "load", keys |-> ready, outcome |-> "running"]]
  /\ UNCHANGED <<inflightStores, known, doomed, file, resets>>

\* complete_load is not told whether the load succeeded.
CompleteLoad(j) ==
  LET K == job[j].keys IN
  /\ Ended(j, "load")
  /\ inflightLoads' = Minus(inflightLoads, Cardinality(K))
  /\ Advance(K, "load_inflight", "ready")
  /\ Release(K)
  /\ job' = [job EXCEPT ![j] = None]
  /\ UNCHANGED <<inflightStores, known, doomed, file, resets>>

\* The keys without an entry are stored, all of them: there is no cap.
MutStorable(k) == entries[k] # "store_inflight"
Storable(k) == entries[k] = None

PrepareStore(j, K) ==
  LET fresh == {k \in K : Storable(k)} IN
  /\ ~InFlight(j)
  /\ fresh # {}
  /\ entries' = [k \in Keys |-> IF k \in fresh THEN "store_inflight" ELSE entries[k]]
  /\ inflightStores' = inflightStores + Cardinality(fresh)
  /\ Protect(fresh)
  /\ job' = [job EXCEPT ![j] = [kind |-> "store", keys |-> fresh, outcome |-> "running"]]
  /\ UNCHANGED <<inflightLoads, known, doomed, file, resets>>

CompleteStore(j, success) ==
  LET K == job[j].keys IN
  /\ Ended(j, "store")
  /\ success = (job[j].outcome = "ok") \/ (success /\ ~ReportsFailure)
  /\ inflightStores' = Minus(inflightStores, Cardinality(K))
  /\ Advance(K, "store_inflight", IF success THEN "ready" ELSE None)
  /\ known' = [k \in Keys |-> IF success /\ k \in K THEN "present" ELSE known[k]]
  /\ Release(K)
  /\ job' = [job EXCEPT ![j] = None]
  /\ UNCHANGED <<inflightLoads, doomed, file, resets>>

MutResetCacheLoads ==
  /\ resets < MaxResets /\ resets' = resets + 1
  /\ entries' = [k \in Keys |-> None]
  /\ inflightStores' = 0 /\ inflightLoads' = 0
  /\ UNCHANGED <<known, protected, doomed, file, job>>

\* reset_cache forgets the entries and the stores, not the loads, and not what
\* is protected; the jobs in flight go on.
ResetCache ==
  /\ resets < MaxResets /\ resets' = resets + 1
  /\ entries' = [k \in Keys |-> None]
  /\ inflightStores' = 0
  /\ UNCHANGED <<inflightLoads, known, protected, doomed, file, job>>

HasPendingWork == inflightStores > 0 \/ inflightLoads > 0

-----------------------------------------------------------------------------
(* The workers (GdsOffloadingWorker, CuFilePool). *)

End(j, failed) == job' = [job EXCEPT ![j].outcome = IF failed = {} THEN "ok" ELSE "failed"]

\* A write creates or overwrites the chunk file; one that fails unlinks it.
WriteBegins(j, k) ==
  /\ Running(j, "store") /\ k \in job[j].keys
  /\ file' = [file EXCEPT ![k] = "partial"]
  /\ UNCHANGED <<mgrVars, known, protected, doomed, job, resets>>

StoreEnds(j) ==
  /\ Running(j, "store")
  /\ \E failed \in SUBSET job[j].keys :
       /\ file' = [k \in Keys |-> IF k \notin job[j].keys THEN file[k]
                                  ELSE IF k \in failed THEN "absent" ELSE "whole"]
       /\ End(j, failed)
  /\ UNCHANGED <<mgrVars, known, protected, doomed, resets>>

\* A read that fails, always so for a file that is not whole, unlinks it.
LoadEnds(j) ==
  /\ Running(j, "load")
  /\ \E failed \in SUBSET job[j].keys :
       /\ \A k \in job[j].keys \ failed : file[k] = "whole"
       /\ file' = [k \in Keys |-> IF k \in failed THEN "absent" ELSE file[k]]
       /\ End(j, failed)
  /\ UNCHANGED <<mgrVars, known, protected, doomed, resets>>

-----------------------------------------------------------------------------
(* The sweep thread and crashes. *)

\* sweep() copies the protected paths once and chooses among the other files
\* (GdsGcManager models which); the unlinks follow one by one.
SweepChooses ==
  /\ doomed = {}
  /\ \E F \in SUBSET {k \in Keys : Exists(k) /\ protected[k] = 0} : F # {} /\ doomed' = F
  /\ UNCHANGED <<mgrVars, known, protected, file, job, resets>>

SweepUnlinks(k) ==
  /\ k \in doomed
  /\ doomed' = doomed \ {k}
  /\ file' = [file EXCEPT ![k] = "absent"]
  /\ UNCHANGED <<mgrVars, known, protected, job, resets>>

Crash == Fresh /\ UNCHANGED <<file, resets>>

-----------------------------------------------------------------------------

Next ==
  \/ \E k \in Keys : Lookup(k) \/ AsyncResolve(k) \/ Cleanup(k)
  \/ \E j \in Jobs, K \in (SUBSET Keys) \ {{}} : PrepareLoad(j, K) \/ PrepareStore(j, K)
  \/ \E j \in Jobs : CompleteLoad(j)
  \/ \E j \in Jobs, success \in BOOLEAN : CompleteStore(j, success)
  \/ ResetCache
  \/ \E j \in Jobs : StoreEnds(j) \/ LoadEnds(j)
  \/ \E j \in Jobs, k \in Keys : WriteBegins(j, k)
  \/ SweepChooses
  \/ \E k \in Keys : SweepUnlinks(k)
  \/ Crash

Spec == Init /\ [][Next]_vars

(***************************************************************************)
(* Fairness.  The workers end every job (GdsOffloadingWorker shows it) and *)
(* the connector reports every result to the manager.                      *)
(***************************************************************************)
Fairness ==
  \A j \in Jobs :
    /\ WF_vars(StoreEnds(j) \/ LoadEnds(j))
    /\ WF_vars(CompleteLoad(j) \/ \E success \in BOOLEAN : CompleteStore(j, success))

FairSpec == Spec /\ Fairness

-----------------------------------------------------------------------------
(* Properties. *)

MaxInFlight == Cardinality(Jobs) * Cardinality(Keys)

\* The type invariant; the clamped counters never exceed the keys in flight.
TypeOK ==
  /\ entries \in [Keys -> States \cup {None}]
  /\ inflightStores \in 0..MaxInFlight /\ inflightLoads \in 0..MaxInFlight
  /\ known \in [Keys -> {"unknown", "present", "missing"}]
  /\ protected \in [Keys -> 0..Cardinality(Jobs)]
  /\ doomed \subseteq Keys
  /\ file \in [Keys -> {"absent", "partial", "whole"}]
  /\ job \in [Jobs -> Job \cup {None}]
  /\ resets \in 0..MaxResets

\* Until reset_cache is called, a chunk has one transfer at a time, the one its
\* entry says: CuFilePool relies on a write being alone on its path.
OneTransferPerChunk ==
  resets = 0 =>
    \A k \in Keys :
      /\ Cardinality(JobsOn(k)) <= 1
      /\ entries[k] = "store_inflight" <=> \E j \in JobsOn(k) : job[j].kind = "store"
      /\ entries[k] = "load_inflight" <=> \E j \in JobsOn(k) : job[j].kind = "load"

\* The sweep is kept off a chunk exactly while a job uses it, also when a reset
\* lets two jobs use it at once and they complete in any order.
ProtectedExact == \A k \in Keys : protected[k] = Cardinality(JobsOn(k))

\* The engine keeps polling for loads: while a load is in flight there is
\* pending work, whatever was reset in between.
LoadsArePending == (\E j \in Jobs : InFlight(j) /\ job[j].kind = "load") => inflightLoads > 0

\* has_pending_work tells the truth until reset_cache is called: it is true
\* exactly while a job is in flight.
PendingExact == resets = 0 => (HasPendingWork <=> \E j \in Jobs : InFlight(j))

\* "file absent -> lookup MISS -> tokens recomputed": a chunk that has no file
\* and no job is not a hit, once no request has its file cached as present.
AbsentMisses ==
  \A k \in Keys :
    ~Exists(k) /\ JobsOn(k) = {} /\ known[k] # "present" => Answer(k) # "HIT"

\* A request that lookup puts off with HIT_PENDING is not put off for ever.
PendingResolves ==
  \A k \in Keys : Answer(k) = "HIT_PENDING" ~> Answer(k) # "HIT_PENDING"
=============================================================================
