---------------------------- MODULE GdsGcManager -----------------------------
(***************************************************************************)
(* class GdsGcManager of gds_direct_v1/pkg/gds/spec.py: the thread gds_gc  *)
(* keeps the chunk files of a node under a budget.  A sweep lists the      *)
(* files, then decides what to spare, then unlinks one by one, oldest      *)
(* first; each phase works on what the one before it saw, while transfer   *)
(* jobs protect and release chunks and write, read and unlink the same     *)
(* files.                                                                  *)
(*                                                                         *)
(* Time is the number of writes so far: a file's mtime is the number of    *)
(* its last write, and a file is out of the grace period once the horizon  *)
(* has passed it.                                                          *)
(*                                                                         *)
(* A definition named Mut... is a plausible bug in the definition after    *)
(* it; TLC finds a property violated once it takes that one's place.       *)
(***************************************************************************)
EXTENDS Naturals, FiniteSets, FiniteSetsExt

CONSTANTS
  Paths,       \* chunk files
  Size,        \* bytes of each: chunks of different groups differ
  MaxBytes,    \* self.max_bytes
  Jobs,        \* identities of transfers, reused once complete
  MaxJobs,     \* bound: transfers ever started
  None

ASSUME GcAssumption ==
  /\ IsFiniteSet(Paths) /\ IsFiniteSet(Jobs)
  /\ Size \in [Paths -> Nat \ {0}]
  /\ MaxBytes \in Nat /\ MaxJobs \in Nat
  /\ None \notin Nat

\* self.target_bytes: the low watermark, 0.9 of the cap rounded down.
TargetBytes == (MaxBytes * 9) \div 10

VARIABLES
  file,       \* mtime of each chunk file; None if there is no file
  clock,      \* the last write
  horizon,    \* files written up to here are older than _GC_GRACE_S
  job,        \* transfers in flight, one for each key of a job: the chunk,
              \* the IO that is still to be done, and (history) whether the sweep that
              \* runs took its snapshot during the transfer
  protected,  \* self._protected: 0 when the path is absent
  phase,      \* what gds_gc does
  unseen,     \* paths the walk has not come to
  blocks,     \* the list of the walk: mtime of each file it found
  left,       \* total - freed
  snapshot,   \* the copy of the protected paths
  cutoff,     \* the horizon when the snapshot was taken
  queue,      \* files of the list the loop has not come to
  stopped,    \* self._stop
  started     \* transfers started so far

sweepVars == <<phase, unseen, blocks, left, snapshot, cutoff, queue>>
vars == <<file, clock, horizon, job, protected, sweepVars, stopped, started>>

Job == [doing : {"store", "load", "nothing"}, path : Paths, kept : BOOLEAN]

ASSUME NoneAssumption == None \notin Job

Exists(p) == file[p] # None
Bytes(P) == MapThenSumSet(LAMBDA p : Size[p], P)
OnDisk == Bytes({p \in Paths : Exists(p)})
InFlight(j) == job[j] # None

\* The thread waits; the list and the copies of a sweep are locals of sweep().
Rest ==
  /\ phase' = "wait" /\ unseen' = {} /\ queue' = {} /\ snapshot' = {}
  /\ blocks' = [p \in Paths |-> None]
  /\ left' = 0 /\ cutoff' = 0

Init ==
  /\ file \in [Paths -> {0, None}]
  /\ clock = 0 /\ horizon = 0
  /\ job = [j \in Jobs |-> None]
  /\ protected = [p \in Paths |-> 0]
  /\ phase = "wait" /\ unseen = {} /\ queue = {} /\ snapshot = {}
  /\ blocks = [p \in Paths |-> None]
  /\ left = 0 /\ cutoff = 0
  /\ stopped = FALSE /\ started = 0

-----------------------------------------------------------------------------
(* The scheduler thread: prepare_... protects the chunks of a job,          *)
(* complete_... releases them, each its own count.  Two transfers may use   *)
(* one chunk after a reset_cache.                                          *)

Protect(p) == protected' = [protected EXCEPT ![p] = @ + 1]

MutReleaseAll(p) == protected' = [protected EXCEPT ![p] = 0]

MutReleaseKeepsLast(p) == protected' = [protected EXCEPT ![p] = IF @ > 1 THEN @ - 1 ELSE @]

Release(p) == protected' = [protected EXCEPT ![p] = IF @ > 0 THEN @ - 1 ELSE @]

StartJob(j, kind, p) ==
  /\ ~InFlight(j) /\ started < MaxJobs
  /\ started' = started + 1
  /\ job' = [job EXCEPT ![j] = [doing |-> kind, path |-> p, kept |-> FALSE]]
  /\ Protect(p)
  /\ UNCHANGED <<file, clock, horizon, sweepVars, stopped>>

CompleteJob(j) ==
  /\ InFlight(j) /\ job[j].doing = "nothing"
  /\ Release(job[j].path)
  /\ job' = [job EXCEPT ![j] = None]
  /\ UNCHANGED <<file, clock, horizon, sweepVars, stopped, started>>

-----------------------------------------------------------------------------
(* The IO threads. *)

Transferring(j, kind) == InFlight(j) /\ job[j].doing = kind
IoEnds(j) == job' = [job EXCEPT ![j].doing = "nothing"]

\* A write creates or overwrites the file and sets its mtime.
WriteChunk(j) ==
  /\ Transferring(j, "store")
  /\ clock' = clock + 1
  /\ file' = [file EXCEPT ![job[j].path] = clock']
  /\ IoEnds(j)
  /\ UNCHANGED <<horizon, protected, sweepVars, stopped, started>>

\* A read leaves the mtime as it is.
ReadChunk(j) ==
  /\ Transferring(j, "load") /\ Exists(job[j].path)
  /\ IoEnds(j)
  /\ UNCHANGED <<file, clock, horizon, protected, sweepVars, stopped, started>>

\* A failed IO unlinks the file.
FailChunk(j) ==
  /\ Transferring(j, "store") \/ Transferring(j, "load")
  /\ file' = [file EXCEPT ![job[j].path] = None]
  /\ IoEnds(j)
  /\ UNCHANGED <<clock, horizon, protected, sweepVars, stopped, started>>

\* Files grow older than the grace period, in the order they were written.
Age ==
  /\ horizon < clock
  /\ horizon' = horizon + 1
  /\ UNCHANGED <<file, clock, job, protected, sweepVars, stopped, started>>

-----------------------------------------------------------------------------
(* The thread gds_gc. *)

\* The tick of _loop finds that _GC_INTERVAL_S has passed.
SweepStarts ==
  /\ phase = "wait" /\ ~stopped
  /\ phase' = "walk"
  /\ unseen' = Paths
  /\ blocks' = [p \in Paths |-> None]
  /\ left' = 0
  /\ UNCHANGED <<file, clock, horizon, job, protected, snapshot, cutoff, queue, stopped,
                 started>>

\* os.walk and os.stat come to p, in some fixed order of the paths: it has a
\* file, or it does not.
WalkVisits(p) ==
  /\ phase = "walk" /\ unseen # {} /\ p = CHOOSE q \in unseen : TRUE
  /\ unseen' = unseen \ {p}
  /\ blocks' = [blocks EXCEPT ![p] = file[p]]
  /\ left' = IF Exists(p) THEN left + Size[p] ELSE left
  /\ UNCHANGED <<file, clock, horizon, job, protected, phase, snapshot, cutoff, queue, stopped,
                 started>>

WalkUnderCap ==
  /\ phase = "walk" /\ unseen = {} /\ left <= MaxBytes
  /\ Rest
  /\ UNCHANGED <<file, clock, horizon, job, protected, stopped, started>>

MutCutoff == clock

\* time.time() - _GC_GRACE_S
Cutoff == horizon

\* cutoff, then protected = set(self._protected)
WalkOverCap ==
  /\ phase = "walk" /\ unseen = {} /\ left > MaxBytes
  /\ phase' = "unlink"
  /\ cutoff' = Cutoff
  /\ snapshot' = {p \in Paths : protected[p] > 0}
  /\ queue' = {p \in Paths : blocks[p] # None}
  /\ job' = [j \in Jobs |-> IF InFlight(j) THEN [job[j] EXCEPT !.kept = TRUE] ELSE None]
  /\ UNCHANGED <<file, clock, horizon, protected, unseen, blocks, left, stopped, started>>

\* path in protected or mtime > cutoff, with the mtime the walk saw
Spared(p) == p \in snapshot \/ blocks[p] > cutoff

MutNext == {p \in queue : \A q \in queue : blocks[q] <= blocks[p]}

\* The head of the sorted list; files of one mtime come in any order here.
NextBlock == {p \in queue : \A q \in queue : blocks[p] <= blocks[q]}

MutEnough == queue = {} \/ left <= MaxBytes

\* The loop is over, or total - freed is down to the target.
Enough == queue = {} \/ left <= TargetBytes

SweepSkips ==
  /\ phase = "unlink" /\ ~Enough
  /\ \E p \in NextBlock : Spared(p) /\ queue' = queue \ {p}
  /\ UNCHANGED <<file, clock, horizon, job, protected, phase, unseen, blocks, left, snapshot,
                 cutoff, stopped, started>>

\* What is left when p has been unlinked; a file that is gone already raises
\* and is not counted as freed.
Freed(p) == IF Exists(p) THEN left - Size[p] ELSE left

SweepUnlinks ==
  /\ phase = "unlink" /\ ~Enough
  /\ \E p \in NextBlock :
       /\ ~Spared(p)
       /\ queue' = queue \ {p}
       /\ file' = [file EXCEPT ![p] = None]
       /\ left' = Freed(p)
  /\ UNCHANGED <<clock, horizon, job, protected, phase, unseen, blocks, snapshot, cutoff, stopped,
                 started>>

SweepEnds ==
  /\ phase = "unlink" /\ Enough
  /\ Rest
  /\ job' = [j \in Jobs |-> IF InFlight(j) THEN [job[j] EXCEPT !.kept = FALSE] ELSE None]
  /\ UNCHANGED <<file, clock, horizon, protected, stopped, started>>

\* shutdown() asks the thread to stop; a sweep that is running goes on.
Shutdown ==
  /\ ~stopped
  /\ stopped' = TRUE
  /\ UNCHANGED <<file, clock, horizon, job, protected, sweepVars, started>>

\* The process ends, in the middle of a sweep or of a transfer, and a new one
\* starts on the same files.  A crash is both steps at once.
Restart ==
  /\ stopped
  /\ job' = [j \in Jobs |-> None]
  /\ protected' = [p \in Paths |-> 0]
  /\ Rest
  /\ stopped' = FALSE
  /\ UNCHANGED <<file, clock, horizon, started>>

-----------------------------------------------------------------------------

Sweep ==
  \/ SweepStarts \/ (\E p \in Paths : WalkVisits(p)) \/ WalkUnderCap \/ WalkOverCap
  \/ SweepSkips \/ SweepUnlinks \/ SweepEnds

Progress(j) == WriteChunk(j) \/ ReadChunk(j) \/ FailChunk(j) \/ CompleteJob(j)

Next ==
  \/ \E j \in Jobs, kind \in {"store", "load"}, p \in Paths : StartJob(j, kind, p)
  \/ \E j \in Jobs : Progress(j)
  \/ Age
  \/ Sweep
  \/ Shutdown
  \/ Restart

Spec == Init /\ [][Next]_vars

\* The thread runs, time passes, and transfers end (GdsOffloadingWorker shows it).
FairSpec == Spec /\ WF_vars(Sweep) /\ WF_vars(Age) /\ \A j \in Jobs : WF_vars(Progress(j))

-----------------------------------------------------------------------------
(* Properties. *)

\* The type invariant.
TypeOK ==
  /\ file \in [Paths -> 0..clock \cup {None}]
  /\ clock \in Nat /\ horizon \in 0..clock
  /\ job \in [Jobs -> Job \cup {None}]
  /\ protected \in [Paths -> 0..Cardinality(Jobs)]
  /\ phase \in {"wait", "walk", "unlink"}
  /\ unseen \subseteq Paths /\ queue \subseteq Paths /\ snapshot \subseteq Paths
  /\ blocks \in [Paths -> 0..clock \cup {None}]
  /\ left \in 0..Bytes(Paths)
  /\ cutoff \in 0..horizon
  /\ stopped \in BOOLEAN
  /\ started \in 0..MaxJobs

\* The sweep's turn has just unlinked p.
Unlinked(p) == phase = "unlink" /\ queue' = queue \ {p} /\ queue' # queue /\ Exists(p) /\ ~Exists(p)'

\* The file the walk found at p is still there, not rewritten since.
AsWalked(p) == blocks[p] # None /\ file[p] = blocks[p]
StillAsWalked == {p \in Paths : AsWalked(p)}

\* protect() holds until every job that asked for it has released: a sweep
\* never unlinks a chunk under a job that was in flight when it looked.
JobsSpared ==
  [][\A p \in Paths : Unlinked(p) =>
       \A j \in Jobs : InFlight(j) /\ job[j].path = p => ~job[j].kept]_vars

\* "exceeding the cap is pressed back": a sweep over the cap ends with what it
\* walked down to the low watermark, or with nothing there that it may remove,
\* whatever writes, failures and releases happened meanwhile.
EnoughFreed ==
  [][phase = "unlink" /\ phase' = "wait" /\ stopped' = stopped =>
       \/ Bytes(StillAsWalked) <= TargetBytes
       \/ \A p \in StillAsWalked : Spared(p)]_vars

\* blocks.sort(): chunks go in the order of their last write, which is not that
\* of their last use (GdsGcRecency).  Nothing that may be removed and was last
\* written before the chunk being removed is left behind, though the mtimes are
\* those of a walk that writes, failures and restarts have overtaken.
OldestFirst ==
  [][\A p, q \in Paths :
       Unlinked(p) /\ AsWalked(q) /\ blocks[q] < blocks[p] => Spared(q)]_vars

\* A tree over the budget is brought back under it, unless the thread is told
\* to stop, once jobs stop coming: MaxJobs ends them.
BudgetRestored == OnDisk > MaxBytes ~> OnDisk <= MaxBytes \/ stopped
=============================================================================
