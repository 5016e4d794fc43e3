# Verification of the GDS direct KV offloading backend

TLA+ models, TLC runs and TLAPS proofs for `gds_direct_v1` (package
`pkg/gds`): vLLM offloads KV cache chunks from the GPU straight to files on an
SSD through cuFile and reads them back later, also after a restart. References
below are `file:line` in `gds_direct_v1/pkg/gds/`.

## 1. The system

    scheduler thread            engine thread                gds_load_io thread
    OffloadingConnector         OffloadingConnector          _load_loop
      | lookup, prepare_*         | submit_*, get_finished     | _pump_load_reads
      | complete_*                | wait                       |
      v                           v                            v
    GdsOffloadingManager ~~job~~> GdsOffloadingWorker  (one lock, ring slots)
      | protect/release           | gather / scatter     | write_slot / read_slot
      v                           v                      v
    GdsGcManager (gds_gc)       store and load streams  IO threads -> CuFilePool
      | unlink                                               | handle cache
      +------------------> chunk files on the SSD <----------+

| Component | State | Operations | What makes it correct |
|---|---|---|---|
| `GdsOffloadingManager` (spec.py:272) | state of each chunk (`_entries`), two in-flight counters, cache of existence lookups | `lookup`, `prepare_load/store`, `complete_load/store`, `reset_cache`, `has_pending_work` | one transfer per chunk at a time; counters and protection describe exactly the jobs in flight; a put-off request is not put off for ever; a chunk without a file is not a hit |
| `GdsOffloadingWorker` (spec.py:515) | job queues, items with stage, slot, event, future; free slots; results | `submit_*`, `get_finished`, `wait`, `_pump*`, `_load_loop`, `_path_done` | a ring slot has one user; no slot is lost; one truthful result per job; every job ends; chunks do not mix |
| `CuFilePool` (cufile_io.py:143) | LRU cache of handles with reference counts | `write_slot`, `read_slot`, `_get_handle`, `_release_handle`, `_drop_handle` | no handle closed under its users by eviction; the cap on open files; a good file is not unlinked; a bad one does not stay |
| `GdsGcManager` (spec.py:80) | protected paths | `protect`, `release`, `sweep` thread | a chunk in use is not unlinked; the budget is kept; the order of removal |
| `GdsAsyncLookupManager` (spec.py:263) | vLLM's cache of lookups | `batch_lookup` | answers what is on disk |
| job planning (spec.py:605-740) | the plan of a job | `_plan_job`, `_validate_item`, `_issue_item_copy` | copies cover the blocks of the request, from their pages, at their place in the file, without overlap |
| ring registration, `get_pool` (cufile_io.py:121-215) | registration mode, process singleton | `get_pool`, `_register_ring`, `_buf_args`, `shutdown` | copies and IO address the same bytes; IO stays in registered memory |
| `GdsDirectOffloadingSpec` (spec.py:1012) | the manager and the worker it made | `get_manager`, `get_worker` | the GC it makes first sweeps the tree chunks are written to |
| deployment (`run.sh`, `patch_*.py`) | installed files, start script | text patches | any order, repetition or interruption leaves installed files that fit together |
| smoke and replay scripts, `fix-nvfp4-kv-sm121` | none | manual checks, one patch | not modelled |

What is hard here: four kinds of actors share the ring and only some hold the
lock; retries reuse a slot whose item is still counted; several readers share a
handle that any of them may drop; files are unlinked by three parties (failed
writes, failed reads, the GC) that do not tell the others; the scheduler learns
of the end of a job late, without its outcome, and possibly after a reset; and a
crash leaves torn files under their final names; a sweep works for minutes on what
it saw before; and a node's state (patches, root directory, model) changes between
starts under code that looks at it once. `PROJECT.json` lists these
hazards at the lines where they bite, with the properties that cover them.

## 2. Modules

| Module | What it is |
|---|---|
| `TransferService` | abstract specification: a job is submitted once, finishes once, is handed out once |
| `GdsOffloadingWorker` | the worker with its threads, IO threads and streams |
| `GdsOffloadingWorker_proofs` | theorems about the worker's ring and its data |
| `GdsOffloadingWorkerResults_proofs` | theorems about its results; it implements `TransferService` |
| `CuFilePool` | handle cache, chunk IO and file identity |
| `GdsOffloadingManager` | the scheduler side, with jobs, files, GC and crashes around it |
| `GdsGcManager` | the sweep thread against transfers, over restarts |
| `GdsGcRecency` | `GdsGcManager` with a history of when chunks were used |
| `GdsRing` | planning, the layout of chunks in slots, pages and files, registration modes |
| `GdsNode` | patches, root directory and the choice of the tree to sweep, between starts |
| `GdsOffloadingManager_proofs`, `CuFilePool_proofs`, `GdsGcManager_proofs`, `GdsRing_proofs`, `GdsNode_proofs` | theorems about these modules |
| `Lists` | `Without`: what is left of an ordered collection |
| `DataLemmas` | lemmas about finite sets, sums, sequences, quotients and remainders that the proofs share |
| `MC...` | instances for TLC |

Operators named `Mut...` are deliberate faults, one plausible bug each. They are
not part of any specification; putting one in the place of the definition after
it makes TLC find a property violated, which shows that the property depends on
the code it is about.

### GdsOffloadingWorker

Each item (`_PathItem`) has its `stage`, `slot`, `ok`, `retries`, `event` (of its
gather or scatter) and `future`. `_lock` is the variable `phase`: `"unlocked"` or
the loop its holder is in. A pump is not one step: every iteration of every loop
is one, with `todo` for the rest of the loop's snapshot, so that IO threads and
streams finish between any two iterations, as they do. `jobsStore` and `jobsLoad`
are the deques; a job stays at the front until its last item has a slot, which is
the effect of `alive` and `appendleft`. The containers `_inflight_gather`,
`_io_store`, `_io_load` and `_pending_scatter` are the items in the corresponding
stage; their order is left out, because every loop visits all of them.

The engine thread runs one call at a time (`submit`, `get_finished`, or `wait`,
which keeps it until `waiting` is empty). `DeviceStep` is everything that needs no
lock: a gather or a scatter completes, a write or a read ends well or badly. A
slot's content is the chunk in it or `Junk`; `chunk` and `kv` say what arrived on
disk and in the GPU blocks, `"wrong"` if it was another item's data. A refused
plan (`_validate_item`) is a free choice at the place where the code asks.
A write that ends badly leaves no file (`WriteSlot`): the error of its own unlink, which
the code swallows (cufile_io.py:300), is in `CuFilePool` (`UnlinkFailed`) and not here.

### CuFilePool

A thread's `pc` follows `write_slot` / `read_slot`: `get` (look in the cache),
`open`, `insert` (evict and store), `io`, `drop`, `unlink`, `release`. What the
code does under one hold of the pool's lock is one step, and so is each system
call. Files have identity: `disk` maps a path to a file, an entry holds a file,
and an unlinked file lives as long as an entry is open on it. Entries and files
are numbered and reused once nothing refers to them (`Settle`); an entry that
disappears open is a lost descriptor, since `fd` is a plain int. IO on a closed
handle comes up short; that its number may be reused by another open is left out.

Nothing restricts what overlaps. The manager keeps the transfers of a chunk apart
only until `reset_cache` forgets them (spec.py:466-469), so any operations may run
on one path (`Begin`). The GC unlinks any file at any moment (`GcUnlink`), in use or
not: it goes by a list of files and a copy of the protected paths that are old by
then, and a headless node protects none. `os.unlink` may fail, which the
self-heal swallows (`UnlinkFailed`). A process may die at any moment (`Restart`): a
file that `O_CREAT` has made stays empty, a write is cut off, and the first files
may already have been left like that. `MaxFaults` bounds the transient failures of
one process. Two history variables name the paths for which a property makes an
exception, and no guard reads them: `mixed`, where a write has run next to another
operation, and `spoilt`, where a dead process, a failed unlink or an unlink of a
whole file under an operation may leave an empty file.

One worker uses the pool: its `shutdown()` comes after its IO and is part of
`Restart`. A second worker's, which would close the handles under it, is not here.

### GdsOffloadingManager

The scheduler thread calls one operation at a time. A job is the keys a
`prepare_` call returned; it ends (`StoreEnds`, `LoadEnds`) with any of its files
failed, and is completed some time later. `complete_load` is not told the outcome.
`complete_store` has a `success` parameter: whether the connector sets it is
outside the repository, and the patch this repository applies
(`patch_load_failure_report.py:49`) calls `mark_completed(job_id)` without one.
The constant `ReportsFailure` covers both. `protected` is the count in
`GdsGcManager`; the sweep takes one copy of it and unlinks later (`SweepChooses`,
`SweepUnlinks`), any of the unprotected files. `Crash` may happen at any moment
and leaves only the files, torn ones too. The lookup cache is vLLM's and external.

### GdsGcManager

The phases of `sweep` are those of the code: `walk` visits one path per step
(`WalkVisits`), the decision (`WalkUnderCap`, `WalkOverCap`) reads the horizon of
the grace period and copies the protected paths, `unlink` goes through the list by
mtime. `blocks`, `snapshot`, `cutoff` and `queue` are the locals of `sweep`, and
`left` is `total - freed`. Between any two steps a transfer is started or
completed, writes (the file is as new as `clock`), fails (the file is unlinked) or
time passes. Several transfers may use one chunk, as they may after a
`reset_cache`. `Shutdown` asks the thread to stop, `Restart` is a new process on
the same files. `kept` is the only history variable: whether a transfer was in
flight when the sweep took its snapshot. An error of the sweep's `os.unlink` is
there for a file that is gone already, not for one that stays (spec.py:210).

`GdsGcRecency` adds what an LRU manager would have to know: `recency`, the chunks in
the order of their last write, read or `touch()`. It changes no step; `Touch` is
the code's `pass`.

### GdsRing

Bytes are values `<<group, reference, block, byte>>`, so that a byte in the wrong
place can be told from the right one; the ring, the files and the GPU pages are
functions from addresses to bytes. `Plan` is `_plan_job`, and the copies of an item
and its IO reach the slot by the two addresses of the code (`CopyByte`: slot times
`slot_bytes`; `IoByte`: base and offset of `_buf_args`). `GetPool` may end in each
registration mode with any set of slots refused. Items of a job take their steps
in any order; queues, retries and failures are `GdsOffloadingWorker`'s, and a slot
that is given back holds `Junk`. Requests are what the connector can ask for: block
tables from `Tables`, stores from chunk to chunk, loads from any block to a chunk's
end. The code's ring has at least four slots; two are enough here, because no
address depends on how many there are.

`shutdown()` deregisters the ring and changes nothing else: the mode and the
singleton stay. `GetPoolAgain` is a later `get_pool`, for a worker next to the first
one (`OtherShutdown` is its end) or after the first one's `Shutdown`; `pool` records
who has done what. One worker at a time is given jobs: two would own the same slot
numbers, each by a free list of its own.

### GdsNode

A head node (manager and worker) or a headless one (worker only). The scripts are
one action per file they rewrite; `patch_load_failure_report.py` may stop after any
of its three. `Start` builds the GC from the FileMapper that comes first
(`Guesses`) and chooses the tree (`BlockRoot`); `had` remembers whether the model's
own tree was there. `Store` is the scheduler's broadcast path: it makes the tree and
may change its mtime. That FileMapper keeps the manager's configuration file in the
root directory or below it, beside the trees, is an assumption about vLLM.

## 3. Runs

| Run | Checks | Bounds |
|---|---|---|
| `worker_safety` | types, ring ownership, results, data | 1 store item, 2 load items, 2 slots, 1 retry |
| `worker_live` | `WaitReturns`, implements `TransferService` | 2 store items, 1 load item, an empty store, 1 slot, no retry |
| `worker_refused` | finding: `RefusedLeavesHole` | as `worker_safety` |
| `pool` | `RefsExact`, `CachedOpen`, `ClosedByFailureOnly`, `GoodFileSurvives`, `NoGhostFile` | 2 threads, 2 paths, cache of 1, 2 faults |
| `pool_orphan` | finding: `WriteLands` | 2 threads, 1 path, no fault |
| `manager` | `OneTransferPerChunk`, `ProtectedExact`, `LoadsArePending`, `PendingExact`, `PendingResolves` | 2 chunks, 2 jobs in flight, 1 reset |
| `manager_stale` | finding: `AbsentMisses` | 2 chunks, 2 jobs, no reset, stores report failure |
| `gc` | `JobsSpared`, `EnoughFreed`, `OldestFirst`, `BudgetRestored` | 3 chunks of 5 units, budget 3, 2 transfers, any restarts |
| `gc_lru` | finding: `LeastRecentlyUsedFirst` | as `gc`, 1 transfer at a time, empty at the start |
| `ring` | `PlanMatches`, `RoundTrip`, `WindowRegistered` | 2 groups, 2 chunks of 2 blocks, 2 slots, 2 block tables |
| `ring_overlap` | finding: `ChunkHoldsBlocks` | 1 group with 2 references |
| `node` | `ForwardHasTarget`, `OwnTreeFound` | 2 models, head node and headless |

Every passing run also checks the `TypeOK` of its module, except `worker_live`
(`worker_safety` checks it).

Why these bounds are enough to be interesting. Two slots and three items make
items queue for slots, the two threads pop and push the same list, and a slot
change owner between kinds of job; one retry exercises both sides of the retry
guard (the proofs cover every number). One slot makes stores and loads starve each
other if anything can. Two threads and a cache of one reach double opens, eviction
with every entry in use, and a drop under another user; one failure is enough for
the latter, and two are what the self-heal needs to unlink a good file (the proofs
cover any number). Two jobs on two chunks with one reset reach
two jobs on one chunk, a job over both chunks, and completions in every order. Three
chunks of uneven size let a sweep remove one, several or none, with two transfers on
one of them or on two, and equal mtimes as well as distinct ones. Two groups with
different page sizes make chunks smaller than their slot, padding, and offsets of a
second group; two chunks a load that skips into the first; two tables a load into
other pages than the store's. Symmetry is used for slots, threads and paths in the
safety runs of the worker and the pool only. Two runs give TLC a view, which merges states that no
step and no property of the run tells apart: `CacheView` takes entries and files up
to the numbers they have and leaves out `spoilt` for a path in `mixed`, which every
property exempts already; `RegisteredView` leaves out `registered` where nothing reads it
(compat mode, or once a shared pool is shut down). `CHECK_DEADLOCK` stays on everywhere:
no model can stop.

Some properties carry an exception that the code forces. `OneTransferPerChunk` and
`PendingExact` speak of the time before the first `reset_cache`, which forgets the
transfers in flight; `ProtectedExact` and `LoadsArePending` hold across resets.
`SuccessIsTrue` excuses refused items, which are the subject of `worker_refused`.
`WindowRegistered` ends when a pool that is shared is shut down: from there on the
code works on a ring that is not registered (section 4).
`JobsSpared` speaks of the jobs the sweep's snapshot could see, `EnoughFreed` and
`OldestFirst` of the files as the walk saw them: what is protected or written later
is not spared, and the order is that of the last write (`gc_lru`).
`GoodFileSurvives` allows a loss after two failures, as the docstring of `read_slot`
does, and leaves out the paths in `mixed`: there a chunk may be lost without any
failure (section 4).
`NoGhostFile` leaves out `mixed` and `spoilt`: the code has no answer to the files
of a dead process or to an unlink that fails, until they are read again, and a
reader may overtake an unlink of the file it has open. Both hold after any number of
failures otherwise.
`OwnTreeFound` says only what holds of the choice of the tree (section 4).

Fairness. Worker: inside a critical section a thread keeps running and every copy
and IO ends (weak). Taking the lock is strongly fair for `get_finished`, for the
polls of `wait` and for `gds_load_io`: all of them leave the lock and sleep or
return between two rounds, and the engine calls `get_finished` as long as
`has_pending_work()` is true. That last premise is what `LoadsArePending` and
`PendingExact` check; after a reset it fails for stores (spec.py:469). Submissions
are not fair. Manager: jobs end (shown for the worker) and the connector reports
each end; nothing is assumed of the GC, lookups or crashes. GC: the thread runs
unless it was told to stop (a 50 ms tick), time passes, and transfers end.
The pool, the ring and the node have no liveness properties.

## 4. Findings

1. `worker_refused`: a refused item should leave a hole and nothing else
   (spec.py:702-707). A store item that is refused fails its job (spec.py:760, 898), and
   a load item that is refused counts as loaded (spec.py:880).
2. `pool_orphan`: a write through a handle whose file the GC unlinked succeeds and
   stores nothing (cufile_io.py:236).
3. `manager_stale`: after a failed load the chunk is a hit without a file, for
   ever (spec.py:374).
4. `gc_lru`: the "LRU" manager (spec.py:82, 1017) removes by last write; `touch()` is
   empty and reads leave no trace (spec.py:155, 203).
5. `ring_overlap`: in a group with several references the copies of a chunk
   overlap in the slot (spec.py:656; lines 547-549 size it for all of them).

Seen while modelling, without a run; `PROJECT.json` lists them as hazards:

- After `reset_cache` a load next to a store of its chunk may be short twice and
  unlink the chunk when the store has completed it, without any failure
  (cufile_io.py:341), although the files are to "persist on disk" (spec.py:467). The
  model contains it, as the paths in `mixed`.
- A worker that shares the pool, or gets it after a shutdown, works on a ring that is
  no longer registered (cufile_io.py:358; the docstring at 122-125 expects several
  workers). The model contains it (`Shutdown`, `OtherShutdown`, `GetPoolAgain`).
- The tree to sweep is chosen once, at the start (spec.py:110). A headless node that
  starts on an empty root, as after the documented cleaning, sweeps a tree nobody
  writes; the comment at spec.py:63-66 expects the budget on every node.
- Overwritten and mismatched cache entries are never closed (cufile_io.py:268,
  350-355); `reset_cache` forgets the stores in flight (spec.py:469); a root without
  a tree makes the start fail (spec.py:104); a repeated `patch_start_script.py` drops
  the failure policy.

## 5. Proofs

Every safety property that the passing runs check is a theorem, for all values of
the constants that satisfy the assumptions of its module; one, `RoundTrip`, has a
further hypothesis (see "The ring"). TLC checked each inductive invariant on the
instance of its run.

| Module | Theorems | Inductive invariant |
|---|---|---|
| `GdsOffloadingWorker_proofs` | `TypeCorrect`, `SlotsExclusive`, `SlotsNotLost`, `OperationsOwned`, `ChunksIntact`, `RetriesValid` | `SlotInv`, `Inv` |
| `GdsOffloadingWorkerResults_proofs` | `ResultUnique`, `SuccessTrue`, `FailureTrue`, `ServiceImplemented` | `Inv /\ ResultsInv` |
| `GdsOffloadingManager_proofs` | `TypeCorrect`, `ProtectionExact`, `TransferUnique`, `LoadsPending`, `PendingTrue` | `MgrInv` |
| `CuFilePool_proofs` | `TypeCorrect`, `RefsAreExact`, `CacheIsOpen`, `CapIsSoft`, `ClosedOnlyByFailure`, `GoodFilesSurvive`, `NoGhostFileStays` | `PoolInv`, `FileInv`, `GhostInv` |
| `GdsGcManager_proofs` | `TypeCorrect`, `JobsAreSpared`, `EnoughIsFreed`, `OldestGoFirst` | `GcInv` |
| `GdsRing_proofs` | `TypeCorrect`, `PlansMatch`, `WindowsRegistered`, `LoadsBringBack` | `RingInv`, `ContentInv` |
| `GdsNode_proofs` | `TypeCorrect`, `ForwardTargets`, `OwnTreeIsFound` | `NodeInv` |

### The worker's ring

`SlotInv` adds to the properties themselves `QueueInv` (queues hold submitted jobs
of the right kind, without repetition, that still have items), `FrontInv` (items
past `next_path` are new, the others are not) and `LoopInv` (the snapshot in `todo`
is of items still in the stage the loop expects). Without them an item could be
dispatched twice, or a loop could finish an item twice and free a slot that already
has another owner. The step case does not go through the actions one by one for
every conjunct: `StepKind` shows once that every action, as far as stages and slots
go, is one of five kinds (nothing moves; an item moves on with its slot; an item
gives its slot back; a new item takes a free slot; a new item is refused), and each
conjunct is shown for the five kinds.

`Inv` adds `DataInv`: while an item's data is in its slot (its gather is complete,
or its read is, and it has not given the slot back) the slot holds that item. It
rests on `SlotExclusive` (no other item writes the slot) and on `AsyncOwned` (no
IO or copy is late), and gives `DataIntact` because a write or scatter then
copies what belongs to its item.

### The worker's results

`ResultsInv` says of every item what its stage, future and event tell of its chunk
(`ItemInv`), of every job that `done_count` is the number of its finished items
(`CountInv`) and `ok_all` the conjunction of what arrived (`VerdictInv`), and of the
sequence of results that it has one for each submitted job whose items are all
finished, and none twice (`ReportInv`). `PathDone` compares two numbers; that it
fires exactly when the last item ends is `CountInv` and a lemma on cardinalities.
Steps are sorted once into those about results: a job is submitted, an item
finishes, results are handed out, and nothing. `ServiceImplemented` maps these to
`TSubmit`, `TFinish` (or a stutter), `TCollect` and a stutter, under the mapping the
run `worker_live` uses; it is the safety part of `ServiceSpec`.

### The manager

`Counted` ties both counters to the cardinality of the uses: pairs of a job in
flight and one of its chunks, since a job may be on several and, after a reset, a
chunk in several jobs. `UsedOnce` is the agreement of `_entries` and the jobs
before the first reset. After one, `inflightStores` is only known to lie between
zero and the uses (completions of forgotten stores are still subtracted, down to
zero); the load counter and `ProtectedExact` do not depend on resets. `Shape` holds the types
that count nothing, as the bounds of `TypeOK` on the counters follow from `Counted`.

### The pool

- `PoolInv` is about handles. `Counted`: a live entry has at least as many references
  as threads hold it, exactly as many while it is cached; `Reached`: a live entry is
  cached or some thread's; `Fresh`: an entry about to be inserted is open and its
  thread's alone; `Room`: the cache holds at most `CacheMax` handles and one per
  thread. `Room` is proved from the eviction itself: if the cache is over the cap,
  what `_evict` left is in use. From it follow `CapIsSoft`, and that a free entry
  number and inode number always exist, so that the finite sets of identities lose
  no behaviour.
- `FileInv` is about names, on the paths that are not in `mixed`: `WriterAlone` and
  `WriterCache` (nobody else uses the path of a writer; this is what `mixed` means),
  `Owners` (a file has one path), `NamedEntries` (while the file of a path has
  content, every entry of the path is on that file), and `Failures`, which keeps
  accounts: to close a good file's handle takes one failure, a second attempt took
  another, and an unlink needs both. That is why two faults are the exact bound of
  `GoodFileSurvives`.
- `GhostInv` is about the paths that are in neither history variable: an empty file
  there has somebody who is bound to fill it or to fail and unlink it (`Ghosts`).
  `NoneWhole`, `FreshNamed` and `WriterNamed` say why he cannot succeed by accident:
  no handle he may be given is on a whole file that the path named before. No number
  of failures is assumed.

### The GC

A sweep works on three copies that are older than the files. `KeptListed`: the copy
of the protected paths still has the chunk of every job that was in flight when it
was made (for which the counts of `protect` and `release` must be exact);
`PassedSpared`: what the loop has passed is spared or is no longer the file of the
list; `LeftCovers`: `total - freed` is at least the bytes of what is still to come and
of what the list still has right. The last gives `EnoughFreed` when the loop stops
early, `PassedSpared` when it reaches the end.

### The ring

- Plans. `_plan_job` joins, group after group, the pages of the request and the
  items of its chunks. `Joined` says where the elements of a part are in the whole:
  after the sum of the lengths before it (`FlattenAt`, and `Total` from
  `DataLemmas`). What is left of `PlansMatch` is arithmetic on blocks and chunks:
  slice `c` of the plan is the set of blocks of chunk `FirstChunk + c`, `Off` counts
  the pages of the groups before, and `Rel` is the place of the block in its chunk.
- `RingInv` is the shape of the state. `JobInv`: the job is the plan of its request
  (with the slot of every item that has data in one), and the files it reads are
  there; `Memory`: ring, files and pages have their sizes, whatever is in them;
  `Registration`: the buffers that are registered are those of the mode until a shutdown, and
  after one no IO is running while only one worker has had the pool. It holds for any number of references in a
  group. That no copy or IO leaves its slot, page or file, which `Memory` needs,
  comes from the sizes: a chunk padded to `Align` is no longer than a slot, and
  slots do not overlap (`AddressFacts`). `WindowsRegistered` follows from
  `Registration` and the same bounds.
- `ContentInv` is what the bytes are, for the one job at a time of the model:
  `FilesHold` (a file has the blocks of its chunk, those beyond the request
  included, since a store covers whole chunks), `SlotsHold` (so has the slot of a
  store item until its write has ended, and of a load item from its read on),
  `SlotsApart` (no slot has two items), `Whole` (a store asks for whole chunks), and
  `PagesOf`: the pages of a load are those of the request where an item that is
  done has a copy, and untouched elsewhere. When all items are done that is
  `InPages`, because every block that is asked for has an item (`PlanMatches`): the
  round trip.
- `LoadsBringBack` assumes `OneReference`: every group has one reference to the
  caches. It cannot be done without: with two, the offsets of a slice overlap, and
  the run `ring_overlap` shows a chunk that lost bytes. The three other theorems do
  not assume it.

### The node

`Patched`: `worker.py` has the method as soon as the script is past it, until the
container is made anew. `OwnTree`: an engine that had its tree still has it, and
sweeps it if it is alone, since only the engine's own tree is made while it runs.

### How the proofs are made

- Induction over finite sets and numbers, which the library states for operators
  that no installed prover can instantiate, is done by the least counterexample
  instead: `LeastSet` and `LeastNumber` in `DataLemmas` give a smallest set or number
  of a nonempty collection. Sums over sets (`Total`, the `MapThenSumSet` of the GC)
  and `Without` are handled in this way.
- `Lists!Without` takes the place of `SelectSeq`, which the prover does not know; the
  run of each module using it checks the same behaviours.
- Assumptions. `NoneAssumption` (in four modules) says that `None` is not one of the
  records it is told from; the other assumptions fix types, finiteness and positive
  sizes. None restricts how many jobs, items, slots, threads, paths, retries, resets
  or faults there are.

### Only model-checked

- Liveness: `WaitReturns`, `PendingResolves`, `BudgetRestored` and the liveness half
  of `ServiceSpec` (fairness is out of the prover's reach).
- That the code has the flaws listed under Findings: those are counterexamples, and
  each needs its instance only.

## 6. Not modelled

- Worker: `shutdown()` while a pump sleeps past the 5 s join (spec.py:1006), the
  sleeps between retries, debug logging and statistics. `submit_load` without paths
  raises `NameError` (spec.py:969) and is excluded by `WorkerAssumption`.
- Planning: requests that end inside a chunk (the assertion at spec.py:674 fails).
  The degenerate slice (spec.py:625-639) is not reached by any request, since the
  number of chunks is rounded down.
- Ring: two workers that both have jobs; a second `get_pool` with another geometry;
  slots that stay registered after a shutdown in compat mode.
- Pool: the shutdown of a second worker that shares it. GC: an `os.unlink` that fails
  for a file that stays.
- Manager: KV events, `RETRY` answers of `sync_lookup=False`, `shutdown()`.
- Deployment: the text the patches match, the structured-outputs guard (a patch of
  an unrelated file), the import check of `run.sh`; the platform steps (device
  nodes, kernel module).
- Smoke and replay scripts and the NVFP4 patch have no state of their own.
- A single model of manager, worker, pool and GC together: each module models the
  others' visible steps instead (`GcUnlink`, `SweepUnlinks`, `StartJob`, and
  `Begin`, which allows what the manager does after a reset), because the product
  exceeds what TLC can search with more than one chunk.

## 7. Plan

All modules are in place and every safety property of a passing run is proved. What
could still be added:

1. An abstract specification of the manager's accounting (the set of uses of each
   chunk) and of the pool (files by name, no handles), with the refinement proved
   from `MgrInv` and `FileInv`.
2. What `RoundTrip` becomes with several references in a group: the bytes of a chunk
   that no later copy covers, from `Hits`, in place of `OneReference`.
3. Two workers of one process with jobs of both, and a second `get_pool` with another
   geometry (a hazard without a property).
4. In `GdsGcManager`, an `os.unlink` that fails for a file that stays, with what is
   left of `EnoughFreed` then.
5. Runs for the three disagreements of section 4 that have none.
