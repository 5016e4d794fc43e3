------------------------- MODULE GdsOffloadingWorker -------------------------
(***************************************************************************)
(* The worker side of the GDS backend: class GdsOffloadingWorker of        *)
(* gds_direct_v1/pkg/gds/spec.py.  A store job copies GPU blocks into ring *)
(* slots (gather) and writes each slot to its chunk file; a load job reads *)
(* chunk files into ring slots and copies them back to the GPU (scatter).  *)
(*                                                                         *)
(* Four kinds of actors share the ring:                                    *)
(*   - the engine thread (submit_*, get_finished, wait) runs _pump under   *)
(*     self._lock;                                                         *)
(*   - the thread gds_load_io runs _pump_load_reads under self._lock;      *)
(*   - the IO threads run write_slot / read_slot without the lock;         *)
(*   - the GPU streams copy between GPU blocks and ring slots.             *)
(* A critical section is a sequence of steps: "phase" is the loop its      *)
(* holder is in and "todo" the items that loop has still to visit, so IO   *)
(* and copies complete between any two steps of a pump.                    *)
(*                                                                         *)
(* A definition named Mut... is a plausible bug in the definition after    *)
(* it; TLC finds a property violated once it takes that one's place.       *)
(***************************************************************************)
EXTENDS Naturals, Sequences, FiniteSets

CONSTANTS
  StoreJobs,  \* job ids given to submit_store
  LoadJobs,   \* job ids given to submit_load
  NumItems,   \* number of chunk files (paths) of each job
  Slots,      \* ring slots, 0 .. ring_depth - 1 in the code
  NoSlot,     \* slot = -1
  Junk,       \* what a slot holds before, or in the middle of, a copy
  MaxRetries  \* 3 in the code

Jobs == StoreJobs \cup LoadJobs

\* A _PathItem: item n of job j transfers the chunk file j.paths[n].
ItemsOf(j) == {<<j, n>> : n \in 0..(NumItems[j] - 1)}
Items == UNION {ItemsOf(j) : j \in Jobs}
IsStore(i) == i[1] \in StoreJobs
IsLoad(i) == i[1] \in LoadJobs

\* submit_load of a job without paths raises NameError (spec.py:969) and is
\* excluded here; submit_store of one is a case of SubmitStore.
ASSUME WorkerAssumption ==
  /\ StoreJobs \cap LoadJobs = {}
  /\ NumItems \in [Jobs -> Nat]
  /\ \A j \in LoadJobs : NumItems[j] > 0
  /\ NoSlot \notin Slots
  /\ Junk \notin Items
  /\ MaxRetries \in Nat

VARIABLES
  phase,       \* "unlocked", or the loop the holder of self._lock is in
  todo,        \* items the current loop has still to visit
  call,        \* the engine-thread call that owns the critical section
  waiting,     \* job ids wait() has not yet seen finish
  jobsStore,   \* self._jobs_store
  jobsLoad,    \* self._jobs_load
  nextPath,    \* job.next_path
  doneCount,   \* job.done_count
  okAll,       \* job.ok_all
  freeSlots,   \* self._free_slots
  stage,       \* item.stage; "done" once _path_done has counted the item
  slot,        \* item.slot
  ok,          \* item.ok
  retries,     \* item.retries
  event,       \* item.ev_end: "none", "pending", "complete"
  future,      \* item.future: "none", "running", "ok", "failed"
  results,     \* self._results
  doneResults, \* keys of self._done_results
  submitted,   \* jobs submitted so far
  returned,    \* every result get_finished has handed out
  slotData,    \* the chunk a ring slot holds
  chunk,       \* the chunk file of an item
  kv           \* the GPU blocks a load item fills

ctlVars  == <<phase, todo, call, waiting>>
jobVars  == <<jobsStore, jobsLoad, nextPath, submitted>>
doneVars == <<freeSlots, doneCount, okAll, results, doneResults>>
itemVars == <<stage, slot, ok, retries, event, future>>
dataVars == <<slotData, chunk, kv>>
vars == <<ctlVars, jobVars, doneVars, itemVars, dataVars, returned>>

EnginePhases == {"dispatch_store", "poll_gather", "harvest_store", "poll_scatter"}
LoaderPhases == {"dispatch_load", "harvest_load"}
Stages == {"new", "gather", "io", "read_done", "scattered", "bad", "done"}
Result == [job : Jobs, success : BOOLEAN]

\* An item owns its slot from the pop of _free_slots to _path_done.
Holding(i) == stage[i] \in {"gather", "io", "read_done", "scattered"}
Finished(i) == stage[i] \in {"bad", "done"}
\* An IO thread or a GPU stream is using the slot of item i right now.
Busy(i) == event[i] = "pending" \/ future[i] = "running"

\* The items the code keeps in _inflight_gather, _io_store, _io_load and
\* _pending_scatter; their order in those containers is not kept.
InflightGather == {i \in Items : IsStore(i) /\ stage[i] = "gather"}
IoStore == {i \in Items : IsStore(i) /\ stage[i] = "io"}
IoLoad == {i \in Items : IsLoad(i) /\ stage[i] = "io"}
PendingScatter == {i \in Items : IsLoad(i) /\ stage[i] \in {"read_done", "scattered"}}

-----------------------------------------------------------------------------
(* Initial state: no job; the files of load items may have been collected. *)

Init ==
  /\ phase = "unlocked" /\ todo = {} /\ call = "none" /\ waiting = {}
  /\ jobsStore = <<>> /\ jobsLoad = <<>>
  /\ nextPath = [j \in Jobs |-> 0]
  /\ doneCount = [j \in Jobs |-> 0]
  /\ okAll = [j \in Jobs |-> TRUE]
  /\ freeSlots = Slots
  /\ stage = [i \in Items |-> "new"]
  /\ slot = [i \in Items |-> NoSlot]
  /\ ok = [i \in Items |-> FALSE]
  /\ retries = [i \in Items |-> 0]
  /\ event = [i \in Items |-> "none"]
  /\ future = [i \in Items |-> "none"]
  /\ results = <<>> /\ doneResults = {} /\ submitted = {} /\ returned = <<>>
  /\ slotData = [s \in Slots |-> Junk]
  /\ chunk \in [Items -> {"absent", "whole"}]
  /\ \A i \in Items : IsStore(i) => chunk[i] = "absent"
  /\ kv = [i \in Items |-> "missing"]

-----------------------------------------------------------------------------
(* Helpers of both pumps. *)

\* The item at the front of a job queue, and the queue once it is taken: a
\* job stays at the front until its last item is dispatched.
NextItem(q) == <<Head(q), nextPath[Head(q)]>>
MutAfterNext(q) == IF nextPath[Head(q)] + 2 >= NumItems[Head(q)] THEN Tail(q) ELSE q
AfterNext(q) == IF nextPath[Head(q)] + 1 >= NumItems[Head(q)] THEN Tail(q) ELSE q

\* One iteration of a polling loop over its snapshot of a container.
Visit(p, i) ==
  /\ phase = p
  /\ i \in todo
  /\ todo' = todo \ {i}
  /\ UNCHANGED <<phase, call, waiting>>

\* The lock holder goes on to loop p over the items of S.
Goto(p, S) ==
  /\ phase' = p
  /\ todo' = S

\* The pop and the push of _free_slots.
MutTakeSlot(s) == s \in freeSlots /\ freeSlots' = freeSlots
TakeSlot(s) == s \in freeSlots /\ freeSlots' = freeSlots \ {s}

MutRecycle(s) == freeSlots' = freeSlots
Recycle(s) == freeSlots' = freeSlots \cup {s}

\* ev_end.query()
MutCopied(i) == TRUE
Copied(i) == event[i] = "complete"

MutRetriesLeft(i) == retries[i] <= MaxRetries
RetriesLeft(i) == retries[i] < MaxRetries

\* What is left of ok_all once item i has ended with itemOk.
MutOkSoFarLast(i, itemOk) == itemOk
MutOkSoFarRetried(i, itemOk) == okAll[i[1]] /\ itemOk /\ retries[i] = 0
OkSoFar(i, itemOk) == okAll[i[1]] /\ itemOk

MutLastItem(j) == nextPath[j] >= NumItems[j]
LastItem(j) == doneCount[j] + 1 >= NumItems[j]

\* _path_done: recycle slot s, count item i and finish its job with the last.
PathDone(i, s, itemOk) ==
  LET j == i[1] IN
  /\ Recycle(s)
  /\ doneCount' = [doneCount EXCEPT ![j] = @ + 1]
  /\ okAll' = [okAll EXCEPT ![j] = OkSoFar(i, itemOk)]
  /\ IF LastItem(j)
     THEN /\ results' = Append(results, [job |-> j, success |-> OkSoFar(i, itemOk)])
          /\ doneResults' = doneResults \cup {j}
     ELSE UNCHANGED <<results, doneResults>>

\* The branches of a harvest loop that store and load items share: the
\* future is still running, or it failed and the IO is submitted again.
HarvestRunning(p, i) ==
  /\ Visit(p, i)
  /\ future[i] = "running"
  /\ UNCHANGED <<jobVars, doneVars, itemVars, dataVars, returned>>

HarvestRetry(p, i) ==
  /\ Visit(p, i)
  /\ future[i] = "failed" /\ RetriesLeft(i)
  /\ ok' = [ok EXCEPT ![i] = FALSE]
  /\ retries' = [retries EXCEPT ![i] = @ + 1]
  /\ future' = [future EXCEPT ![i] = "running"]
  /\ UNCHANGED <<jobVars, doneVars, stage, slot, event, dataVars, returned>>

HarvestGiveUp(p, i) ==
  /\ Visit(p, i)
  /\ future[i] = "failed" /\ ~RetriesLeft(i)
  /\ ok' = [ok EXCEPT ![i] = FALSE]
  /\ stage' = [stage EXCEPT ![i] = "done"]
  /\ PathDone(i, slot[i], FALSE)
  /\ UNCHANGED <<jobVars, slot, retries, event, future, dataVars, returned>>

-----------------------------------------------------------------------------
(* Engine thread: submit_store, submit_load, get_finished, wait. *)

\* _submit of a store queues the job and pumps; a job without paths gets its
\* result at once.
SubmitStore(j) ==
  /\ phase = "unlocked" /\ waiting = {}
  /\ j \in StoreJobs \ submitted
  /\ submitted' = submitted \cup {j}
  /\ IF NumItems[j] = 0
     THEN /\ results' = Append(results, [job |-> j, success |-> TRUE])
          /\ doneResults' = doneResults \cup {j}
          /\ UNCHANGED <<ctlVars, jobsStore>>
     ELSE /\ jobsStore' = Append(jobsStore, j)
          /\ Goto("dispatch_store", {})
          /\ call' = "submit"
          /\ UNCHANGED <<waiting, results, doneResults>>
  /\ UNCHANGED <<jobsLoad, nextPath, freeSlots, doneCount, okAll, itemVars, dataVars,
                 returned>>

\* _submit of a load only queues the job: gds_load_io does the rest.
SubmitLoad(j) ==
  /\ phase = "unlocked" /\ waiting = {}
  /\ j \in LoadJobs \ submitted
  /\ submitted' = submitted \cup {j}
  /\ jobsLoad' = Append(jobsLoad, j)
  /\ UNCHANGED <<ctlVars, jobsStore, nextPath, doneVars, itemVars, dataVars, returned>>

GetFinished ==
  /\ phase = "unlocked" /\ waiting = {}
  /\ Goto("dispatch_store", {})
  /\ call' = "get_finished"
  /\ UNCHANGED <<waiting, jobVars, doneVars, itemVars, dataVars, returned>>

\* wait(js) keeps the engine thread until every job of js has a result.
Wait(js) ==
  /\ phase = "unlocked" /\ waiting = {}
  /\ js # {} /\ js \subseteq submitted
  /\ waiting' = js
  /\ UNCHANGED <<phase, todo, call, jobVars, doneVars, itemVars, dataVars, returned>>

WaitPoll ==
  /\ phase = "unlocked" /\ waiting # {}
  /\ Goto("dispatch_store", {})
  /\ call' = "wait"
  /\ UNCHANGED <<waiting, jobVars, doneVars, itemVars, dataVars, returned>>

-----------------------------------------------------------------------------
(* Engine thread: _pump_store. *)

\* The next item takes a slot and its gather is enqueued on the store stream.
DispatchStore(s) ==
  /\ phase = "dispatch_store" /\ jobsStore # <<>>
  /\ LET i == NextItem(jobsStore) IN
     /\ nextPath' = [nextPath EXCEPT ![i[1]] = @ + 1]
     /\ slot' = [slot EXCEPT ![i] = s]
     /\ stage' = [stage EXCEPT ![i] = "gather"]
     /\ event' = [event EXCEPT ![i] = "pending"]
  /\ jobsStore' = AfterNext(jobsStore)
  /\ TakeSlot(s)
  /\ slotData' = [slotData EXCEPT ![s] = Junk]
  /\ UNCHANGED <<ctlVars, jobsLoad, submitted, doneCount, okAll, results, doneResults,
                 ok, retries, future, chunk, kv, returned>>

\* _validate_item refuses the plan: no copy, no IO, the item counts as failed.
RejectStore(s) ==
  /\ phase = "dispatch_store" /\ jobsStore # <<>> /\ s \in freeSlots
  /\ LET i == NextItem(jobsStore) IN
     /\ nextPath' = [nextPath EXCEPT ![i[1]] = @ + 1]
     /\ slot' = [slot EXCEPT ![i] = s]
     /\ stage' = [stage EXCEPT ![i] = "bad"]
     /\ PathDone(i, s, ok[i])
  /\ jobsStore' = AfterNext(jobsStore)
  /\ UNCHANGED <<ctlVars, jobsLoad, submitted, ok, retries, event, future, dataVars,
                 returned>>

DispatchStoreEnd ==
  /\ phase = "dispatch_store"
  /\ jobsStore = <<>> \/ freeSlots = {}
  /\ Goto("poll_gather", InflightGather)
  /\ UNCHANGED <<call, waiting, jobVars, doneVars, itemVars, dataVars, returned>>

\* ev_end.query() of a gather: a finished one hands its slot to write_slot.
PollGather(i) ==
  /\ Visit("poll_gather", i)
  /\ IF Copied(i)
     THEN /\ stage' = [stage EXCEPT ![i] = "io"]
          /\ future' = [future EXCEPT ![i] = "running"]
     ELSE UNCHANGED <<stage, future>>
  /\ UNCHANGED <<jobVars, doneVars, slot, ok, retries, event, dataVars, returned>>

PollGatherEnd ==
  /\ phase = "poll_gather" /\ todo = {}
  /\ Goto("harvest_store", IoStore)
  /\ UNCHANGED <<call, waiting, jobVars, doneVars, itemVars, dataVars, returned>>

HarvestStoreOk(i) ==
  /\ Visit("harvest_store", i)
  /\ future[i] = "ok"
  /\ ok' = [ok EXCEPT ![i] = TRUE]
  /\ stage' = [stage EXCEPT ![i] = "done"]
  /\ PathDone(i, slot[i], TRUE)
  /\ UNCHANGED <<jobVars, slot, retries, event, future, dataVars, returned>>

HarvestStore(i) ==
  \/ HarvestRunning("harvest_store", i)
  \/ HarvestRetry("harvest_store", i)
  \/ HarvestGiveUp("harvest_store", i)
  \/ HarvestStoreOk(i)

MutHarvestStoreEnd ==
  /\ phase = "harvest_store" /\ todo = {}
  /\ Goto("poll_scatter", IF call = "wait" THEN {} ELSE PendingScatter)
  /\ UNCHANGED <<call, waiting, jobVars, doneVars, itemVars, dataVars, returned>>

HarvestStoreEnd ==
  /\ phase = "harvest_store" /\ todo = {}
  /\ Goto("poll_scatter", PendingScatter)
  /\ UNCHANGED <<call, waiting, jobVars, doneVars, itemVars, dataVars, returned>>

-----------------------------------------------------------------------------
(* Engine thread: _pump_scatter, and the end of the critical section. *)

\* The scatter of a chunk that was read is enqueued on the load stream; the
\* same iteration then polls it, so the item stays in todo.
IssueScatter(i) ==
  /\ phase = "poll_scatter" /\ i \in todo
  /\ stage[i] = "read_done"
  /\ stage' = [stage EXCEPT ![i] = "scattered"]
  /\ event' = [event EXCEPT ![i] = "pending"]
  /\ UNCHANGED <<ctlVars, jobVars, doneVars, slot, ok, retries, future, dataVars, returned>>

\* _validate_item refuses the plan after the read succeeded: the scatter is
\* skipped and the item counts with the ok flag of its read.
RejectScatter(i) ==
  /\ Visit("poll_scatter", i)
  /\ stage[i] = "read_done"
  /\ stage' = [stage EXCEPT ![i] = "bad"]
  /\ PathDone(i, slot[i], ok[i])
  /\ UNCHANGED <<jobVars, slot, ok, retries, event, future, dataVars, returned>>

PollScatter(i) ==
  /\ Visit("poll_scatter", i)
  /\ stage[i] = "scattered"
  /\ IF Copied(i)
     THEN /\ stage' = [stage EXCEPT ![i] = "done"]
          /\ PathDone(i, slot[i], ok[i])
     ELSE UNCHANGED <<stage, doneVars>>
  /\ UNCHANGED <<jobVars, slot, ok, retries, event, future, dataVars, returned>>

\* The pump is over: get_finished drains _results, wait drops the finished
\* ids, and the lock is released.
PumpEnd ==
  /\ phase = "poll_scatter" /\ todo = {}
  /\ Goto("unlocked", {})
  /\ call' = "none"
  /\ IF call = "get_finished"
     THEN /\ returned' = returned \o results
          /\ results' = <<>>
     ELSE UNCHANGED <<returned, results>>
  /\ waiting' = IF call = "wait" THEN waiting \ doneResults ELSE waiting
  /\ UNCHANGED <<jobVars, freeSlots, doneCount, okAll, doneResults, itemVars, dataVars>>

-----------------------------------------------------------------------------
(* Thread gds_load_io: _load_loop and _pump_load_reads. *)

LoaderLock ==
  /\ phase = "unlocked"
  /\ Goto("dispatch_load", {})
  /\ UNCHANGED <<call, waiting, jobVars, doneVars, itemVars, dataVars, returned>>

DispatchLoad(s) ==
  /\ phase = "dispatch_load" /\ jobsLoad # <<>>
  /\ LET i == NextItem(jobsLoad) IN
     /\ nextPath' = [nextPath EXCEPT ![i[1]] = @ + 1]
     /\ slot' = [slot EXCEPT ![i] = s]
     /\ stage' = [stage EXCEPT ![i] = "io"]
     /\ future' = [future EXCEPT ![i] = "running"]
  /\ jobsLoad' = AfterNext(jobsLoad)
  /\ TakeSlot(s)
  /\ slotData' = [slotData EXCEPT ![s] = Junk]
  /\ UNCHANGED <<ctlVars, jobsStore, submitted, doneCount, okAll, results, doneResults,
                 ok, retries, event, chunk, kv, returned>>

DispatchLoadEnd ==
  /\ phase = "dispatch_load"
  /\ jobsLoad = <<>> \/ freeSlots = {}
  /\ Goto("harvest_load", IoLoad)
  /\ UNCHANGED <<call, waiting, jobVars, doneVars, itemVars, dataVars, returned>>

\* A chunk that was read waits in _pending_scatter for the engine thread.
HarvestLoadOk(i) ==
  /\ Visit("harvest_load", i)
  /\ future[i] = "ok"
  /\ ok' = [ok EXCEPT ![i] = TRUE]
  /\ stage' = [stage EXCEPT ![i] = "read_done"]
  /\ UNCHANGED <<jobVars, doneVars, slot, retries, event, future, dataVars, returned>>

HarvestLoad(i) ==
  \/ HarvestRunning("harvest_load", i)
  \/ HarvestRetry("harvest_load", i)
  \/ HarvestGiveUp("harvest_load", i)
  \/ HarvestLoadOk(i)

HarvestLoadEnd ==
  /\ phase = "harvest_load" /\ todo = {}
  /\ Goto("unlocked", {})
  /\ UNCHANGED <<call, waiting, jobVars, doneVars, itemVars, dataVars, returned>>

-----------------------------------------------------------------------------
(* IO threads and GPU streams: they need no lock and use the slot their    *)
(* item held when the operation was issued.                                *)

IoUnchanged == UNCHANGED <<ctlVars, jobVars, doneVars, stage, slot, ok, retries, returned>>

GatherCopied(i) ==
  /\ IsStore(i) /\ event[i] = "pending"
  /\ event' = [event EXCEPT ![i] = "complete"]
  /\ slotData' = [slotData EXCEPT ![slot[i]] = i]
  /\ UNCHANGED <<future, chunk, kv>> /\ IoUnchanged

ScatterCopied(i) ==
  /\ IsLoad(i) /\ event[i] = "pending"
  /\ event' = [event EXCEPT ![i] = "complete"]
  /\ kv' = [kv EXCEPT ![i] = IF slotData[slot[i]] = i THEN "loaded" ELSE "wrong"]
  /\ UNCHANGED <<future, slotData, chunk>> /\ IoUnchanged

\* write_slot returns True, or unlinks the file and returns False.
WriteSlot(i) ==
  /\ IsStore(i) /\ future[i] = "running"
  /\ \/ /\ future' = [future EXCEPT ![i] = "ok"]
        /\ chunk' = [chunk EXCEPT ![i] = IF slotData[slot[i]] = i THEN "whole" ELSE "wrong"]
     \/ /\ future' = [future EXCEPT ![i] = "failed"]
        /\ chunk' = [chunk EXCEPT ![i] = "absent"]
  /\ UNCHANGED <<event, slotData, kv>> /\ IoUnchanged

\* read_slot needs the whole file to return True; when it returns False it has
\* tried to unlink the file.
ReadSlot(i) ==
  /\ IsLoad(i) /\ future[i] = "running"
  /\ \/ /\ chunk[i] = "whole"
        /\ future' = [future EXCEPT ![i] = "ok"]
        /\ slotData' = [slotData EXCEPT ![slot[i]] = i]
        /\ UNCHANGED chunk
     \/ /\ future' = [future EXCEPT ![i] = "failed"]
        /\ slotData' = [slotData EXCEPT ![slot[i]] = Junk]
        /\ \/ chunk' = [chunk EXCEPT ![i] = "absent"]
           \/ UNCHANGED chunk
  /\ UNCHANGED <<event, kv>> /\ IoUnchanged

-----------------------------------------------------------------------------

\* The steps the engine thread takes while it holds the lock.
EngineStep ==
  \/ \E s \in Slots : DispatchStore(s) \/ RejectStore(s)
  \/ DispatchStoreEnd
  \/ \E i \in Items : PollGather(i)
  \/ PollGatherEnd
  \/ \E i \in Items : HarvestStore(i)
  \/ HarvestStoreEnd
  \/ \E i \in Items : IssueScatter(i) \/ RejectScatter(i) \/ PollScatter(i)
  \/ PumpEnd

\* The steps gds_load_io takes while it holds the lock.
LoaderStep ==
  \/ \E s \in Slots : DispatchLoad(s)
  \/ DispatchLoadEnd
  \/ \E i \in Items : HarvestLoad(i)
  \/ HarvestLoadEnd

DeviceStep(i) == GatherCopied(i) \/ ScatterCopied(i) \/ WriteSlot(i) \/ ReadSlot(i)

Next ==
  \/ \E j \in StoreJobs : SubmitStore(j)
  \/ \E j \in LoadJobs : SubmitLoad(j)
  \/ GetFinished
  \/ \E js \in SUBSET Jobs : Wait(js)
  \/ WaitPoll
  \/ EngineStep
  \/ LoaderLock
  \/ LoaderStep
  \/ \E i \in Items : DeviceStep(i)

Spec == Init /\ [][Next]_vars

(***************************************************************************)
(* Fairness.  A thread inside its critical section keeps running, every    *)
(* copy and IO ends.  The engine keeps calling get_finished while          *)
(* has_pending_work() is true, and wait() polls in a loop; both, and       *)
(* gds_load_io, sleep or leave the lock between two rounds, so neither     *)
(* starves the other: strong fairness of taking the lock.                  *)
(***************************************************************************)
Fairness ==
  /\ WF_vars(EngineStep)
  /\ WF_vars(LoaderStep)
  /\ \A i \in Items : WF_vars(DeviceStep(i))
  /\ SF_vars(GetFinished)
  /\ SF_vars(WaitPoll)
  /\ SF_vars(LoaderLock)

FairSpec == Spec /\ Fairness

-----------------------------------------------------------------------------
(* Properties. *)

\* The type invariant.
TypeOK ==
  /\ phase \in {"unlocked"} \cup EnginePhases \cup LoaderPhases
  /\ todo \subseteq Items
  /\ call \in {"none", "submit", "get_finished", "wait"}
  /\ waiting \subseteq Jobs
  /\ jobsStore \in Seq(StoreJobs) /\ jobsLoad \in Seq(LoadJobs)
  /\ nextPath \in [Jobs -> Nat] /\ doneCount \in [Jobs -> Nat]
  /\ okAll \in [Jobs -> BOOLEAN]
  /\ freeSlots \subseteq Slots
  /\ stage \in [Items -> Stages]
  /\ slot \in [Items -> Slots \cup {NoSlot}]
  /\ ok \in [Items -> BOOLEAN]
  /\ retries \in [Items -> 0..MaxRetries]
  /\ event \in [Items -> {"none", "pending", "complete"}]
  /\ future \in [Items -> {"none", "running", "ok", "failed"}]
  /\ results \in Seq(Result) /\ returned \in Seq(Result)
  /\ doneResults \subseteq Jobs /\ submitted \subseteq Jobs
  /\ slotData \in [Slots -> Items \cup {Junk}]
  /\ chunk \in [Items -> {"absent", "whole", "wrong"}]
  /\ kv \in [Items -> {"missing", "loaded", "wrong"}]

\* A ring slot has one owner at a time and the free list none that is owned,
\* although the engine thread and gds_load_io both pop and push it.
SlotExclusive ==
  /\ \A i \in Items : Holding(i) => slot[i] \in Slots \ freeSlots
  /\ \A i, k \in Items : Holding(i) /\ Holding(k) /\ slot[i] = slot[k] => i = k

\* No error path loses a slot: each is free or held by an unfinished item.
NoSlotLost == \A s \in Slots \ freeSlots : \E i \in Items : Holding(i) /\ slot[i] = s

\* No IO thread and no GPU stream touches a slot its item has given back: an
\* operation in flight has an owner that still waits for it.
AsyncOwned ==
  \A i \in Items :
    /\ event[i] = "pending" => stage[i] \in {"gather", "scattered"}
    /\ future[i] = "running" => stage[i] = "io"

\* A job has exactly one TransferResult, from the moment its last path is
\* done, whatever mix of successes, retries, failures and refused items.
ResultsOf(j) == {n \in 1..Len(returned \o results) : (returned \o results)[n].job = j}
OneResultPerJob ==
  \A j \in Jobs :
    Cardinality(ResultsOf(j)) =
      IF j \in submitted /\ (\A i \in ItemsOf(j) : Finished(i)) THEN 1 ELSE 0

\* What a successful result promises: every chunk of a store is on disk and
\* every chunk of a load is in the GPU blocks, those apart that _validate_item
\* refused, which are to leave a hole and not to fail the job.
SuccessIsTrue ==
  \A n \in 1..Len(returned \o results) :
    LET r == (returned \o results)[n] IN
    r.success =>
      \A i \in ItemsOf(r.job) :
        \/ stage[i] = "bad"
        \/ IF IsStore(i) THEN chunk[i] = "whole" ELSE kv[i] = "loaded"

\* A failed result names a real failure: a job whose chunks all arrived is not
\* reported as failed, even when some of its IO had to be retried.
FailureIsTrue ==
  \A n \in 1..Len(returned \o results) :
    LET r == (returned \o results)[n] IN
    ~r.success =>
      \E i \in ItemsOf(r.job) :
        IF IsStore(i) THEN chunk[i] = "absent" ELSE kv[i] = "missing"

\* Chunks never mix: no file and no GPU block receives the data of another
\* item, or a slot that is half copied.
DataIntact == \A i \in Items : chunk[i] # "wrong" /\ kv[i] # "wrong"

\* A retried write still finds its data: the slot of a store item in "io" holds
\* the chunk until the write is over ("Slot data is still valid").
RetryDataValid == \A i \in IoStore : slotData[slot[i]] = i

\* A load is reported as loaded only if every chunk is in its GPU blocks.
LoadSuccessFills ==
  \A n \in 1..Len(returned \o results) :
    LET r == (returned \o results)[n] IN
    r.success /\ r.job \in LoadJobs => \A i \in ItemsOf(r.job) : kv[i] = "loaded"

\* A store is reported as failed only for a chunk whose write failed.
RefusedStoreSucceeds ==
  \A n \in 1..Len(returned \o results) :
    LET r == (returned \o results)[n] IN
    ~r.success /\ r.job \in StoreJobs =>
      \E i \in ItemsOf(r.job) : chunk[i] = "absent" /\ stage[i] # "bad"

\* The comment on refused items asks for both: "a failed path must not poison" its
\* job, and the tokens of its chunk are recomputed, hence not reported as loaded.  One
\* of the two is the least it promises; a counterexample breaks both at once.
RefusedLeavesHole == RefusedStoreSucceeds \/ LoadSuccessFills

\* wait() returns: its polling alone drives the jobs it waits for to their end.
WaitReturns == waiting # {} ~> waiting = {}

\* The worker implements the service the connector relies on.
Service == INSTANCE TransferService WITH finished <- results
ServiceSpec == Service!TSpec
=============================================================================
