---------------------- MODULE GdsOffloadingWorker_proofs ----------------------
(***************************************************************************)
(* Theorems about GdsOffloadingWorker, for every set of jobs, every number *)
(* of chunks, every ring and every retry limit.                            *)
(***************************************************************************)
EXTENDS GdsOffloadingWorker, SequenceTheorems, TLAPS

-----------------------------------------------------------------------------
(* Facts about the constants and the helpers. *)

\* An item is a pair of its job and an index below the job's number of items.
LEMMA ItemParts ==
  /\ \A i \in Items : i[1] \in Jobs /\ i[2] \in Nat /\ i[2] < NumItems[i[1]] /\ i = <<i[1], i[2]>>
  /\ \A j \in Jobs, n \in Nat : n < NumItems[j] => <<j, n>> \in Items
BY WorkerAssumption DEF Items, ItemsOf, Jobs

\* _path_done keeps the types, whatever item it is called for.
LEMMA PathDoneType ==
  ASSUME TypeOK, NEW i, NEW s \in Slots, NEW b \in BOOLEAN, i[1] \in Jobs,
         PathDone(i, s, b)
  PROVE  /\ freeSlots' \subseteq Slots
         /\ doneCount' \in [Jobs -> Nat]
         /\ okAll' \in [Jobs -> BOOLEAN]
         /\ results' \in Seq(Result)
         /\ doneResults' \subseteq Jobs
<1>1. freeSlots' \subseteq Slots /\ doneCount' \in [Jobs -> Nat] /\ okAll' \in [Jobs -> BOOLEAN]
  BY DEF PathDone, Recycle, OkSoFar, TypeOK
<1>2. doneResults' \subseteq Jobs
  BY DEF PathDone, TypeOK
<1>3. [job |-> i[1], success |-> okAll[i[1]] /\ b] \in Result
  BY DEF TypeOK, Result
<1>4. results' \in Seq(Result)
  <2>1. results \in Seq(Result)
    BY DEF TypeOK
  <2>2. \/ results' = Append(results, [job |-> i[1], success |-> okAll[i[1]] /\ b])
        \/ results' = results
    BY DEF PathDone, OkSoFar
  <2> QED BY <1>3, <2>1, <2>2
<1> QED BY <1>1, <1>2, <1>4

-----------------------------------------------------------------------------
(* The inductive invariant. *)

\* A queued job is queued once, was submitted and has items left to dispatch.
Queue(q) ==
  /\ \A k \in 1..Len(q) : q[k] \in submitted /\ nextPath[q[k]] < NumItems[q[k]]
  /\ \A k, l \in 1..Len(q) : q[k] = q[l] => k = l

QueueInv ==
  /\ Queue(jobsStore) /\ Queue(jobsLoad)
  /\ \A j \in Jobs \ submitted : nextPath[j] = 0

\* The items of a job are dispatched in order: "new" are those from next_path on.
FrontInv == \A i \in Items : stage[i] = "new" <=> nextPath[i[1]] <= i[2]

\* What a polling loop has still to visit is still in its container.
LoopInv ==
  /\ phase = "poll_gather" => todo \subseteq InflightGather
  /\ phase = "harvest_store" => todo \subseteq IoStore
  /\ phase = "poll_scatter" => todo \subseteq PendingScatter
  /\ phase = "harvest_load" => todo \subseteq IoLoad

SlotInv ==
  TypeOK /\ QueueInv /\ FrontInv /\ LoopInv /\ AsyncOwned /\ SlotExclusive /\ NoSlotLost

\* The stages in which the slot of an item holds its chunk: the gather is
\* complete, the write is not over, the read succeeded or the scatter is not over.
Filled(i) ==
  \/ stage[i] = "gather" /\ event[i] = "complete"
  \/ stage[i] = "io" /\ (IsStore(i) \/ future[i] = "ok")
  \/ stage[i] \in {"read_done", "scattered"}

DataInv ==
  /\ \A i \in Items : Filled(i) => slotData[slot[i]] = i
  /\ \A i \in Items : IsLoad(i) => stage[i] # "gather"
  /\ \A i \in Items : IsStore(i) => stage[i] \notin {"read_done", "scattered"}

Inv == SlotInv /\ DataInv /\ DataIntact
-----------------------------------------------------------------------------
(* The front of a job queue. *)

\* The next item of a queue is an item of the queue's first job.
LEMMA NextItemIn ==
  ASSUME TypeOK, NEW S \in SUBSET Jobs, NEW q \in Seq(S), q # <<>>, Queue(q)
  PROVE  /\ Head(q) \in S
         /\ NextItem(q) \in Items
         /\ NextItem(q) = <<Head(q), nextPath[Head(q)]>>
<1>1. Head(q) = q[1] /\ 1 \in 1..Len(q) /\ Head(q) \in S
  OBVIOUS
<1>2. nextPath[Head(q)] \in Nat /\ nextPath[Head(q)] < NumItems[Head(q)]
  BY <1>1 DEF Queue, TypeOK
<1> QED BY <1>1, <1>2, ItemParts DEF NextItem

\* Taking the next item keeps a sequence of the same jobs.
LEMMA AfterNextType ==
  ASSUME NEW S, NEW q \in Seq(S), q # <<>>
  PROVE  AfterNext(q) \in Seq(S)
BY HeadTailProperties DEF AfterNext

\* It also keeps the queue invariant: a job leaves with its last item.
LEMMA AfterNextQueue ==
  ASSUME TypeOK, NEW S \in SUBSET Jobs, NEW q \in Seq(S), q # <<>>, Queue(q),
         nextPath' = [nextPath EXCEPT ![Head(q)] = @ + 1],
         submitted' = submitted
  PROVE  LET r == AfterNext(q) IN
         /\ \A k \in 1..Len(r) : r[k] \in submitted' /\ nextPath'[r[k]] < NumItems[r[k]]
         /\ \A k, l \in 1..Len(r) : r[k] = r[l] => k = l
<1> DEFINE h == Head(q)
<1>1. h = q[1] /\ h \in S /\ h \in Jobs /\ Len(q) \in Nat /\ 1 \in 1..Len(q)
  OBVIOUS
<1>2. nextPath[h] \in Nat /\ NumItems[h] \in Nat
  BY <1>1, WorkerAssumption DEF TypeOK
<1>3. CASE nextPath[h] + 1 >= NumItems[h]
  <2>1. AfterNext(q) = Tail(q)
    BY <1>3 DEF AfterNext
  <2>2. /\ Len(Tail(q)) = Len(q) - 1
        /\ \A k \in 1..Len(Tail(q)) : k + 1 \in 1..Len(q) /\ Tail(q)[k] = q[k + 1]
    BY <1>1
  <2>3. \A k \in 1..Len(Tail(q)) : Tail(q)[k] \in Jobs /\ Tail(q)[k] # h
    BY <1>1, <2>2 DEF Queue
  <2>4. \A k \in 1..Len(Tail(q)) :
          Tail(q)[k] \in submitted /\ nextPath'[Tail(q)[k]] < NumItems[Tail(q)[k]]
    BY <2>2, <2>3 DEF Queue, TypeOK
  <2>5. \A k, l \in 1..Len(Tail(q)) : Tail(q)[k] = Tail(q)[l] => k = l
    <3> SUFFICES ASSUME NEW k \in 1..Len(Tail(q)), NEW l \in 1..Len(Tail(q)),
                        Tail(q)[k] = Tail(q)[l]
                 PROVE  k = l
      OBVIOUS
    <3>1. k + 1 = l + 1
      BY <2>2 DEF Queue
    <3> QED BY <3>1
  <2> QED BY <2>1, <2>4, <2>5
<1>4. CASE ~(nextPath[h] + 1 >= NumItems[h])
  <2>1. AfterNext(q) = q
    BY <1>4 DEF AfterNext
  <2>2. \A k \in 1..Len(q) : q[k] \in Jobs
    OBVIOUS
  <2>3. \A k \in 1..Len(q) : nextPath'[q[k]] < NumItems[q[k]]
    <3> SUFFICES ASSUME NEW k \in 1..Len(q)
                 PROVE  nextPath'[q[k]] < NumItems[q[k]]
      OBVIOUS
    <3>1. nextPath[q[k]] < NumItems[q[k]]
      BY DEF Queue
    <3>2. nextPath'[q[k]] = IF q[k] = h THEN nextPath[h] + 1 ELSE nextPath[q[k]]
      BY <2>2 DEF TypeOK
    <3> QED BY <1>2, <1>4, <3>1, <3>2
  <2> QED BY <2>1, <2>3 DEF Queue
<1> QED BY <1>3, <1>4

-----------------------------------------------------------------------------
(* Type correctness.  One lemma per group of actions. *)

\* A step that changes only what the lock holder does next.
LEMMA ControlType ==
  ASSUME TypeOK,
         phase' \in {"unlocked"} \cup EnginePhases \cup LoaderPhases,
         todo' \subseteq Items,
         call' \in {"none", "submit", "get_finished", "wait"},
         waiting' \subseteq Jobs,
         UNCHANGED <<jobVars, doneVars, itemVars, dataVars, returned>>
  PROVE  TypeOK'
BY DEF TypeOK, jobVars, doneVars, itemVars, dataVars

\* submit_store and submit_load keep the types.
LEMMA SubmitType ==
  ASSUME TypeOK, NEW j \in Jobs, SubmitStore(j) \/ SubmitLoad(j)
  PROVE  TypeOK'
<1>1. CASE SubmitStore(j)
  <2>1. j \in StoreJobs
    BY <1>1 DEF SubmitStore
  <2>2. jobsStore' \in Seq(StoreJobs)
    <3>1. jobsStore \in Seq(StoreJobs)
      BY DEF TypeOK
    <3>2. jobsStore' = jobsStore \/ jobsStore' = Append(jobsStore, j)
      BY <1>1 DEF SubmitStore
    <3> QED BY <2>1, <3>1, <3>2
  <2>3. results' \in Seq(Result)
    <3>1. results \in Seq(Result) /\ [job |-> j, success |-> TRUE] \in Result
      BY DEF TypeOK, Result
    <3>2. results' = results \/ results' = Append(results, [job |-> j, success |-> TRUE])
      BY <1>1 DEF SubmitStore
    <3> QED BY <3>1, <3>2
  <2> QED
    BY <1>1, <2>2, <2>3
    DEF SubmitStore, Goto, TypeOK, ctlVars, itemVars, dataVars, EnginePhases
<1>2. CASE SubmitLoad(j)
  <2>1. jobsLoad' \in Seq(LoadJobs)
    BY <1>2 DEF SubmitLoad, TypeOK
  <2> QED
    BY <1>2, <2>1 DEF SubmitLoad, TypeOK, ctlVars, doneVars, itemVars, dataVars
<1> QED BY <1>1, <1>2

\* The three ways to take the next item of a queue.
LEMMA DispatchType ==
  ASSUME TypeOK, QueueInv, NEW s \in Slots,
         DispatchStore(s) \/ RejectStore(s) \/ DispatchLoad(s)
  PROVE  TypeOK'
<1>1. CASE DispatchStore(s)
  <2> DEFINE i == NextItem(jobsStore)
  <2>1. jobsStore \in Seq(StoreJobs) /\ jobsStore # <<>> /\ StoreJobs \in SUBSET Jobs
    BY <1>1 DEF DispatchStore, TypeOK, Jobs
  <2>2. i \in Items /\ i[1] \in Jobs /\ jobsStore' \in Seq(StoreJobs)
    BY <1>1, <2>1, NextItemIn, AfterNextType, ItemParts DEF DispatchStore, QueueInv
  <2> HIDE DEF i
  <2>3. /\ nextPath' = [nextPath EXCEPT ![i[1]] = @ + 1]
        /\ slot' = [slot EXCEPT ![i] = s]
        /\ stage' = [stage EXCEPT ![i] = "gather"]
        /\ event' = [event EXCEPT ![i] = "pending"]
        /\ freeSlots' \subseteq freeSlots
        /\ slotData' = [slotData EXCEPT ![s] = Junk]
        /\ UNCHANGED <<ctlVars, jobsLoad, submitted, doneCount, okAll, results, doneResults,
                       ok, retries, future, chunk, kv, returned>>
    BY <1>1 DEF DispatchStore, TakeSlot, i
  <2> QED BY <2>2, <2>3 DEF TypeOK, ctlVars, Stages
<1>2. CASE RejectStore(s)
  <2> DEFINE i == NextItem(jobsStore)
  <2>1. jobsStore \in Seq(StoreJobs) /\ jobsStore # <<>> /\ StoreJobs \in SUBSET Jobs
    BY <1>2 DEF RejectStore, TypeOK, Jobs
  <2>2. i \in Items /\ i[1] \in Jobs /\ jobsStore' \in Seq(StoreJobs)
    BY <1>2, <2>1, NextItemIn, AfterNextType, ItemParts DEF RejectStore, QueueInv
  <2> HIDE DEF i
  <2>3. /\ nextPath' = [nextPath EXCEPT ![i[1]] = @ + 1]
        /\ slot' = [slot EXCEPT ![i] = s]
        /\ stage' = [stage EXCEPT ![i] = "bad"]
        /\ PathDone(i, s, ok[i])
        /\ UNCHANGED <<ctlVars, jobsLoad, submitted, ok, retries, event, future, dataVars,
                       returned>>
    BY <1>2 DEF RejectStore, i
  <2>4. ok[i] \in BOOLEAN
    BY <2>2 DEF TypeOK
  <2>5. /\ freeSlots' \subseteq Slots /\ doneCount' \in [Jobs -> Nat]
        /\ okAll' \in [Jobs -> BOOLEAN] /\ results' \in Seq(Result)
        /\ doneResults' \subseteq Jobs
    BY <2>2, <2>3, <2>4, PathDoneType
  <2>6. /\ nextPath' \in [Jobs -> Nat]
        /\ slot' \in [Items -> Slots \cup {NoSlot}]
        /\ stage' \in [Items -> Stages]
    BY <2>2, <2>3 DEF TypeOK, Stages
  <2>7. UNCHANGED <<phase, todo, call, waiting, jobsLoad, submitted, ok, retries, event, future,
                    slotData, chunk, kv, returned>>
    BY <2>3 DEF ctlVars, dataVars
  <2> QED
    BY <2>2, <2>5, <2>6, <2>7 DEF TypeOK
<1>3. CASE DispatchLoad(s)
  <2> DEFINE i == NextItem(jobsLoad)
  <2>1. jobsLoad \in Seq(LoadJobs) /\ jobsLoad # <<>> /\ LoadJobs \in SUBSET Jobs
    BY <1>3 DEF DispatchLoad, TypeOK, Jobs
  <2>2. i \in Items /\ i[1] \in Jobs /\ jobsLoad' \in Seq(LoadJobs)
    BY <1>3, <2>1, NextItemIn, AfterNextType, ItemParts DEF DispatchLoad, QueueInv
  <2> HIDE DEF i
  <2>3. /\ nextPath' = [nextPath EXCEPT ![i[1]] = @ + 1]
        /\ slot' = [slot EXCEPT ![i] = s]
        /\ stage' = [stage EXCEPT ![i] = "io"]
        /\ future' = [future EXCEPT ![i] = "running"]
        /\ freeSlots' \subseteq freeSlots
        /\ slotData' = [slotData EXCEPT ![s] = Junk]
        /\ UNCHANGED <<ctlVars, jobsStore, submitted, doneCount, okAll, results, doneResults,
                       ok, retries, event, chunk, kv, returned>>
    BY <1>3 DEF DispatchLoad, TakeSlot, i
  <2> QED BY <2>2, <2>3 DEF TypeOK, ctlVars, Stages
<1> QED BY <1>1, <1>2, <1>3

\* The iterations of the polling loops.
LEMMA VisitType ==
  ASSUME TypeOK, NEW p, NEW i, Visit(p, i)
  PROVE  /\ i \in Items /\ i[1] \in Jobs
         /\ slot[i] \in Slots \cup {NoSlot} /\ ok[i] \in BOOLEAN
         /\ phase' = phase /\ todo' \subseteq Items /\ UNCHANGED <<call, waiting>>
BY ItemParts DEF TypeOK, Visit

\* The branches the two harvest loops share keep the types.
LEMMA HarvestType ==
  ASSUME TypeOK, NEW p, NEW i, slot[i] \in Slots,
         \/ HarvestRunning(p, i)
         \/ HarvestRetry(p, i)
         \/ HarvestGiveUp(p, i)
  PROVE  TypeOK'
<1>1. CASE HarvestRunning(p, i)
  BY <1>1, VisitType DEF HarvestRunning, TypeOK, jobVars, doneVars, itemVars, dataVars
<1>2. CASE HarvestRetry(p, i)
  <2>1. Visit(p, i) /\ retries[i] + 1 \in 0..MaxRetries
    BY <1>2, VisitType, WorkerAssumption DEF HarvestRetry, RetriesLeft, TypeOK
  <2> QED
    BY <1>2, <2>1, VisitType DEF HarvestRetry, TypeOK, jobVars, doneVars, dataVars
<1>3. CASE HarvestGiveUp(p, i)
  <2>1. Visit(p, i) /\ PathDone(i, slot[i], FALSE)
    BY <1>3 DEF HarvestGiveUp
  <2>2. /\ freeSlots' \subseteq Slots /\ doneCount' \in [Jobs -> Nat]
        /\ okAll' \in [Jobs -> BOOLEAN] /\ results' \in Seq(Result)
        /\ doneResults' \subseteq Jobs
    BY <2>1, VisitType, PathDoneType
  <2> QED
    BY <1>3, <2>1, <2>2, VisitType DEF HarvestGiveUp, TypeOK, jobVars, dataVars, Stages
<1> QED BY <1>1, <1>2, <1>3

\* The other iterations of the store loops keep the types.
LEMMA StoreLoopType ==
  ASSUME TypeOK, NEW i, slot[i] \in Slots, PollGather(i) \/ HarvestStoreOk(i)
  PROVE  TypeOK'
<1>1. CASE PollGather(i)
  <2>1. Visit("poll_gather", i)
    BY <1>1 DEF PollGather
  <2>2. stage' \in [Items -> Stages] /\ future' \in [Items -> {"none", "running", "ok", "failed"}]
    BY <1>1 DEF PollGather, TypeOK, Stages
  <2> QED
    BY <1>1, <2>1, <2>2, VisitType DEF PollGather, TypeOK, jobVars, doneVars, dataVars
<1>2. CASE HarvestStoreOk(i)
  <2>1. Visit("harvest_store", i) /\ PathDone(i, slot[i], TRUE)
    BY <1>2 DEF HarvestStoreOk
  <2>2. /\ freeSlots' \subseteq Slots /\ doneCount' \in [Jobs -> Nat]
        /\ okAll' \in [Jobs -> BOOLEAN] /\ results' \in Seq(Result)
        /\ doneResults' \subseteq Jobs
    BY <2>1, VisitType, PathDoneType
  <2> QED
    BY <1>2, <2>1, <2>2, VisitType DEF HarvestStoreOk, TypeOK, jobVars, dataVars, Stages
<1> QED BY <1>1, <1>2

\* The iterations of _pump_scatter keep the types.
LEMMA ScatterType ==
  ASSUME TypeOK, NEW i, slot[i] \in Slots,
         IssueScatter(i) \/ RejectScatter(i) \/ PollScatter(i)
  PROVE  TypeOK'
<1>1. CASE IssueScatter(i)
  BY <1>1 DEF IssueScatter, TypeOK, ctlVars, jobVars, doneVars, dataVars, Stages
<1>2. CASE RejectScatter(i)
  <2>1. Visit("poll_scatter", i) /\ PathDone(i, slot[i], ok[i])
    BY <1>2 DEF RejectScatter
  <2>2. /\ freeSlots' \subseteq Slots /\ doneCount' \in [Jobs -> Nat]
        /\ okAll' \in [Jobs -> BOOLEAN] /\ results' \in Seq(Result)
        /\ doneResults' \subseteq Jobs
    BY <2>1, VisitType, PathDoneType
  <2> QED
    BY <1>2, <2>1, <2>2, VisitType DEF RejectScatter, TypeOK, jobVars, dataVars, Stages
<1>3. CASE PollScatter(i) /\ event[i] = "complete"
  <2>1. Visit("poll_scatter", i) /\ PathDone(i, slot[i], ok[i])
    BY <1>3 DEF PollScatter, Copied
  <2>2. /\ freeSlots' \subseteq Slots /\ doneCount' \in [Jobs -> Nat]
        /\ okAll' \in [Jobs -> BOOLEAN] /\ results' \in Seq(Result)
        /\ doneResults' \subseteq Jobs
    BY <2>1, VisitType, PathDoneType
  <2> QED
    BY <1>3, <2>1, <2>2, VisitType DEF PollScatter, TypeOK, jobVars, dataVars, Stages
<1>4. CASE PollScatter(i) /\ event[i] # "complete"
  <2>1. Visit("poll_scatter", i)
    BY <1>4 DEF PollScatter
  <2> QED
    BY <1>4, <2>1, VisitType DEF PollScatter, Copied, TypeOK, jobVars, doneVars, dataVars
<1> QED BY <1>1, <1>2, <1>3, <1>4

\* Harvesting a successful read keeps the types.
LEMMA HarvestLoadOkType ==
  ASSUME TypeOK, NEW i, HarvestLoadOk(i)
  PROVE  TypeOK'
<1>1. Visit("harvest_load", i)
  BY DEF HarvestLoadOk
<1> QED BY <1>1, VisitType DEF HarvestLoadOk, TypeOK, jobVars, doneVars, dataVars, Stages

\* Draining _results keeps the types.
LEMMA PumpEndType ==
  ASSUME TypeOK, PumpEnd
  PROVE  TypeOK'
<1>1. results' \in Seq(Result) /\ returned' \in Seq(Result)
  <2>1. results \in Seq(Result) /\ returned \in Seq(Result)
    BY DEF TypeOK
  <2>2. \/ returned' = returned \o results /\ results' = <<>>
        \/ returned' = returned /\ results' = results
    BY DEF PumpEnd
  <2>3. returned \o results \in Seq(Result) /\ <<>> \in Seq(Result)
    BY <2>1
  <2> QED BY <2>1, <2>2, <2>3
<1> QED BY <1>1 DEF PumpEnd, Goto, TypeOK, jobVars, itemVars, dataVars

\* The IO threads and the GPU streams keep the types.
LEMMA DeviceType ==
  ASSUME TypeOK, NEW i \in Items, DeviceStep(i)
  PROVE  TypeOK'
<1> USE DEF IoUnchanged, ctlVars, jobVars, doneVars
<1>1. CASE GatherCopied(i)
  BY <1>1 DEF GatherCopied, TypeOK
<1>2. CASE ScatterCopied(i)
  BY <1>2 DEF ScatterCopied, TypeOK
<1>3. CASE WriteSlot(i)
  BY <1>3 DEF WriteSlot, TypeOK
<1>4. CASE ReadSlot(i)
  BY <1>4 DEF ReadSlot, TypeOK
<1> QED BY <1>1, <1>2, <1>3, <1>4 DEF DeviceStep

-----------------------------------------------------------------------------
(* What a step does to the slots: five kinds of steps. *)

HoldStages == {"gather", "io", "read_done", "scattered"}

Quiet == UNCHANGED <<stage, slot, freeSlots, nextPath>>

\* An item that owns its slot goes on to another stage in which it owns it.
Move(i) ==
  /\ i \in Items /\ Holding(i)
  /\ \E x \in HoldStages : stage' = [stage EXCEPT ![i] = x]
  /\ UNCHANGED <<slot, freeSlots, nextPath>>

\* An item that owns its slot gives it back.
GiveBack(i) ==
  /\ i \in Items /\ Holding(i)
  /\ \E x \in {"bad", "done"} : stage' = [stage EXCEPT ![i] = x]
  /\ freeSlots' = freeSlots \cup {slot[i]}
  /\ UNCHANGED <<slot, nextPath>>

\* A new item takes a free slot, or is refused and leaves it free.
Start(i, s) ==
  /\ i \in Items /\ i[2] = nextPath[i[1]] /\ s \in freeSlots
  /\ nextPath' = [nextPath EXCEPT ![i[1]] = @ + 1]
  /\ slot' = [slot EXCEPT ![i] = s]

Take(i, s) ==
  /\ Start(i, s)
  /\ \E x \in HoldStages : stage' = [stage EXCEPT ![i] = x]
  /\ freeSlots' = freeSlots \ {s}

Refuse(i, s) ==
  /\ Start(i, s)
  /\ stage' = [stage EXCEPT ![i] = "bad"]
  /\ freeSlots' = freeSlots

SlotStep ==
  \/ Quiet
  \/ \E i \in Items : Move(i) \/ GiveBack(i)
  \/ \E i \in Items, s \in Slots : Take(i, s) \/ Refuse(i, s)

\* The item a polling loop visits owns its slot, in the stage of the loop.
LEMMA VisitStage ==
  ASSUME TypeOK, LoopInv, NEW p, NEW i, Visit(p, i)
  PROVE  /\ i \in Items
         /\ p = "poll_gather" => IsStore(i) /\ stage[i] = "gather"
         /\ p = "harvest_store" => IsStore(i) /\ stage[i] = "io"
         /\ p = "harvest_load" => IsLoad(i) /\ stage[i] = "io"
         /\ p = "poll_scatter" => IsLoad(i) /\ stage[i] \in {"read_done", "scattered"}
BY DEF TypeOK, LoopInv, Visit, InflightGather, IoStore, IoLoad, PendingScatter

\* One iteration of a harvest loop, for both kinds of items.
LEMMA HarvestKind ==
  ASSUME TypeOK, LoopInv, NEW p \in {"harvest_store", "harvest_load"}, NEW i,
         \/ HarvestRunning(p, i)
         \/ HarvestRetry(p, i)
         \/ HarvestGiveUp(p, i)
  PROVE  SlotStep
<1>1. CASE HarvestRunning(p, i) \/ HarvestRetry(p, i)
  BY <1>1 DEF HarvestRunning, HarvestRetry, SlotStep, Quiet, jobVars, doneVars, itemVars
<1>2. CASE HarvestGiveUp(p, i)
  <2>1. i \in Items /\ Holding(i)
    BY <1>2, VisitStage DEF HarvestGiveUp, Holding
  <2> QED
    BY <1>2, <2>1 DEF HarvestGiveUp, PathDone, Recycle, SlotStep, GiveBack, jobVars
<1> QED BY <1>1, <1>2

\* Every step of the engine thread in its critical section is of one kind.
LEMMA EngineKind ==
  ASSUME TypeOK, QueueInv, LoopInv, EngineStep
  PROVE  SlotStep
<1>1. ASSUME NEW s \in Slots, DispatchStore(s) \/ RejectStore(s)
      PROVE  SlotStep
  <2> DEFINE i == NextItem(jobsStore)
  <2>1. jobsStore \in Seq(StoreJobs) /\ jobsStore # <<>> /\ StoreJobs \in SUBSET Jobs
    BY <1>1 DEF DispatchStore, RejectStore, TypeOK, Jobs
  <2>2. i \in Items /\ i = <<Head(jobsStore), nextPath[Head(jobsStore)]>>
    BY <2>1, NextItemIn DEF QueueInv
  <2> HIDE DEF i
  <2>3. CASE DispatchStore(s)
    <3>1. Take(i, s)
      BY <2>2, <2>3 DEF DispatchStore, TakeSlot, i, Take, Start, HoldStages
    <3> QED BY <2>2, <3>1 DEF SlotStep
  <2>4. CASE RejectStore(s)
    <3>1. s \in freeSlots /\ freeSlots' = freeSlots
      BY <2>4 DEF RejectStore, PathDone, Recycle
    <3>2. Refuse(i, s)
      BY <2>2, <2>4, <3>1 DEF RejectStore, i, Refuse, Start
    <3> QED BY <2>2, <3>2 DEF SlotStep
  <2> QED BY <1>1, <2>3, <2>4
<1>2. CASE DispatchStoreEnd \/ PollGatherEnd \/ HarvestStoreEnd \/ PumpEnd
  BY <1>2 DEF DispatchStoreEnd, PollGatherEnd, HarvestStoreEnd, PumpEnd, SlotStep, Quiet,
              jobVars, doneVars, itemVars
<1>3. ASSUME NEW i \in Items, PollGather(i)
      PROVE  SlotStep
  <2>1. Holding(i)
    BY <1>3, VisitStage DEF PollGather, Holding
  <2>2. Quiet \/ Move(i)
    BY <1>3, <2>1 DEF PollGather, Quiet, Move, HoldStages, jobVars, doneVars
  <2> QED BY <2>2 DEF SlotStep
<1>4. ASSUME NEW i \in Items, HarvestStore(i)
      PROVE  SlotStep
  <2>1. CASE HarvestStoreOk(i)
    <3>1. Holding(i)
      BY <2>1, VisitStage DEF HarvestStoreOk, Holding
    <3> QED
      BY <2>1, <3>1 DEF HarvestStoreOk, PathDone, Recycle, SlotStep, GiveBack, jobVars
  <2> QED BY <1>4, <2>1, HarvestKind DEF HarvestStore
<1>5. ASSUME NEW i \in Items, IssueScatter(i) \/ RejectScatter(i) \/ PollScatter(i)
      PROVE  SlotStep
  <2>1. CASE IssueScatter(i)
    <3>1. Move(i)
      BY <2>1 DEF IssueScatter, Move, Holding, HoldStages, jobVars, doneVars
    <3> QED BY <3>1 DEF SlotStep
  <2>2. CASE RejectScatter(i) \/ PollScatter(i)
    <3>1. Holding(i)
      BY <2>2 DEF RejectScatter, PollScatter, Holding
    <3>2. Quiet \/ GiveBack(i)
      BY <2>2, <3>1
      DEF RejectScatter, PollScatter, PathDone, Recycle, Quiet, GiveBack, jobVars, doneVars
    <3> QED BY <3>2 DEF SlotStep
  <2> QED BY <1>5, <2>1, <2>2
<1> QED BY <1>1, <1>2, <1>3, <1>4, <1>5 DEF EngineStep

\* So is every step of gds_load_io in its critical section.
LEMMA LoaderKind ==
  ASSUME TypeOK, QueueInv, LoopInv, LoaderStep
  PROVE  SlotStep
<1>1. ASSUME NEW s \in Slots, DispatchLoad(s)
      PROVE  SlotStep
  <2> DEFINE i == NextItem(jobsLoad)
  <2>1. jobsLoad \in Seq(LoadJobs) /\ jobsLoad # <<>> /\ LoadJobs \in SUBSET Jobs
    BY <1>1 DEF DispatchLoad, TypeOK, Jobs
  <2>2. i \in Items /\ i = <<Head(jobsLoad), nextPath[Head(jobsLoad)]>>
    BY <2>1, NextItemIn DEF QueueInv
  <2> HIDE DEF i
  <2>3. Take(i, s)
    BY <1>1, <2>2 DEF DispatchLoad, TakeSlot, i, Take, Start, HoldStages
  <2> QED BY <2>2, <2>3 DEF SlotStep
<1>2. CASE DispatchLoadEnd \/ HarvestLoadEnd
  BY <1>2 DEF DispatchLoadEnd, HarvestLoadEnd, SlotStep, Quiet, jobVars, doneVars, itemVars
<1>3. ASSUME NEW i \in Items, HarvestLoad(i)
      PROVE  SlotStep
  <2>1. CASE HarvestLoadOk(i)
    <3>1. Holding(i)
      BY <2>1, VisitStage DEF HarvestLoadOk, Holding
    <3>2. Move(i)
      BY <2>1, <3>1 DEF HarvestLoadOk, Move, HoldStages, jobVars, doneVars
    <3> QED BY <3>2 DEF SlotStep
  <2> QED BY <1>3, <2>1, HarvestKind DEF HarvestLoad
<1> QED BY <1>1, <1>2, <1>3 DEF LoaderStep

\* So is every step of the worker.
LEMMA StepKind ==
  ASSUME TypeOK, QueueInv, LoopInv, [Next]_vars
  PROVE  SlotStep
<1> USE DEF SlotStep, Quiet, jobVars, doneVars, itemVars
<1>1. CASE \E j \in StoreJobs : SubmitStore(j)
  BY <1>1 DEF SubmitStore
<1>2. CASE \E j \in LoadJobs : SubmitLoad(j)
  BY <1>2 DEF SubmitLoad
<1>3. CASE GetFinished \/ (\E js \in SUBSET Jobs : Wait(js)) \/ WaitPoll \/ LoaderLock
  BY <1>3 DEF GetFinished, Wait, WaitPoll, LoaderLock
<1>4. CASE \E i \in Items : DeviceStep(i)
  BY <1>4 DEF DeviceStep, GatherCopied, ScatterCopied, WriteSlot, ReadSlot, IoUnchanged
<1>5. CASE UNCHANGED vars
  BY <1>5 DEF vars
<1> HIDE DEF SlotStep, Quiet
<1> QED BY <1>1, <1>2, <1>3, <1>4, <1>5, EngineKind, LoaderKind DEF Next

-----------------------------------------------------------------------------
(* Each part of the inductive invariant survives every kind of step. *)

\* No kind of step gives a slot a second owner.
LEMMA ExclusiveKept ==
  ASSUME TypeOK, FrontInv, SlotExclusive, SlotStep
  PROVE  SlotExclusive'
<1> USE DEF SlotExclusive, Holding
<1>1. CASE Quiet
  BY <1>1 DEF Quiet
<1>2. ASSUME NEW i \in Items, Move(i)
      PROVE  SlotExclusive'
  BY <1>2 DEF Move, HoldStages, TypeOK
<1>3. ASSUME NEW i \in Items, GiveBack(i)
      PROVE  SlotExclusive'
  BY <1>3 DEF GiveBack, TypeOK
<1>4. ASSUME NEW i \in Items, NEW s \in Slots, Take(i, s)
      PROVE  SlotExclusive'
  <2>1. /\ stage[i] = "new"
        /\ s \in freeSlots /\ freeSlots' = freeSlots \ {s}
        /\ slot' = [slot EXCEPT ![i] = s]
    BY <1>4, ItemParts DEF Take, Start, FrontInv, TypeOK
  <2>2. PICK x \in HoldStages : stage' = [stage EXCEPT ![i] = x]
    BY <1>4 DEF Take
  <2>3. \A k \in Items : k # i => stage'[k] = stage[k] /\ slot'[k] = slot[k]
    BY <2>1, <2>2 DEF TypeOK
  <2>4. slot'[i] = s
    BY <2>1 DEF TypeOK
  <2> QED BY <2>1, <2>3, <2>4
<1>5. ASSUME NEW i \in Items, NEW s \in Slots, Refuse(i, s)
      PROVE  SlotExclusive'
  BY <1>5 DEF Refuse, Start, TypeOK
<1> QED BY <1>1, <1>2, <1>3, <1>4, <1>5 DEF SlotStep

\* No kind of step leaves a slot without an owner outside the free list.
LEMMA NoSlotLostKept ==
  ASSUME TypeOK, FrontInv, NoSlotLost, SlotStep
  PROVE  NoSlotLost'
<1> USE DEF NoSlotLost, Holding
<1>1. CASE Quiet
  BY <1>1 DEF Quiet
<1>2. ASSUME NEW i \in Items, Move(i)
      PROVE  NoSlotLost'
  BY <1>2 DEF Move, HoldStages, TypeOK
<1>3. ASSUME NEW i \in Items, GiveBack(i)
      PROVE  NoSlotLost'
  BY <1>3 DEF GiveBack, TypeOK
<1>4. ASSUME NEW i \in Items, NEW s \in Slots, Take(i, s)
      PROVE  NoSlotLost'
  <2>1. stage[i] = "new" /\ freeSlots' = freeSlots \ {s} /\ slot' = [slot EXCEPT ![i] = s]
    BY <1>4, ItemParts DEF Take, Start, FrontInv, TypeOK
  <2>2. PICK x \in HoldStages : stage' = [stage EXCEPT ![i] = x]
    BY <1>4 DEF Take
  <2>3. slot'[i] = s /\ stage'[i] \in HoldStages
    BY <2>1, <2>2 DEF TypeOK
  <2>4. \A k \in Items : k # i => stage'[k] = stage[k] /\ slot'[k] = slot[k]
    BY <2>1, <2>2 DEF TypeOK
  <2>5. SUFFICES ASSUME NEW u \in Slots \ freeSlots'
                 PROVE  \E k \in Items : Holding(k)' /\ slot'[k] = u
    OBVIOUS
  <2>6. CASE u = s
    BY <2>3, <2>6 DEF HoldStages
  <2>7. CASE u # s
    <3>1. PICK k \in Items : Holding(k) /\ slot[k] = u
      BY <2>1, <2>5, <2>7
    <3> QED BY <2>1, <2>4, <3>1
  <2> QED BY <2>6, <2>7
<1>5. ASSUME NEW i \in Items, NEW s \in Slots, Refuse(i, s)
      PROVE  NoSlotLost'
  <2>1. stage[i] = "new" /\ freeSlots' = freeSlots
    BY <1>5, ItemParts DEF Refuse, Start, FrontInv, TypeOK
  <2>2. \A k \in Items : k # i => stage'[k] = stage[k] /\ slot'[k] = slot[k]
    BY <1>5 DEF Refuse, Start, TypeOK
  <2> QED BY <2>1, <2>2
<1> QED BY <1>1, <1>2, <1>3, <1>4, <1>5 DEF SlotStep

\* Every kind of step starts the items of a job in order.
LEMMA FrontKept ==
  ASSUME TypeOK, FrontInv, SlotStep
  PROVE  FrontInv'
<1> USE DEF FrontInv
<1>1. CASE Quiet
  BY <1>1 DEF Quiet
<1>2. ASSUME NEW i \in Items, Move(i) \/ GiveBack(i)
      PROVE  FrontInv'
  BY <1>2 DEF Move, GiveBack, Holding, HoldStages, TypeOK
<1>3. ASSUME NEW i \in Items, NEW s \in Slots, Take(i, s) \/ Refuse(i, s)
      PROVE  FrontInv'
  <2>1. PICK x \in HoldStages \cup {"bad"} : stage' = [stage EXCEPT ![i] = x]
    BY <1>3 DEF Take, Refuse
  <2>2. /\ i[1] \in Jobs /\ i[2] = nextPath[i[1]]
        /\ nextPath' = [nextPath EXCEPT ![i[1]] = @ + 1]
    BY <1>3, ItemParts DEF Take, Refuse, Start
  <2>3. SUFFICES ASSUME NEW k \in Items
                 PROVE  stage'[k] = "new" <=> nextPath'[k[1]] <= k[2]
    OBVIOUS
  <2>4. k[1] \in Jobs /\ k[2] \in Nat /\ nextPath[k[1]] \in Nat
    BY ItemParts DEF TypeOK
  <2>5. CASE k = i
    BY <2>1, <2>2, <2>4, <2>5 DEF HoldStages, TypeOK
  <2>6. CASE k # i /\ k[1] = i[1]
    <3>1. k[2] # i[2]
      BY <2>6, ItemParts
    <3> QED BY <2>1, <2>2, <2>4, <2>6, <3>1 DEF TypeOK
  <2>7. CASE k[1] # i[1]
    BY <2>1, <2>2, <2>4, <2>7 DEF TypeOK
  <2> QED BY <2>5, <2>6, <2>7
<1> QED BY <1>1, <1>2, <1>3 DEF SlotStep

\* A job that is submitted joins the end of its queue.
LEMMA AppendQueue ==
  ASSUME TypeOK, NEW S \in SUBSET Jobs, NEW q \in Seq(S), Queue(q),
         NEW j \in S, j \notin submitted, NumItems[j] > 0,
         nextPath[j] = 0
  PROVE  LET r == Append(q, j) IN
         /\ \A k \in 1..Len(r) : r[k] \in submitted \cup {j} /\ nextPath[r[k]] < NumItems[r[k]]
         /\ \A k, l \in 1..Len(r) : r[k] = r[l] => k = l
<1> DEFINE r == Append(q, j)
<1>1. /\ Len(q) \in Nat /\ Len(r) = Len(q) + 1
      /\ \A k \in 1..Len(q) : r[k] = q[k]
      /\ r[Len(q) + 1] = j
  OBVIOUS
<1>2. \A k \in 1..Len(r) : k = Len(q) + 1 \/ k \in 1..Len(q)
  BY <1>1
<1>3. \A k \in 1..Len(q) : q[k] \in submitted
  BY DEF Queue
<1> HIDE DEF r
<1>4. \A k \in 1..Len(r) : r[k] \in submitted \cup {j} /\ nextPath[r[k]] < NumItems[r[k]]
  <2>1. NumItems[j] \in Nat
    BY WorkerAssumption
  <2> QED BY <1>1, <1>2, <2>1 DEF Queue
<1>5. ASSUME NEW k \in 1..Len(r), NEW l \in 1..Len(r), r[k] = r[l]
      PROVE  k = l
  BY <1>1, <1>2, <1>3, <1>5 DEF Queue
<1> QED BY <1>4, <1>5 DEF r

\* Taking the next item of the queue of jobs S leaves the queue of jobs T alone.
LEMMA OtherQueue ==
  ASSUME TypeOK, NEW S \in SUBSET Jobs, NEW T \in SUBSET Jobs, S \cap T = {},
         NEW q \in Seq(T), Queue(q), NEW h \in S,
         nextPath' = [nextPath EXCEPT ![h] = @ + 1], submitted' = submitted
  PROVE  /\ \A k \in 1..Len(q) : q[k] \in submitted' /\ nextPath'[q[k]] < NumItems[q[k]]
         /\ \A k, l \in 1..Len(q) : q[k] = q[l] => k = l
<1>1. \A k \in 1..Len(q) : q[k] \in T /\ q[k] \in Jobs /\ q[k] # h
  OBVIOUS
<1> QED BY <1>1 DEF Queue, TypeOK

\* Dispatching keeps both queues well formed.
LEMMA QueueDispatched ==
  ASSUME TypeOK, QueueInv, NEW s \in Slots,
         DispatchStore(s) \/ RejectStore(s) \/ DispatchLoad(s)
  PROVE  QueueInv'
<1>0. /\ jobsStore \in Seq(StoreJobs) /\ jobsLoad \in Seq(LoadJobs)
      /\ StoreJobs \in SUBSET Jobs /\ LoadJobs \in SUBSET Jobs
      /\ StoreJobs \cap LoadJobs = {} /\ Queue(jobsStore) /\ Queue(jobsLoad)
  BY WorkerAssumption DEF TypeOK, Jobs, QueueInv
<1>1. CASE DispatchStore(s) \/ RejectStore(s)
  <2> DEFINE h == Head(jobsStore)
  <2>1. /\ jobsStore # <<>> /\ nextPath' = [nextPath EXCEPT ![h] = @ + 1]
        /\ jobsStore' = AfterNext(jobsStore)
        /\ UNCHANGED <<jobsLoad, submitted>>
    BY <1>1 DEF DispatchStore, RejectStore, NextItem
  <2>2. h \in StoreJobs /\ h \in submitted
    BY <1>0, <2>1 DEF Queue
  <2>3. Queue(jobsStore)'
    BY <1>0, <2>1, AfterNextQueue DEF Queue
  <2>4. Queue(jobsLoad)'
    BY <1>0, <2>1, <2>2, OtherQueue DEF Queue
  <2>5. \A j \in Jobs \ submitted' : nextPath'[j] = 0
    BY <2>1, <2>2 DEF QueueInv, TypeOK
  <2> QED BY <2>3, <2>4, <2>5 DEF QueueInv
<1>2. CASE DispatchLoad(s)
  <2> DEFINE h == Head(jobsLoad)
  <2>1. /\ jobsLoad # <<>> /\ nextPath' = [nextPath EXCEPT ![h] = @ + 1]
        /\ jobsLoad' = AfterNext(jobsLoad)
        /\ UNCHANGED <<jobsStore, submitted>>
    BY <1>2 DEF DispatchLoad, NextItem
  <2>2. h \in LoadJobs /\ h \in submitted
    BY <1>0, <2>1 DEF Queue
  <2>3. Queue(jobsLoad)'
    BY <1>0, <2>1, AfterNextQueue DEF Queue
  <2>4. Queue(jobsStore)'
    BY <1>0, <2>1, <2>2, OtherQueue DEF Queue
  <2>5. \A j \in Jobs \ submitted' : nextPath'[j] = 0
    BY <2>1, <2>2 DEF QueueInv, TypeOK
  <2> QED BY <2>3, <2>4, <2>5 DEF QueueInv
<1> QED BY <1>1, <1>2

\* Submitting keeps both queues well formed.
LEMMA QueueSubmitted ==
  ASSUME TypeOK, QueueInv, NEW j \in Jobs, SubmitStore(j) \/ SubmitLoad(j)
  PROVE  QueueInv'
<1>0. /\ jobsStore \in Seq(StoreJobs) /\ jobsLoad \in Seq(LoadJobs)
      /\ StoreJobs \in SUBSET Jobs /\ LoadJobs \in SUBSET Jobs
      /\ Queue(jobsStore) /\ Queue(jobsLoad)
  BY DEF TypeOK, Jobs, QueueInv
<1>1. /\ j \notin submitted /\ submitted' = submitted \cup {j} /\ nextPath' = nextPath
      /\ nextPath[j] = 0 /\ NumItems[j] \in Nat
  BY WorkerAssumption DEF SubmitStore, SubmitLoad, QueueInv
<1>2. CASE SubmitStore(j)
  <2>1. j \in StoreJobs /\ jobsLoad' = jobsLoad
    BY <1>2 DEF SubmitStore
  <2>2. \/ jobsStore' = jobsStore
        \/ NumItems[j] > 0 /\ jobsStore' = Append(jobsStore, j)
    BY <1>1, <1>2 DEF SubmitStore
  <2>3. CASE jobsStore' = jobsStore
    BY <1>0, <1>1, <2>1, <2>3 DEF Queue, QueueInv
  <2>4. CASE NumItems[j] > 0 /\ jobsStore' = Append(jobsStore, j)
    <3>1. Queue(jobsStore)'
      BY <1>0, <1>1, <2>1, <2>4, AppendQueue DEF Queue
    <3> QED BY <1>0, <1>1, <2>1, <3>1 DEF Queue, QueueInv
  <2> QED BY <2>2, <2>3, <2>4
<1>3. CASE SubmitLoad(j)
  <2>1. j \in LoadJobs /\ jobsStore' = jobsStore /\ NumItems[j] > 0
        /\ jobsLoad' = Append(jobsLoad, j)
    BY <1>3, WorkerAssumption DEF SubmitLoad
  <2>2. Queue(jobsLoad)'
    BY <1>0, <1>1, <2>1, AppendQueue DEF Queue
  <2> QED BY <1>0, <1>1, <2>1, <2>2 DEF Queue, QueueInv
<1> QED BY <1>2, <1>3

\* Every other step leaves the queues alone.
LEMMA QueueKept ==
  ASSUME TypeOK, QueueInv, [Next]_vars
  PROVE  QueueInv'
<1>1. CASE \E j \in StoreJobs : SubmitStore(j)
  BY <1>1, QueueSubmitted DEF Jobs
<1>2. CASE \E j \in LoadJobs : SubmitLoad(j)
  BY <1>2, QueueSubmitted DEF Jobs
<1>3. CASE EngineStep
  <2>1. ASSUME NEW s \in Slots, DispatchStore(s) \/ RejectStore(s)
        PROVE  QueueInv'
    BY <2>1, QueueDispatched
  <2>2. ASSUME UNCHANGED jobVars
        PROVE  QueueInv'
    BY <2>2 DEF QueueInv, Queue, jobVars
  <2>3. CASE DispatchStoreEnd \/ PollGatherEnd \/ HarvestStoreEnd \/ PumpEnd
    BY <2>2, <2>3 DEF DispatchStoreEnd, PollGatherEnd, HarvestStoreEnd, PumpEnd
  <2>4. CASE \E i \in Items : PollGather(i) \/ HarvestStore(i) \/ IssueScatter(i)
                              \/ RejectScatter(i) \/ PollScatter(i)
    BY <2>2, <2>4 DEF PollGather, HarvestStore, HarvestRunning, HarvestRetry, HarvestGiveUp,
                      HarvestStoreOk, IssueScatter, RejectScatter, PollScatter
  <2> QED BY <1>3, <2>1, <2>3, <2>4 DEF EngineStep
<1>4. CASE LoaderStep
  <2>1. ASSUME NEW s \in Slots, DispatchLoad(s)
        PROVE  QueueInv'
    BY <2>1, QueueDispatched
  <2>2. ASSUME UNCHANGED jobVars
        PROVE  QueueInv'
    BY <2>2 DEF QueueInv, Queue, jobVars
  <2>3. CASE DispatchLoadEnd \/ HarvestLoadEnd \/ \E i \in Items : HarvestLoad(i)
    BY <2>2, <2>3 DEF DispatchLoadEnd, HarvestLoadEnd, HarvestLoad, HarvestRunning,
                      HarvestRetry, HarvestGiveUp, HarvestLoadOk
  <2> QED BY <1>4, <2>1, <2>3 DEF LoaderStep
<1>5. CASE GetFinished \/ (\E js \in SUBSET Jobs : Wait(js)) \/ WaitPoll \/ LoaderLock
           \/ (\E i \in Items : DeviceStep(i)) \/ UNCHANGED vars
  <2>1. UNCHANGED jobVars
    BY <1>5 DEF GetFinished, Wait, WaitPoll, LoaderLock, DeviceStep, GatherCopied,
                ScatterCopied, WriteSlot, ReadSlot, IoUnchanged, vars
  <2> QED BY <2>1 DEF QueueInv, Queue, jobVars
<1> QED BY <1>1, <1>2, <1>3, <1>4, <1>5 DEF Next

\* What a loop has still to visit stays in its container: only the holder of
\* the lock changes the stage of an item.
LEMMA LoopKept ==
  ASSUME TypeOK, LoopInv, [Next]_vars
  PROVE  LoopInv'
<1> USE DEF LoopInv, InflightGather, IoStore, IoLoad, PendingScatter
<1>1. ASSUME phase' \notin {"poll_gather", "harvest_store", "poll_scatter", "harvest_load"}
      PROVE  LoopInv'
  BY <1>1
<1>2. ASSUME UNCHANGED <<phase, todo, stage>>
      PROVE  LoopInv'
  BY <1>2
<1>3. ASSUME NEW p, NEW i \in Items, Visit(p, i),
             \A k \in Items : k # i => stage'[k] = stage[k]
      PROVE  LoopInv'
  BY <1>3 DEF Visit
<1>4. CASE \E j \in StoreJobs : SubmitStore(j)
  BY <1>1, <1>2, <1>4 DEF SubmitStore, Goto, ctlVars, itemVars
<1>5. CASE \E j \in LoadJobs : SubmitLoad(j)
  BY <1>2, <1>5 DEF SubmitLoad, ctlVars, itemVars
<1>6. CASE GetFinished \/ (\E js \in SUBSET Jobs : Wait(js)) \/ WaitPoll \/ LoaderLock
           \/ (\E i \in Items : DeviceStep(i)) \/ UNCHANGED vars
  BY <1>1, <1>2, <1>6
  DEF GetFinished, Wait, WaitPoll, LoaderLock, Goto, DeviceStep, GatherCopied,
      ScatterCopied, WriteSlot, ReadSlot, IoUnchanged, ctlVars, itemVars, vars
<1>7. CASE EngineStep
  <2>1. CASE \E s \in Slots : DispatchStore(s) \/ RejectStore(s)
    <3>1. phase' = "dispatch_store"
      BY <2>1 DEF DispatchStore, RejectStore, ctlVars
    <3> QED BY <1>1, <3>1
  <2>2. CASE DispatchStoreEnd \/ PollGatherEnd \/ HarvestStoreEnd \/ PumpEnd
    BY <2>2 DEF DispatchStoreEnd, PollGatherEnd, HarvestStoreEnd, PumpEnd, Goto, itemVars
  <2>3. ASSUME NEW i \in Items, PollGather(i) \/ HarvestStore(i) \/ RejectScatter(i)
                                \/ PollScatter(i)
        PROVE  LoopInv'
    <3>1. \A k \in Items : k # i => stage'[k] = stage[k]
      <4>1. CASE PollGather(i)
        BY <4>1 DEF PollGather, TypeOK
      <4>2. CASE HarvestStore(i)
        <5>1. stage' = stage \/ stage' = [stage EXCEPT ![i] = "done"]
          BY <4>2 DEF HarvestStore, HarvestRunning, HarvestRetry, HarvestGiveUp,
                      HarvestStoreOk, itemVars
        <5> QED BY <5>1 DEF TypeOK
      <4>3. CASE RejectScatter(i)
        BY <4>3 DEF RejectScatter, TypeOK
      <4>4. CASE PollScatter(i)
        BY <4>4 DEF PollScatter, TypeOK
      <4> QED BY <2>3, <4>1, <4>2, <4>3, <4>4
    <3>2. Visit("poll_gather", i) \/ Visit("harvest_store", i) \/ Visit("poll_scatter", i)
      BY <2>3 DEF PollGather, HarvestStore, HarvestRunning, HarvestRetry, HarvestGiveUp,
                  HarvestStoreOk, RejectScatter, PollScatter
    <3> QED BY <1>3, <3>1, <3>2
  <2>4. ASSUME NEW i \in Items, IssueScatter(i)
        PROVE  LoopInv'
    BY <2>4 DEF IssueScatter, ctlVars, TypeOK
  <2> QED BY <1>7, <2>1, <2>2, <2>3, <2>4 DEF EngineStep
<1>8. CASE LoaderStep
  <2>1. CASE \E s \in Slots : DispatchLoad(s)
    <3>1. phase' = "dispatch_load"
      BY <2>1 DEF DispatchLoad, ctlVars
    <3> QED BY <1>1, <3>1
  <2>2. CASE DispatchLoadEnd \/ HarvestLoadEnd
    BY <2>2 DEF DispatchLoadEnd, HarvestLoadEnd, Goto, itemVars
  <2>3. ASSUME NEW i \in Items, HarvestLoad(i)
        PROVE  LoopInv'
    <3>1. \A k \in Items : k # i => stage'[k] = stage[k]
      BY <2>3 DEF HarvestLoad, HarvestRunning, HarvestRetry, HarvestGiveUp, HarvestLoadOk,
                  itemVars, TypeOK
    <3>2. Visit("harvest_load", i)
      BY <2>3 DEF HarvestLoad, HarvestRunning, HarvestRetry, HarvestGiveUp, HarvestLoadOk
    <3> QED BY <1>3, <3>1, <3>2
  <2> QED BY <1>8, <2>1, <2>2, <2>3 DEF LoaderStep
<1> QED BY <1>4, <1>5, <1>6, <1>7, <1>8 DEF Next

\* The next item of a queue has not been started.
LEMMA NextItemNew ==
  ASSUME TypeOK, QueueInv, FrontInv, NEW q \in {jobsStore, jobsLoad}, q # <<>>
  PROVE  /\ NextItem(q) \in Items /\ stage[NextItem(q)] = "new"
         /\ q = jobsStore => IsStore(NextItem(q))
         /\ q = jobsLoad => IsLoad(NextItem(q))
<1> DEFINE i == NextItem(q)
<1>1. /\ jobsStore \in Seq(StoreJobs) /\ jobsLoad \in Seq(LoadJobs) /\ Queue(q)
      /\ StoreJobs \in SUBSET Jobs /\ LoadJobs \in SUBSET Jobs
  BY DEF TypeOK, Jobs, QueueInv
<1>2. i \in Items /\ i = <<Head(q), nextPath[Head(q)]>>
  BY <1>1, NextItemIn
<1>3. stage[i] = "new"
  BY <1>2, ItemParts DEF FrontInv, TypeOK
<1>4. (q = jobsStore => Head(q) \in StoreJobs) /\ (q = jobsLoad => Head(q) \in LoadJobs)
  BY <1>1
<1> QED BY <1>2, <1>3, <1>4 DEF IsStore, IsLoad

\* No operation outlives the hold of its item on the slot.
LEMMA AsyncKept ==
  ASSUME TypeOK, QueueInv, FrontInv, LoopInv, AsyncOwned, [Next]_vars
  PROVE  AsyncOwned'
<1> USE DEF AsyncOwned
<1>1. ASSUME UNCHANGED <<stage, event, future>>
      PROVE  AsyncOwned'
  BY <1>1
<1>2. CASE \E j \in StoreJobs : SubmitStore(j)
  BY <1>1, <1>2 DEF SubmitStore, itemVars
<1>3. CASE \E j \in LoadJobs : SubmitLoad(j)
  BY <1>1, <1>3 DEF SubmitLoad, itemVars
<1>4. CASE GetFinished \/ (\E js \in SUBSET Jobs : Wait(js)) \/ WaitPoll \/ LoaderLock
           \/ UNCHANGED vars
  BY <1>1, <1>4 DEF GetFinished, Wait, WaitPoll, LoaderLock, itemVars, vars
<1>5. CASE \E i \in Items : DeviceStep(i)
  BY <1>5 DEF DeviceStep, GatherCopied, ScatterCopied, WriteSlot, ReadSlot, IoUnchanged, TypeOK
<1>6. ASSUME NEW p \in {"harvest_store", "harvest_load"}, NEW i \in Items,
             HarvestRunning(p, i) \/ HarvestRetry(p, i) \/ HarvestGiveUp(p, i)
      PROVE  AsyncOwned'
  <2>1. stage[i] = "io"
    BY <1>6, VisitStage DEF HarvestRunning, HarvestRetry, HarvestGiveUp
  <2>2. CASE HarvestRunning(p, i)
    BY <2>2 DEF HarvestRunning, itemVars
  <2>3. CASE HarvestRetry(p, i)
    BY <2>1, <2>3 DEF HarvestRetry, TypeOK
  <2>4. CASE HarvestGiveUp(p, i)
    BY <2>1, <2>4 DEF HarvestGiveUp, TypeOK
  <2> QED
    BY <1>6, <2>2, <2>3, <2>4
<1>7. CASE EngineStep
  <2>1. ASSUME NEW s \in Slots, DispatchStore(s) \/ RejectStore(s)
        PROVE  AsyncOwned'
    <3>1. NextItem(jobsStore) \in Items /\ stage[NextItem(jobsStore)] = "new"
      BY <2>1, NextItemNew DEF DispatchStore, RejectStore
    <3> QED BY <2>1, <3>1 DEF DispatchStore, RejectStore, TypeOK
  <2>2. CASE DispatchStoreEnd \/ PollGatherEnd \/ HarvestStoreEnd \/ PumpEnd
    BY <1>1, <2>2 DEF DispatchStoreEnd, PollGatherEnd, HarvestStoreEnd, PumpEnd, itemVars
  <2>3. ASSUME NEW i \in Items, PollGather(i)
        PROVE  AsyncOwned'
    BY <2>3 DEF PollGather, Copied, TypeOK
  <2>4. ASSUME NEW i \in Items, HarvestStoreOk(i)
        PROVE  AsyncOwned'
    <3>1. stage[i] = "io"
      BY <2>4, VisitStage DEF HarvestStoreOk
    <3> QED BY <2>4, <3>1 DEF HarvestStoreOk, TypeOK
  <2>5. ASSUME NEW i \in Items, IssueScatter(i) \/ RejectScatter(i) \/ PollScatter(i)
        PROVE  AsyncOwned'
    BY <2>5 DEF IssueScatter, RejectScatter, PollScatter, Copied, TypeOK
  <2> QED BY <1>6, <1>7, <2>1, <2>2, <2>3, <2>4, <2>5 DEF EngineStep, HarvestStore
<1>8. CASE LoaderStep
  <2>1. ASSUME NEW s \in Slots, DispatchLoad(s)
        PROVE  AsyncOwned'
    <3>1. NextItem(jobsLoad) \in Items /\ stage[NextItem(jobsLoad)] = "new"
      BY <2>1, NextItemNew DEF DispatchLoad
    <3> QED BY <2>1, <3>1 DEF DispatchLoad, TypeOK
  <2>2. CASE DispatchLoadEnd \/ HarvestLoadEnd
    BY <1>1, <2>2 DEF DispatchLoadEnd, HarvestLoadEnd, itemVars
  <2>3. ASSUME NEW i \in Items, HarvestLoadOk(i)
        PROVE  AsyncOwned'
    <3>1. stage[i] = "io"
      BY <2>3, VisitStage DEF HarvestLoadOk
    <3> QED BY <2>3, <3>1 DEF HarvestLoadOk, TypeOK
  <2> QED BY <1>6, <1>8, <2>1, <2>2, <2>3 DEF LoaderStep, HarvestLoad
<1> QED BY <1>2, <1>3, <1>4, <1>5, <1>7, <1>8 DEF Next

-----------------------------------------------------------------------------
(* The theorems. *)

\* The item a polling loop visits has a slot of the ring.
LEMMA VisitSlot ==
  ASSUME TypeOK, LoopInv, SlotExclusive,
         NEW p \in {"poll_gather", "harvest_store", "harvest_load", "poll_scatter"}, NEW i,
         Visit(p, i)
  PROVE  slot[i] \in Slots
BY VisitStage DEF SlotExclusive, Holding

\* Every step keeps the types.
LEMMA TypeKept ==
  ASSUME TypeOK, QueueInv, LoopInv, SlotExclusive, [Next]_vars
  PROVE  TypeOK'
<1>1. CASE \E j \in StoreJobs : SubmitStore(j)
  BY <1>1, SubmitType DEF Jobs
<1>2. CASE \E j \in LoadJobs : SubmitLoad(j)
  BY <1>2, SubmitType DEF Jobs
<1>3. CASE GetFinished \/ (\E js \in SUBSET Jobs : Wait(js)) \/ WaitPoll \/ LoaderLock
  <2>1. /\ phase' \in {"unlocked"} \cup EnginePhases \cup LoaderPhases
        /\ todo' \subseteq Items
        /\ call' \in {"none", "submit", "get_finished", "wait"}
        /\ waiting' \subseteq Jobs
    BY <1>3 DEF GetFinished, Wait, WaitPoll, LoaderLock, Goto, TypeOK, EnginePhases,
                LoaderPhases
  <2>2. UNCHANGED <<jobVars, doneVars, itemVars, dataVars, returned>>
    BY <1>3 DEF GetFinished, Wait, WaitPoll, LoaderLock
  <2> QED BY <2>1, <2>2, ControlType
<1>4. CASE \E i \in Items : DeviceStep(i)
  BY <1>4, DeviceType
<1>5. CASE UNCHANGED vars
  BY <1>5 DEF vars, ctlVars, jobVars, doneVars, itemVars, dataVars, TypeOK
<1>6. ASSUME NEW p \in {"harvest_store", "harvest_load"}, NEW i \in Items,
             HarvestRunning(p, i) \/ HarvestRetry(p, i) \/ HarvestGiveUp(p, i)
      PROVE  TypeOK'
  <2>1. slot[i] \in Slots
    BY <1>6, VisitSlot DEF HarvestRunning, HarvestRetry, HarvestGiveUp
  <2> QED BY <1>6, <2>1, HarvestType
<1>7. CASE EngineStep
  <2>1. ASSUME NEW s \in Slots, DispatchStore(s) \/ RejectStore(s)
        PROVE  TypeOK'
    BY <2>1, DispatchType
  <2>2. CASE DispatchStoreEnd \/ PollGatherEnd \/ HarvestStoreEnd
    <3>1. /\ phase' \in {"unlocked"} \cup EnginePhases \cup LoaderPhases
          /\ todo' \subseteq Items
          /\ UNCHANGED <<call, waiting>>
      BY <2>2 DEF DispatchStoreEnd, PollGatherEnd, HarvestStoreEnd, Goto, EnginePhases,
                  InflightGather, IoStore, PendingScatter
    <3>2. UNCHANGED <<jobVars, doneVars, itemVars, dataVars, returned>>
      BY <2>2 DEF DispatchStoreEnd, PollGatherEnd, HarvestStoreEnd
    <3>3. /\ call' \in {"none", "submit", "get_finished", "wait"}
          /\ waiting' \subseteq Jobs
      BY <3>1 DEF TypeOK
    <3> QED BY <3>1, <3>2, <3>3, ControlType
  <2>3. ASSUME NEW i \in Items, PollGather(i) \/ HarvestStoreOk(i)
        PROVE  TypeOK'
    <3>1. slot[i] \in Slots
      BY <2>3, VisitSlot DEF PollGather, HarvestStoreOk
    <3> QED BY <2>3, <3>1, StoreLoopType
  <2>4. ASSUME NEW i \in Items, IssueScatter(i) \/ RejectScatter(i) \/ PollScatter(i)
        PROVE  TypeOK'
    <3>1. slot[i] \in Slots
      BY <2>4 DEF IssueScatter, RejectScatter, PollScatter, SlotExclusive, Holding
    <3> QED BY <2>4, <3>1, ScatterType
  <2> QED BY <1>6, <1>7, <2>1, <2>2, <2>3, <2>4, PumpEndType DEF EngineStep, HarvestStore
<1>8. CASE LoaderStep
  <2>1. ASSUME NEW s \in Slots, DispatchLoad(s)
        PROVE  TypeOK'
    BY <2>1, DispatchType
  <2>2. CASE DispatchLoadEnd \/ HarvestLoadEnd
    <3>1. /\ phase' \in {"unlocked"} \cup EnginePhases \cup LoaderPhases
          /\ todo' \subseteq Items
          /\ UNCHANGED <<call, waiting>>
      BY <2>2 DEF DispatchLoadEnd, HarvestLoadEnd, Goto, LoaderPhases, IoLoad
    <3>2. UNCHANGED <<jobVars, doneVars, itemVars, dataVars, returned>>
      BY <2>2 DEF DispatchLoadEnd, HarvestLoadEnd
    <3>3. /\ call' \in {"none", "submit", "get_finished", "wait"}
          /\ waiting' \subseteq Jobs
      BY <3>1 DEF TypeOK
    <3> QED BY <3>1, <3>2, <3>3, ControlType
  <2> QED BY <1>6, <1>8, <2>1, <2>2, HarvestLoadOkType DEF LoaderStep, HarvestLoad
<1> QED BY <1>1, <1>2, <1>3, <1>4, <1>5, <1>7, <1>8 DEF Next

\* The inductive invariant holds initially: no item is started, every slot free.
LEMMA SlotInvInit == Init => SlotInv
<1> SUFFICES ASSUME Init
             PROVE  SlotInv
  OBVIOUS
<1> USE DEF Init
<1>1. TypeOK
  <2>1. /\ jobsStore \in Seq(StoreJobs) /\ jobsLoad \in Seq(LoadJobs)
        /\ results \in Seq(Result) /\ returned \in Seq(Result)
    OBVIOUS
  <2>2. MaxRetries \in Nat
    BY WorkerAssumption
  <2> QED BY <2>1, <2>2 DEF TypeOK, Stages
<1>2. QueueInv
  BY DEF QueueInv, Queue
<1>3. FrontInv
  BY ItemParts DEF FrontInv
<1>4. LoopInv /\ AsyncOwned /\ SlotExclusive /\ NoSlotLost
  BY DEF LoopInv, AsyncOwned, SlotExclusive, NoSlotLost, Holding
<1> QED BY <1>1, <1>2, <1>3, <1>4 DEF SlotInv

\* Every step keeps the inductive invariant.
LEMMA SlotInvNext == SlotInv /\ [Next]_vars => SlotInv'
<1> SUFFICES ASSUME SlotInv, [Next]_vars
             PROVE  SlotInv'
  OBVIOUS
<1>1. SlotStep
  BY StepKind DEF SlotInv
<1> QED
  BY <1>1, TypeKept, QueueKept, FrontKept, LoopKept, AsyncKept, ExclusiveKept, NoSlotLostKept
  DEF SlotInv

\* The inductive invariant of the ring holds in every state of the worker.
THEOREM SlotInvariance == Spec => []SlotInv
<1> QED BY SlotInvInit, SlotInvNext, PTL DEF Spec

\* The types are those of the fields of GdsOffloadingWorker, _Job and _PathItem.
THEOREM TypeCorrect == Spec => []TypeOK
<1>1. SlotInv => TypeOK
  BY DEF SlotInv
<1> QED BY <1>1, SlotInvariance, PTL

\* A ring slot has one owner, for every ring and every interleaving of the
\* engine thread, gds_load_io, the IO threads and the GPU streams.
THEOREM SlotsExclusive == Spec => []SlotExclusive
<1>1. SlotInv => SlotExclusive
  BY DEF SlotInv
<1> QED BY <1>1, SlotInvariance, PTL

\* No error path of the pumps leaks a ring slot.
THEOREM SlotsNotLost == Spec => []NoSlotLost
<1>1. SlotInv => NoSlotLost
  BY DEF SlotInv
<1> QED BY <1>1, SlotInvariance, PTL

\* No IO thread and no stream uses a slot its item has given back.
THEOREM OperationsOwned == Spec => []AsyncOwned
<1>1. SlotInv => AsyncOwned
  BY DEF SlotInv
<1> QED BY <1>1, SlotInvariance, PTL

-----------------------------------------------------------------------------
(* The data in the ring. *)

\* A slot that is free, or belongs to another item, is not the one of k.
LEMMA OtherSlot ==
  ASSUME SlotExclusive, NEW k \in Items, Filled(k)
  PROVE  /\ slot[k] \in Slots \ freeSlots
         /\ \A i \in Items : Holding(i) /\ i # k => slot[i] # slot[k]
BY DEF SlotExclusive, Filled, Holding

\* Dispatching takes a free slot, so it disturbs no chunk.
LEMMA DispatchPreserves ==
  ASSUME SlotInv, DataInv, NEW s \in Slots,
         DispatchStore(s) \/ RejectStore(s) \/ DispatchLoad(s)
  PROVE  DataInv'
<1>1. PICK i \in Items : /\ slot' = [slot EXCEPT ![i] = s] /\ s \in freeSlots
                         /\ stage[i] = "new"
                         /\ \/ /\ IsStore(i) /\ stage' = [stage EXCEPT ![i] = "gather"]
                               /\ event' = [event EXCEPT ![i] = "pending"] /\ future' = future
                            \/ /\ IsStore(i) /\ stage' = [stage EXCEPT ![i] = "bad"]
                               /\ UNCHANGED <<event, future>>
                            \/ /\ IsLoad(i) /\ stage' = [stage EXCEPT ![i] = "io"]
                               /\ future' = [future EXCEPT ![i] = "running"] /\ event' = event
                         /\ slotData' \in {slotData, [slotData EXCEPT ![s] = Junk]}
  <2>1. CASE DispatchStore(s)
    BY <2>1, NextItemNew DEF DispatchStore, TakeSlot, SlotInv
  <2>2. CASE RejectStore(s)
    BY <2>2, NextItemNew DEF RejectStore, SlotInv, dataVars
  <2>3. CASE DispatchLoad(s)
    BY <2>3, NextItemNew DEF DispatchLoad, TakeSlot, SlotInv
  <2> QED BY <2>1, <2>2, <2>3
<1>2. ~(IsStore(i) /\ IsLoad(i))
  BY WorkerAssumption DEF IsStore, IsLoad
<1>3. \A k \in Items : k # i => stage'[k] = stage[k] /\ slot'[k] = slot[k]
                                /\ event'[k] = event[k] /\ future'[k] = future[k]
  BY <1>1 DEF SlotInv, TypeOK
<1>4. stage'[i] \in {"gather", "bad", "io"} /\ ~Filled(i)'
  BY <1>1, <1>2 DEF SlotInv, TypeOK, Filled, IsStore
<1>5. ASSUME NEW k \in Items, Filled(k)'
      PROVE  slotData'[slot'[k]] = k
  <2>1. k # i /\ Filled(k) /\ slot'[k] = slot[k]
    BY <1>3, <1>4, <1>5 DEF Filled, IsStore
  <2>2. slot[k] \in Slots /\ slot[k] # s
    BY <1>1, <2>1, OtherSlot DEF SlotInv
  <2>3. slotData'[slot[k]] = slotData[slot[k]]
    BY <1>1, <2>2 DEF SlotInv, TypeOK
  <2> QED BY <2>1, <2>3 DEF DataInv
<1>6. ASSUME NEW k \in Items
      PROVE  /\ IsLoad(k) => stage'[k] # "gather"
             /\ IsStore(k) => stage'[k] \notin {"read_done", "scattered"}
  BY <1>1, <1>2, <1>3, <1>4 DEF DataInv, SlotInv, TypeOK
<1> QED BY <1>5, <1>6 DEF DataInv, IsLoad, IsStore

\* A step of a loop changes no slot and only the item it visits.
LEMMA LoopPreserves ==
  ASSUME SlotInv, DataInv, NEW i \in Items,
         UNCHANGED <<slot, slotData>>,
         \A k \in Items : k # i => stage'[k] = stage[k] /\ event'[k] = event[k]
                                   /\ future'[k] = future[k],
         Filled(i)' => Filled(i),
         IsLoad(i) => stage'[i] # "gather",
         IsStore(i) => stage'[i] \notin {"read_done", "scattered"}
  PROVE  DataInv'
<1>1. \A k \in Items : Filled(k)' => Filled(k)
  BY DEF Filled, IsStore
<1> QED BY <1>1 DEF DataInv, IsLoad, IsStore

\* No iteration of a loop, in either thread, disturbs a chunk in the ring.
LEMMA EnginePreserves ==
  ASSUME SlotInv, DataInv, NEW i \in Items,
         \/ PollGather(i) \/ HarvestStore(i)
         \/ IssueScatter(i) \/ RejectScatter(i) \/ PollScatter(i)
         \/ HarvestLoad(i)
  PROVE  DataInv'
<1> USE DEF SlotInv, TypeOK
<1>0. ~(IsStore(i) /\ IsLoad(i))
  BY WorkerAssumption DEF IsStore, IsLoad
<1>1. UNCHANGED <<slot, slotData>>
  BY DEF PollGather, HarvestStore, HarvestLoad, HarvestRunning, HarvestRetry, HarvestGiveUp,
         HarvestStoreOk, HarvestLoadOk, IssueScatter, RejectScatter, PollScatter, itemVars,
         dataVars
<1>2. \A k \in Items : k # i => stage'[k] = stage[k] /\ event'[k] = event[k]
                                /\ future'[k] = future[k]
  BY DEF PollGather, HarvestStore, HarvestLoad, HarvestRunning, HarvestRetry, HarvestGiveUp,
         HarvestStoreOk, HarvestLoadOk, IssueScatter, RejectScatter, PollScatter, itemVars
<1>3. CASE PollGather(i)
  <2>1. IsStore(i) /\ stage[i] = "gather"
    BY <1>3, VisitStage DEF PollGather
  <2>2. \/ event[i] = "complete" /\ stage'[i] = "io"
        \/ stage'[i] = stage[i] /\ future'[i] = future[i] /\ event'[i] = event[i]
    BY <1>3 DEF PollGather, Copied
  <2>3. (Filled(i)' => Filled(i)) /\ stage'[i] \notin {"read_done", "scattered"}
    BY <2>1, <2>2 DEF Filled, IsStore
  <2> QED BY <1>0, <1>1, <1>2, <2>1, <2>3, LoopPreserves
<1>4. CASE HarvestStore(i)
  <2>1. IsStore(i) /\ stage[i] = "io"
    BY <1>4, VisitStage
    DEF HarvestStore, HarvestRunning, HarvestRetry, HarvestGiveUp, HarvestStoreOk
  <2>2. stage'[i] \in {"io", "done"}
    BY <1>4, <2>1
    DEF HarvestStore, HarvestRunning, HarvestRetry, HarvestGiveUp, HarvestStoreOk, itemVars
  <2>3. Filled(i)
    BY <2>1 DEF Filled
  <2> QED BY <1>0, <1>1, <1>2, <2>1, <2>2, <2>3, LoopPreserves
<1>5. CASE HarvestLoad(i)
  <2>1. IsLoad(i) /\ stage[i] = "io"
    BY <1>5, VisitStage
    DEF HarvestLoad, HarvestRunning, HarvestRetry, HarvestGiveUp, HarvestLoadOk
  <2>2. \/ stage'[i] = "io" /\ future'[i] = future[i]
        \/ stage'[i] = "io" /\ future'[i] = "running"
        \/ stage'[i] = "done"
        \/ stage'[i] = "read_done" /\ future[i] = "ok"
    BY <1>5, <2>1
    DEF HarvestLoad, HarvestRunning, HarvestRetry, HarvestGiveUp, HarvestLoadOk, itemVars
  <2>3. Filled(i)' => Filled(i)
    BY <1>0, <2>1, <2>2 DEF Filled, IsStore
  <2>4. stage'[i] # "gather"
    BY <2>2
  <2> QED BY <1>0, <1>1, <1>2, <2>1, <2>3, <2>4, LoopPreserves
<1>6. CASE IssueScatter(i) \/ RejectScatter(i) \/ PollScatter(i)
  <2>1. IsLoad(i) /\ stage[i] \in {"read_done", "scattered"}
    BY <1>6 DEF IssueScatter, RejectScatter, PollScatter, Visit, LoopInv, PendingScatter
  <2>2. stage'[i] # "gather"
    BY <1>6 DEF IssueScatter, RejectScatter, PollScatter
  <2>3. Filled(i)
    BY <2>1 DEF Filled
  <2> QED BY <1>0, <1>1, <1>2, <2>1, <2>2, <2>3, LoopPreserves
<1> QED BY <1>3, <1>4, <1>5, <1>6

\* A copy or an IO fills or empties only the slot of the item it was issued for.
LEMMA DevicePreserves ==
  ASSUME SlotInv, DataInv, NEW i \in Items, DeviceStep(i)
  PROVE  DataInv'
<1> USE DEF SlotInv, TypeOK
<1>0. ~(IsStore(i) /\ IsLoad(i))
  BY WorkerAssumption DEF IsStore, IsLoad
<1>1. UNCHANGED <<stage, slot>>
  BY DEF DeviceStep, GatherCopied, ScatterCopied, WriteSlot, ReadSlot, IoUnchanged
<1>2. Holding(i)
  BY DEF DeviceStep, GatherCopied, ScatterCopied, WriteSlot, ReadSlot, AsyncOwned, Holding
<1>3. slot[i] \in Slots
  BY <1>2 DEF SlotExclusive
<1>4. \A k \in Items : k # i => event'[k] = event[k] /\ future'[k] = future[k]
  BY DEF DeviceStep, GatherCopied, ScatterCopied, WriteSlot, ReadSlot
<1>5. \A u \in Slots : u # slot[i] => slotData'[u] = slotData[u]
  BY DEF DeviceStep, GatherCopied, ScatterCopied, WriteSlot, ReadSlot
<1>6. ASSUME NEW k \in Items, Filled(k)', k # i
      PROVE  slotData'[slot'[k]] = k
  <2>1. Filled(k)
    BY <1>1, <1>4, <1>6 DEF Filled, IsStore
  <2>2. slot[k] \in Slots /\ slot[k] # slot[i]
    BY <1>2, <1>6, <2>1, OtherSlot
  <2> QED BY <1>1, <1>5, <2>1, <2>2 DEF DataInv
<1>7. Filled(i)' => slotData'[slot'[i]] = i
  <2>1. CASE GatherCopied(i)
    BY <1>1, <1>3, <2>1 DEF GatherCopied
  <2>2. CASE ScatterCopied(i)
    <3>1. stage[i] # "gather" /\ future' = future /\ slotData' = slotData
      BY <2>2 DEF ScatterCopied, DataInv
    <3>2. Filled(i)' => Filled(i)
      BY <1>1, <3>1 DEF Filled, IsStore
    <3> QED BY <1>1, <3>1, <3>2 DEF DataInv
  <2>3. CASE WriteSlot(i)
    <3>1. event' = event /\ slotData' = slotData /\ IsStore(i)
      BY <2>3 DEF WriteSlot
    <3>2. Filled(i)' => Filled(i)
      BY <1>1, <3>1 DEF Filled, IsStore
    <3> QED BY <1>1, <3>1, <3>2 DEF DataInv
  <2>4. CASE ReadSlot(i)
    <3>1. stage[i] = "io" /\ IsLoad(i)
      BY <2>4 DEF ReadSlot, AsyncOwned
    <3>2. Filled(i)' => future'[i] = "ok"
      BY <1>0, <1>1, <3>1 DEF Filled, IsStore
    <3>3. future'[i] = "ok" => slotData'[slot[i]] = i
      BY <1>3, <2>4 DEF ReadSlot
    <3> QED BY <1>1, <3>2, <3>3
  <2> QED BY <2>1, <2>2, <2>3, <2>4 DEF DeviceStep
<1>8. \A k \in Items : Filled(k)' => slotData'[slot'[k]] = k
  BY <1>6, <1>7
<1> QED BY <1>1, <1>8 DEF DataInv, IsLoad, IsStore

\* Every step keeps the chunks in the ring.
LEMMA DataKept ==
  ASSUME SlotInv, DataInv, [Next]_vars
  PROVE  DataInv'
<1>1. ASSUME UNCHANGED <<stage, slot, event, future, slotData>>
      PROVE  DataInv'
  BY <1>1 DEF DataInv, Filled, IsStore, IsLoad
<1>2. CASE \E j \in StoreJobs : SubmitStore(j)
  BY <1>1, <1>2 DEF SubmitStore, itemVars, dataVars
<1>3. CASE \E j \in LoadJobs : SubmitLoad(j)
  BY <1>1, <1>3 DEF SubmitLoad, itemVars, dataVars
<1>4. CASE GetFinished \/ (\E js \in SUBSET Jobs : Wait(js)) \/ WaitPoll \/ LoaderLock
           \/ UNCHANGED vars
  BY <1>1, <1>4 DEF GetFinished, Wait, WaitPoll, LoaderLock, itemVars, dataVars, vars
<1>5. CASE EngineStep
  <2>1. CASE DispatchStoreEnd \/ PollGatherEnd \/ HarvestStoreEnd \/ PumpEnd
    BY <1>1, <2>1 DEF DispatchStoreEnd, PollGatherEnd, HarvestStoreEnd, PumpEnd, itemVars,
                      dataVars
  <2> QED BY <1>5, <2>1, DispatchPreserves, EnginePreserves DEF EngineStep
<1>6. CASE LoaderStep
  <2>1. CASE DispatchLoadEnd \/ HarvestLoadEnd
    BY <1>1, <2>1 DEF DispatchLoadEnd, HarvestLoadEnd, itemVars, dataVars
  <2> QED BY <1>6, <2>1, DispatchPreserves, EnginePreserves DEF LoaderStep
<1> QED BY <1>2, <1>3, <1>4, <1>5, <1>6, DevicePreserves DEF Next

\* Files and GPU blocks change only by a write or a scatter, whose slot holds
\* the chunk of the item.
LEMMA IntactKept ==
  ASSUME SlotInv, DataInv, DataIntact, [Next]_vars
  PROVE  DataIntact'
<1> USE DEF DataIntact
<1>1. ASSUME UNCHANGED <<chunk, kv>>
      PROVE  DataIntact'
  BY <1>1
<1>2. CASE \E i \in Items : DeviceStep(i)
  <2> USE DEF SlotInv, TypeOK
  <2> SUFFICES ASSUME NEW i \in Items, DeviceStep(i)
               PROVE  DataIntact'
    BY <1>2
  <2>1. CASE GatherCopied(i) \/ ReadSlot(i)
    BY <2>1 DEF GatherCopied, ReadSlot
  <2>2. CASE ScatterCopied(i)
    <3>1. Filled(i)
      BY <2>2 DEF ScatterCopied, AsyncOwned, DataInv, Filled
    <3>2. slotData[slot[i]] = i
      BY <3>1 DEF DataInv
    <3> QED BY <2>2, <3>2 DEF ScatterCopied
  <2>3. CASE WriteSlot(i)
    <3>1. Filled(i)
      BY <2>3 DEF WriteSlot, AsyncOwned, Filled
    <3>2. slotData[slot[i]] = i
      BY <3>1 DEF DataInv
    <3> QED BY <2>3, <3>2 DEF WriteSlot
  <2> QED BY <2>1, <2>2, <2>3 DEF DeviceStep
<1>3. CASE \E j \in StoreJobs : SubmitStore(j)
  BY <1>1, <1>3 DEF SubmitStore, dataVars
<1>4. CASE \E j \in LoadJobs : SubmitLoad(j)
  BY <1>1, <1>4 DEF SubmitLoad, dataVars
<1>5. CASE GetFinished \/ (\E js \in SUBSET Jobs : Wait(js)) \/ WaitPoll \/ LoaderLock
           \/ UNCHANGED vars
  BY <1>1, <1>5 DEF GetFinished, Wait, WaitPoll, LoaderLock, dataVars, vars
<1>6. CASE EngineStep
  BY <1>1, <1>6 DEF EngineStep, DispatchStore, RejectStore, DispatchStoreEnd, PollGather,
    PollGatherEnd, HarvestStore, HarvestRunning, HarvestRetry, HarvestGiveUp,
    HarvestStoreOk, HarvestStoreEnd, IssueScatter, RejectScatter, PollScatter, PumpEnd, dataVars
<1>7. CASE LoaderStep
  BY <1>1, <1>7 DEF LoaderStep, DispatchLoad, DispatchLoadEnd, HarvestLoad, HarvestRunning,
    HarvestRetry, HarvestGiveUp, HarvestLoadOk, HarvestLoadEnd, dataVars
<1> QED BY <1>2, <1>3, <1>4, <1>5, <1>6, <1>7 DEF Next

\* The invariant of the ring and its data holds in every state of the worker.
THEOREM Invariance == Spec => []Inv
<1>1. Init => Inv
  <2> SUFFICES ASSUME Init
               PROVE  DataInv /\ DataIntact
    BY SlotInvInit DEF Inv
  <2> QED BY DEF Init, DataInv, Filled, DataIntact
<1>2. Inv /\ [Next]_vars => Inv'
  BY SlotInvNext, DataKept, IntactKept DEF Inv
<1> QED BY <1>1, <1>2, PTL DEF Spec

\* No chunk file and no GPU block ever receives the data of another item or of
\* a slot that is half copied.
THEOREM ChunksIntact == Spec => []DataIntact
<1>1. Inv => DataIntact
  BY DEF Inv
<1> QED BY <1>1, Invariance, PTL

\* A write that is retried still finds its chunk in the slot.
THEOREM RetriesValid == Spec => []RetryDataValid
<1>1. Inv => RetryDataValid
  BY DEF Inv, DataInv, RetryDataValid, IoStore, Filled
<1> QED BY <1>1, Invariance, PTL
=============================================================================
