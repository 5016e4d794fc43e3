------------------ MODULE GdsOffloadingWorkerResults_proofs -------------------
(***************************************************************************)
(* Theorems about the TransferResults of GdsOffloadingWorker: a job has    *)
(* one, it says what happened to the job's chunks, and the worker's steps  *)
(* are steps of TransferService.                                           *)
(***************************************************************************)
EXTENDS GdsOffloadingWorker_proofs, FiniteSetTheorems

-----------------------------------------------------------------------------
(* The inductive invariant, on top of the one of the ring and its data. *)

\* A chunk arrived where it was sent, or was refused by _validate_item; or it
\* did not get there.
Arrived(i) == IF IsStore(i) THEN chunk[i] = "whole" ELSE kv[i] = "loaded" \/ stage[i] = "bad"
Missed(i) == IF IsStore(i) THEN chunk[i] = "absent" ELSE kv[i] = "missing"

\* What the stage, the future and the event of an item say about its chunk.
ItemFacts(i) ==
  /\ stage[i] = "new" => ~ok[i]
  /\ stage[i] \in {"new", "gather"} => future[i] = "none"
  /\ stage[i] \in {"read_done", "scattered"} => ok[i]
  /\ IsStore(i) => chunk[i] = IF future[i] = "ok" THEN "whole" ELSE "absent"
  /\ IsLoad(i) => kv[i] = IF event[i] = "complete" THEN "loaded" ELSE "missing"
  /\ IsLoad(i) /\ event[i] # "none" => stage[i] \in {"scattered", "done"}

ItemInv == \A i \in Items : ItemFacts(i)

\* done_count counts the items _path_done has seen, ok_all is their verdict.
FinishedOf(j) == {i \in ItemsOf(j) : Finished(i)}
AllDone(j) == \A i \in ItemsOf(j) : Finished(i)

CountInv == \A j \in Jobs : doneCount[j] = Cardinality(FinishedOf(j))

VerdictInv ==
  \A j \in Jobs :
    IF okAll[j] THEN \A i \in FinishedOf(j) : Arrived(i)
                ELSE \E i \in FinishedOf(j) : Missed(i)

\* The results so far, in the order they were produced.
Reported == returned \o results

\* A job is reported once all its items are finished, once, with its verdict.
ReportInv ==
  /\ \A m, n \in 1..Len(Reported) : Reported[m].job = Reported[n].job => m = n
  /\ \A n \in 1..Len(Reported), j \in Jobs :
       Reported[n].job = j => j \in submitted /\ AllDone(j) /\ Reported[n].success = okAll[j]
  /\ \A j \in submitted : AllDone(j) => \E n \in 1..Len(Reported) : Reported[n].job = j

ResultsInv == ItemInv /\ CountInv /\ VerdictInv /\ ReportInv

-----------------------------------------------------------------------------
(* What an item's stage says of its chunk survives every step. *)

\* A step about item i leaves the facts of the others alone.
LEMMA OneItem ==
  ASSUME ItemInv, NEW i \in Items, ItemFacts(i)',
         \A k \in Items : k # i =>
           /\ stage'[k] = stage[k] /\ ok'[k] = ok[k] /\ event'[k] = event[k]
           /\ future'[k] = future[k] /\ chunk'[k] = chunk[k] /\ kv'[k] = kv[k]
  PROVE  ItemInv'
<1>1. \A k \in Items : k # i => ItemFacts(k)'
  BY DEF ItemInv, ItemFacts, IsStore, IsLoad
<1> QED BY <1>1 DEF ItemInv

\* An item that is dispatched, or refused at once, starts without IO.
LEMMA DispatchFacts ==
  ASSUME Inv, ItemInv, NEW s \in Slots, DispatchStore(s) \/ RejectStore(s) \/ DispatchLoad(s)
  PROVE  ItemInv'
<1> USE DEF Inv, SlotInv, TypeOK
<1>1. ASSUME DispatchStore(s) \/ RejectStore(s)
      PROVE  ItemInv'
  <2>0. PICK i \in Items : i = NextItem(jobsStore)
    BY <1>1, NextItemNew DEF DispatchStore, RejectStore
  <2>1. stage[i] = "new" /\ IsStore(i) /\ ~IsLoad(i)
    BY <1>1, <2>0, NextItemNew, WorkerAssumption DEF DispatchStore, RejectStore, IsStore, IsLoad
  <2>2. UNCHANGED <<ok, future, chunk, kv>>
    BY <1>1 DEF DispatchStore, RejectStore, dataVars
  <2>3. PICK x \in {"gather", "bad"} : stage' = [stage EXCEPT ![i] = x]
    BY <1>1, <2>0 DEF DispatchStore, RejectStore
  <2>4. event' = event \/ event' = [event EXCEPT ![i] = "pending"]
    BY <1>1, <2>0 DEF DispatchStore, RejectStore
  <2>5. ItemFacts(i)'
    BY <2>1, <2>2, <2>3 DEF ItemInv, ItemFacts, IsStore, IsLoad
  <2> QED BY <2>1, <2>2, <2>3, <2>4, <2>5, OneItem
<1>2. ASSUME DispatchLoad(s)
      PROVE  ItemInv'
  <2>0. PICK i \in Items : i = NextItem(jobsLoad)
    BY <1>2, NextItemNew DEF DispatchLoad
  <2>1. stage[i] = "new" /\ IsLoad(i) /\ ~IsStore(i)
    BY <1>2, <2>0, NextItemNew, WorkerAssumption DEF DispatchLoad, IsStore, IsLoad
  <2>2. /\ UNCHANGED <<ok, event, chunk, kv>>
        /\ stage' = [stage EXCEPT ![i] = "io"] /\ future' = [future EXCEPT ![i] = "running"]
    BY <1>2, <2>0 DEF DispatchLoad
  <2>3. ItemFacts(i)'
    BY <2>1, <2>2 DEF ItemInv, ItemFacts, IsStore, IsLoad
  <2> QED BY <2>1, <2>2, <2>3, OneItem
<1> QED BY <1>1, <1>2

\* The loops of both pumps move an item on as its future or its event allows.
LEMMA LoopFacts ==
  ASSUME Inv, ItemInv, NEW i \in Items,
         \/ PollGather(i) \/ HarvestStore(i)
         \/ IssueScatter(i) \/ RejectScatter(i) \/ PollScatter(i)
         \/ HarvestLoad(i)
  PROVE  ItemInv'
<1> USE DEF Inv, SlotInv, TypeOK
<1>0. ~(IsStore(i) /\ IsLoad(i)) /\ ItemFacts(i)
  BY WorkerAssumption DEF IsStore, IsLoad, ItemInv
<1>1. /\ UNCHANGED <<chunk, kv>>
      /\ \A k \in Items : k # i =>
           /\ stage'[k] = stage[k] /\ ok'[k] = ok[k] /\ event'[k] = event[k]
           /\ future'[k] = future[k]
  <2>1. CASE PollGather(i)
    BY <2>1 DEF PollGather, dataVars
  <2>2. CASE HarvestStore(i)
    BY <2>2 DEF HarvestStore, HarvestRunning, HarvestRetry, HarvestGiveUp, HarvestStoreOk,
                itemVars, dataVars
  <2>3. CASE HarvestLoad(i)
    BY <2>3 DEF HarvestLoad, HarvestRunning, HarvestRetry, HarvestGiveUp, HarvestLoadOk,
                itemVars, dataVars
  <2>4. CASE IssueScatter(i) \/ RejectScatter(i) \/ PollScatter(i)
    BY <2>4 DEF IssueScatter, RejectScatter, PollScatter, dataVars
  <2> QED BY <2>1, <2>2, <2>3, <2>4
<1>2. CASE PollGather(i)
  <2>1. IsStore(i) /\ stage[i] = "gather"
    BY <1>2, VisitStage DEF PollGather
  <2>2. ItemFacts(i)'
    BY <1>0, <1>1, <1>2, <2>1 DEF PollGather, ItemFacts, IsStore, IsLoad
  <2> QED BY <1>1, <2>2, OneItem
<1>3. ASSUME NEW p \in {"harvest_store", "harvest_load"},
             HarvestRunning(p, i) \/ HarvestRetry(p, i) \/ HarvestGiveUp(p, i)
      PROVE  ItemInv'
  <2>1. stage[i] = "io"
    BY <1>3, VisitStage DEF HarvestRunning, HarvestRetry, HarvestGiveUp
  <2>2. event' = event /\ stage'[i] \in {"io", "done"} /\ future'[i] \in {future[i], "running"}
    BY <1>3, <2>1 DEF HarvestRunning, HarvestRetry, HarvestGiveUp, itemVars
  <2>3. future[i] = "ok" => future'[i] = "ok"
    BY <1>3 DEF HarvestRunning, HarvestRetry, HarvestGiveUp, itemVars
  <2>4. ItemFacts(i)'
    BY <1>0, <1>1, <2>1, <2>2, <2>3 DEF ItemFacts, IsStore, IsLoad
  <2> QED BY <1>1, <2>4, OneItem
<1>4. CASE HarvestStoreOk(i)
  <2>1. IsStore(i) /\ stage[i] = "io"
    BY <1>4, VisitStage DEF HarvestStoreOk
  <2>2. ItemFacts(i)'
    BY <1>0, <1>1, <1>4, <2>1 DEF HarvestStoreOk, ItemFacts, IsStore, IsLoad
  <2> QED BY <1>1, <2>2, OneItem
<1>5. CASE HarvestLoadOk(i)
  <2>1. IsLoad(i) /\ stage[i] = "io"
    BY <1>5, VisitStage DEF HarvestLoadOk
  <2>2. ItemFacts(i)'
    BY <1>0, <1>1, <1>5, <2>1 DEF HarvestLoadOk, ItemFacts, IsStore, IsLoad
  <2> QED BY <1>1, <2>2, OneItem
<1>6. CASE IssueScatter(i) \/ RejectScatter(i) \/ PollScatter(i)
  <2>1. IsLoad(i) /\ stage[i] \in {"read_done", "scattered"}
    BY <1>6 DEF IssueScatter, RejectScatter, PollScatter, Visit, LoopInv, PendingScatter
  <2>2. ItemFacts(i)'
    BY <1>0, <1>1, <1>6, <2>1
    DEF IssueScatter, RejectScatter, PollScatter, Copied, ItemFacts, IsStore, IsLoad
  <2> QED BY <1>1, <2>2, OneItem
<1> QED BY <1>2, <1>3, <1>4, <1>5, <1>6 DEF HarvestStore, HarvestLoad

\* A write that succeeds leaves the whole chunk on disk, a copy that ends leaves
\* the chunk in the GPU blocks, because the slot holds the item's data.
LEMMA DeviceFacts ==
  ASSUME Inv, ItemInv, NEW i \in Items, DeviceStep(i)
  PROVE  ItemInv'
<1> USE DEF Inv, SlotInv, TypeOK
<1>0. ~(IsStore(i) /\ IsLoad(i)) /\ ItemFacts(i)
  BY WorkerAssumption DEF IsStore, IsLoad, ItemInv
<1>1. /\ UNCHANGED <<stage, ok>>
      /\ \A k \in Items : k # i => /\ event'[k] = event[k] /\ future'[k] = future[k]
                                   /\ chunk'[k] = chunk[k] /\ kv'[k] = kv[k]
  BY DEF DeviceStep, GatherCopied, ScatterCopied, WriteSlot, ReadSlot, IoUnchanged
<1>2. ItemFacts(i)'
  <2>1. CASE GatherCopied(i)
    BY <1>0, <1>1, <2>1 DEF GatherCopied, ItemFacts, IsStore, IsLoad
  <2>2. CASE ScatterCopied(i)
    <3>1. Filled(i)
      BY <2>2 DEF ScatterCopied, AsyncOwned, DataInv, Filled
    <3>2. slotData[slot[i]] = i
      BY <3>1 DEF DataInv
    <3> QED BY <1>0, <1>1, <2>2, <3>2 DEF ScatterCopied, ItemFacts, IsStore, IsLoad
  <2>3. CASE WriteSlot(i)
    <3>1. stage[i] = "io" /\ slotData[slot[i]] = i
      BY <2>3 DEF WriteSlot, AsyncOwned, Filled, DataInv
    <3> QED BY <1>0, <1>1, <2>3, <3>1 DEF WriteSlot, ItemFacts, IsStore, IsLoad
  <2>4. CASE ReadSlot(i)
    <3>1. stage[i] = "io"
      BY <2>4 DEF ReadSlot, AsyncOwned
    <3> QED BY <1>0, <1>1, <2>4, <3>1 DEF ReadSlot, ItemFacts, IsStore, IsLoad
  <2> QED BY <2>1, <2>2, <2>3, <2>4 DEF DeviceStep
<1> QED BY <1>1, <1>2, OneItem

\* Every step keeps the facts about the items.
LEMMA ItemKept ==
  ASSUME Inv, ItemInv, [Next]_vars
  PROVE  ItemInv'
<1>1. ASSUME UNCHANGED <<stage, ok, event, future, chunk, kv>>
      PROVE  ItemInv'
  BY <1>1 DEF ItemInv, ItemFacts, IsStore, IsLoad
<1>2. CASE \E j \in StoreJobs : SubmitStore(j)
  BY <1>1, <1>2 DEF SubmitStore, itemVars, dataVars
<1>3. CASE \E j \in LoadJobs : SubmitLoad(j)
  BY <1>1, <1>3 DEF SubmitLoad, itemVars, dataVars
<1>4. CASE GetFinished \/ (\E js \in SUBSET Jobs : Wait(js)) \/ WaitPoll \/ LoaderLock
           \/ UNCHANGED vars
  BY <1>1, <1>4 DEF GetFinished, Wait, WaitPoll, LoaderLock, itemVars, dataVars, vars
<1>5. CASE EngineStep
  <2>1. CASE DispatchStoreEnd \/ PollGatherEnd \/ HarvestStoreEnd \/ PumpEnd
    BY <1>1, <2>1 DEF DispatchStoreEnd, PollGatherEnd, HarvestStoreEnd, PumpEnd, itemVars,
                      dataVars
  <2> QED BY <1>5, <2>1, DispatchFacts, LoopFacts DEF EngineStep
<1>6. CASE LoaderStep
  <2>1. CASE DispatchLoadEnd \/ HarvestLoadEnd
    BY <1>1, <2>1 DEF DispatchLoadEnd, HarvestLoadEnd, itemVars, dataVars
  <2> QED BY <1>6, <2>1, DispatchFacts, LoopFacts DEF LoaderStep
<1> QED BY <1>2, <1>3, <1>4, <1>5, <1>6, DeviceFacts DEF Next

-----------------------------------------------------------------------------
(* What a step does to the results: four kinds of steps. *)

ReportVars == <<submitted, doneCount, okAll, results, returned>>

\* Nothing that is finished changes any more.
Settled ==
  \A i \in Items : Finished(i) =>
    stage'[i] = stage[i] /\ chunk'[i] = chunk[i] /\ kv'[i] = kv[i]

\* No item finishes, and nothing is reported.
Unreported ==
  /\ \A i \in Items : Finished(i)' => Finished(i)
  /\ UNCHANGED ReportVars

\* A job is submitted; one without items is reported at once.
Submits(j) ==
  /\ j \in Jobs \ submitted
  /\ submitted' = submitted \cup {j}
  /\ results' = IF NumItems[j] = 0 THEN Append(results, [job |-> j, success |-> TRUE]) ELSE results
  /\ UNCHANGED <<stage, doneCount, okAll, returned>>

\* An item finishes, and the flag it counts with tells what became of its chunk.
Finishes(i, itemOk) ==
  /\ i \in Items /\ ~Finished(i) /\ i[1] \in submitted
  /\ itemOk \in BOOLEAN
  /\ IF itemOk THEN Arrived(i)' ELSE Missed(i)'
  /\ \E x \in {"bad", "done"} : stage' = [stage EXCEPT ![i] = x]
  /\ \E s : PathDone(i, s, itemOk)
  /\ UNCHANGED <<submitted, returned>>

\* get_finished hands out what has been reported.
Collects ==
  /\ returned' = returned \o results
  /\ results' = <<>>
  /\ UNCHANGED <<submitted, stage, doneCount, okAll>>

ResultStep ==
  /\ Settled
  /\ \/ Unreported \/ Collects
     \/ \E j \in Jobs : Submits(j)
     \/ \E i \in Items, itemOk \in BOOLEAN : Finishes(i, itemOk)

\* The job of an item that has been dispatched was submitted.
LEMMA DispatchedSubmitted ==
  ASSUME SlotInv, NEW i \in Items, stage[i] # "new"
  PROVE  i[1] \in submitted
<1>1. i[1] \in Jobs /\ i[2] \in Nat
  BY ItemParts
<1>2. nextPath[i[1]] \in Nat /\ ~(nextPath[i[1]] <= i[2])
  BY <1>1 DEF SlotInv, TypeOK, FrontInv
<1> QED BY <1>1, <1>2 DEF SlotInv, QueueInv

\* An item that is refused at its dispatch counts as failed, and nothing of its
\* chunk was written.
LEMMA DispatchResult ==
  ASSUME Inv, ItemInv, NEW s \in Slots, DispatchStore(s) \/ RejectStore(s) \/ DispatchLoad(s)
  PROVE  ResultStep
<1> USE DEF Inv, SlotInv, TypeOK
<1>1. PICK q \in {jobsStore, jobsLoad}, i \in Items :
        /\ q # <<>> /\ i = NextItem(q) /\ stage[i] = "new"
        /\ DispatchStore(s) \/ RejectStore(s) => q = jobsStore /\ IsStore(i)
        /\ DispatchLoad(s) => q = jobsLoad
  <2>1. CASE DispatchStore(s) \/ RejectStore(s)
    <3>1. jobsStore # <<>>
      BY <2>1 DEF DispatchStore, RejectStore
    <3>2. ~DispatchLoad(s)
      BY <2>1 DEF DispatchStore, RejectStore, DispatchLoad
    <3> QED BY <2>1, <3>1, <3>2, NextItemNew
  <2>2. CASE DispatchLoad(s)
    <3>1. jobsLoad # <<>> /\ ~DispatchStore(s) /\ ~RejectStore(s)
      BY <2>2 DEF DispatchStore, RejectStore, DispatchLoad
    <3> QED BY <2>2, <3>1, NextItemNew
  <2> QED BY <2>1, <2>2
<1>2. UNCHANGED <<chunk, kv>>
  BY DEF DispatchStore, RejectStore, DispatchLoad, dataVars
<1>3. CASE DispatchStore(s) \/ DispatchLoad(s)
  <2>1. PICK x \in {"gather", "io"} : stage' = [stage EXCEPT ![i] = x]
    BY <1>1, <1>3 DEF DispatchStore, DispatchLoad
  <2>2. Settled /\ \A k \in Items : Finished(k)' => Finished(k)
    BY <1>1, <1>2, <2>1 DEF Settled, Finished
  <2>3. UNCHANGED ReportVars
    BY <1>3 DEF DispatchStore, DispatchLoad, ReportVars
  <2> QED BY <2>2, <2>3 DEF ResultStep, Unreported
<1>4. CASE RejectStore(s)
  <2>1. /\ stage' = [stage EXCEPT ![i] = "bad"] /\ PathDone(i, s, ok[i])
        /\ UNCHANGED <<submitted, returned, chunk>>
    BY <1>1, <1>2, <1>4 DEF RejectStore
  <2>2. /\ Queue(jobsStore) /\ jobsStore # <<>> /\ jobsStore \in Seq(StoreJobs)
        /\ StoreJobs \in SUBSET Jobs
    BY <1>4 DEF RejectStore, QueueInv, Jobs
  <2>3. i[1] = Head(jobsStore)
    BY <1>1, <1>4 DEF NextItem
  <2>4. i[1] \in submitted
    <3>1. Head(jobsStore) = jobsStore[1] /\ 1 \in 1..Len(jobsStore)
      BY <2>2
    <3> QED BY <2>2, <2>3, <3>1 DEF Queue
  <2>5. ok[i] = FALSE /\ chunk[i] = "absent" /\ IsStore(i)
    BY <1>1, <1>4 DEF ItemInv, ItemFacts
  <2>6. Missed(i)'
    BY <2>1, <2>5 DEF Missed, IsStore
  <2>7. Finishes(i, FALSE)
    BY <1>1, <2>1, <2>4, <2>5, <2>6 DEF Finishes, Finished
  <2>8. Settled
    BY <1>1, <1>2, <2>1 DEF Settled, Finished
  <2> QED BY <2>7, <2>8 DEF ResultStep
<1> QED BY <1>3, <1>4

\* An item that leaves a loop for good counts with what became of its chunk: a
\* write or a read given up has left nothing, a write that succeeded is on disk, a
\* copy that is complete is in the GPU blocks.
LEMMA LoopResult ==
  ASSUME Inv, ItemInv, NEW i \in Items,
         \/ PollGather(i) \/ HarvestStore(i)
         \/ IssueScatter(i) \/ RejectScatter(i) \/ PollScatter(i)
         \/ HarvestLoad(i)
  PROVE  ResultStep
<1> USE DEF Inv, SlotInv, TypeOK
<1>0. ~(IsStore(i) /\ IsLoad(i)) /\ (IsStore(i) \/ IsLoad(i)) /\ ItemFacts(i)
  BY WorkerAssumption, ItemParts DEF IsStore, IsLoad, ItemInv, Jobs
<1>1. UNCHANGED <<chunk, kv, submitted, returned>>
  BY DEF PollGather, HarvestStore, HarvestLoad, HarvestRunning, HarvestRetry, HarvestGiveUp,
         HarvestStoreOk, HarvestLoadOk, IssueScatter, RejectScatter, PollScatter, jobVars,
         dataVars
<1>2. ~Finished(i) /\ stage[i] # "new"
  BY VisitStage DEF PollGather, HarvestStore, HarvestLoad, HarvestRunning, HarvestRetry,
     HarvestGiveUp, HarvestStoreOk, HarvestLoadOk, IssueScatter, RejectScatter, PollScatter, Finished
<1>3. i[1] \in submitted
  BY <1>2, DispatchedSubmitted
<1>4. ASSUME stage' = stage \/ \E x \in HoldStages : stage' = [stage EXCEPT ![i] = x],
             UNCHANGED doneVars
      PROVE  ResultStep
  <2>1. Settled /\ \A k \in Items : Finished(k)' => Finished(k)
    BY <1>1, <1>2, <1>4 DEF Settled, Finished, HoldStages
  <2> QED BY <1>1, <1>4, <2>1 DEF ResultStep, Unreported, ReportVars, doneVars
<1>5. ASSUME NEW x \in {"bad", "done"}, stage' = [stage EXCEPT ![i] = x],
             NEW itemOk \in BOOLEAN, PathDone(i, slot[i], itemOk),
             IF itemOk THEN Arrived(i)' ELSE Missed(i)'
      PROVE  ResultStep
  <2>1. Settled
    BY <1>1, <1>2, <1>5 DEF Settled, Finished
  <2>2. Finishes(i, itemOk)
    BY <1>1, <1>2, <1>3, <1>5 DEF Finishes
  <2> QED BY <2>1, <2>2 DEF ResultStep
<1>6. CASE PollGather(i) \/ IssueScatter(i) \/ HarvestLoadOk(i)
  <2>1. UNCHANGED doneVars
    BY <1>6 DEF PollGather, IssueScatter, HarvestLoadOk
  <2>2. \/ \E x \in {"io", "scattered", "read_done"} : stage' = [stage EXCEPT ![i] = x]
        \/ stage' = stage
    BY <1>6 DEF PollGather, IssueScatter, HarvestLoadOk
  <2> QED BY <1>4, <2>1, <2>2 DEF HoldStages
<1>7. ASSUME NEW p \in {"harvest_store", "harvest_load"},
             HarvestRunning(p, i) \/ HarvestRetry(p, i) \/ HarvestGiveUp(p, i)
      PROVE  ResultStep
  <2>1. CASE HarvestRunning(p, i) \/ HarvestRetry(p, i)
    <3>1. stage' = stage /\ UNCHANGED doneVars
      BY <2>1 DEF HarvestRunning, HarvestRetry, itemVars
    <3> QED BY <1>4, <3>1
  <2>2. CASE HarvestGiveUp(p, i)
    <3>1. future[i] = "failed" /\ stage[i] = "io"
      BY <2>2, <1>7, VisitStage DEF HarvestGiveUp
    <3>2. Missed(i)'
      BY <1>0, <1>1, <3>1 DEF ItemFacts, Missed, IsStore, IsLoad
    <3>3. stage' = [stage EXCEPT ![i] = "done"] /\ PathDone(i, slot[i], FALSE)
      BY <2>2 DEF HarvestGiveUp
    <3> QED BY <1>5, <3>2, <3>3
  <2> QED BY <1>7, <2>1, <2>2
<1>8. CASE HarvestStoreOk(i)
  <2>1. IsStore(i) /\ future[i] = "ok"
    BY <1>8, VisitStage DEF HarvestStoreOk
  <2>2. Arrived(i)'
    BY <1>0, <1>1, <2>1 DEF ItemFacts, Arrived, IsStore
  <2>3. stage' = [stage EXCEPT ![i] = "done"] /\ PathDone(i, slot[i], TRUE)
    BY <1>8 DEF HarvestStoreOk
  <2> QED BY <1>5, <2>2, <2>3
<1>9. CASE RejectScatter(i) \/ PollScatter(i)
  <2>1. IsLoad(i) /\ stage[i] \in {"read_done", "scattered"}
    BY <1>9 DEF RejectScatter, PollScatter, Visit, LoopInv, PendingScatter
  <2>2. ok[i] = TRUE
    BY <1>0, <2>1 DEF ItemFacts
  <2>3. CASE RejectScatter(i)
    <3>1. stage' = [stage EXCEPT ![i] = "bad"] /\ PathDone(i, slot[i], TRUE)
      BY <2>2, <2>3 DEF RejectScatter
    <3>2. Arrived(i)'
      BY <1>0, <2>1, <3>1 DEF Arrived, IsStore, IsLoad
    <3> QED BY <1>5, <3>1, <3>2
  <2>4. CASE PollScatter(i) /\ Copied(i)
    <3>1. stage' = [stage EXCEPT ![i] = "done"] /\ PathDone(i, slot[i], TRUE)
      BY <2>2, <2>4 DEF PollScatter
    <3>2. Arrived(i)'
      BY <1>0, <1>1, <2>1, <2>4 DEF ItemFacts, Copied, Arrived, IsStore, IsLoad
    <3> QED BY <1>5, <3>1, <3>2
  <2>5. CASE PollScatter(i) /\ ~Copied(i)
    <3>1. stage' = stage /\ UNCHANGED doneVars
      BY <2>5 DEF PollScatter
    <3> QED BY <1>4, <3>1
  <2> QED BY <1>9, <2>3, <2>4, <2>5
<1> QED BY <1>6, <1>7, <1>8, <1>9 DEF HarvestStore, HarvestLoad

\* Every step of the worker is of one of the four kinds.
LEMMA ResultKind ==
  ASSUME Inv, ItemInv, [Next]_vars
  PROVE  ResultStep
<1> USE DEF Inv, SlotInv, TypeOK
<1>1. ASSUME UNCHANGED <<stage, chunk, kv, submitted, doneVars, returned>>
      PROVE  ResultStep
  BY <1>1 DEF ResultStep, Settled, Unreported, ReportVars, Finished, doneVars
<1>2. ASSUME NEW j \in StoreJobs, SubmitStore(j)
      PROVE  ResultStep
  <2>1. j \in Jobs /\ Submits(j)
    BY <1>2 DEF SubmitStore, Submits, Jobs, itemVars
  <2>2. Settled
    BY <1>2 DEF SubmitStore, Settled, itemVars, dataVars
  <2> QED BY <2>1, <2>2 DEF ResultStep
<1>3. ASSUME NEW j \in LoadJobs, SubmitLoad(j)
      PROVE  ResultStep
  <2>1. NumItems[j] # 0
    BY WorkerAssumption DEF Jobs
  <2>2. j \in Jobs /\ Submits(j)
    BY <1>3, <2>1 DEF SubmitLoad, Submits, Jobs, itemVars, doneVars
  <2>3. Settled
    BY <1>3 DEF SubmitLoad, Settled, itemVars, dataVars
  <2> QED BY <2>2, <2>3 DEF ResultStep
<1>4. CASE GetFinished \/ (\E js \in SUBSET Jobs : Wait(js)) \/ WaitPoll \/ LoaderLock
           \/ UNCHANGED vars
  BY <1>1, <1>4 DEF GetFinished, Wait, WaitPoll, LoaderLock, itemVars, dataVars, jobVars, vars
<1>5. CASE DispatchStoreEnd \/ PollGatherEnd \/ HarvestStoreEnd \/ DispatchLoadEnd \/ HarvestLoadEnd
  BY <1>1, <1>5 DEF DispatchStoreEnd, PollGatherEnd, HarvestStoreEnd, DispatchLoadEnd,
                    HarvestLoadEnd, itemVars, dataVars, jobVars
<1>6. CASE PumpEnd
  <2>1. Settled
    BY <1>6 DEF PumpEnd, Settled, itemVars, dataVars
  <2>2. CASE call = "get_finished"
    <3>1. Collects
      BY <1>6, <2>2 DEF PumpEnd, Collects, itemVars, jobVars
    <3> QED BY <2>1, <3>1 DEF ResultStep
  <2>3. CASE call # "get_finished"
    <3>1. Unreported
      BY <1>6, <2>3 DEF PumpEnd, Unreported, ReportVars, itemVars, jobVars, Finished
    <3> QED BY <2>1, <3>1 DEF ResultStep
  <2> QED BY <2>2, <2>3
<1>7. ASSUME NEW i \in Items, DeviceStep(i)
      PROVE  ResultStep
  <2>1. /\ UNCHANGED <<stage, submitted, doneVars, returned>>
        /\ \A k \in Items : k # i => chunk'[k] = chunk[k] /\ kv'[k] = kv[k]
    BY <1>7 DEF DeviceStep, GatherCopied, ScatterCopied, WriteSlot, ReadSlot, IoUnchanged, jobVars
  <2>2. ~Finished(i)
    BY <1>7 DEF DeviceStep, GatherCopied, ScatterCopied, WriteSlot, ReadSlot, AsyncOwned, Finished
  <2> QED BY <2>1, <2>2 DEF ResultStep, Settled, Unreported, ReportVars, Finished, doneVars
<1>8. CASE EngineStep
  BY <1>5, <1>6, <1>8, DispatchResult, LoopResult DEF EngineStep
<1>9. CASE LoaderStep
  BY <1>5, <1>9, DispatchResult, LoopResult DEF LoaderStep
<1> QED BY <1>2, <1>3, <1>4, <1>7, <1>8, <1>9 DEF Next

-----------------------------------------------------------------------------
(* Counts, verdicts and reports survive each kind of step. *)

\* A job has as many items as it has chunks, so the set of those that are
\* finished is finite, and full when it has that many.
LEMMA ItemsCounted ==
  ASSUME NEW j \in Jobs
  PROVE  /\ ItemsOf(j) \subseteq Items
         /\ \A i \in Items : i \in ItemsOf(j) <=> i[1] = j
         /\ IsFiniteSet(ItemsOf(j)) /\ Cardinality(ItemsOf(j)) = NumItems[j]
         /\ IsFiniteSet(FinishedOf(j)) /\ Cardinality(FinishedOf(j)) \in 0..NumItems[j]
         /\ AllDone(j) <=> Cardinality(FinishedOf(j)) = NumItems[j]
<1>1. NumItems[j] \in Nat
  BY WorkerAssumption
<1>2. ItemsOf(j) \subseteq Items
  BY DEF Items
<1>3. \A i \in Items : i \in ItemsOf(j) <=> i[1] = j
  BY ItemParts, <1>1 DEF Items, ItemsOf
<1>4. IsFiniteSet(ItemsOf(j)) /\ Cardinality(ItemsOf(j)) = NumItems[j]
  <2>1. IsFiniteSet({j}) /\ Cardinality({j}) = 1
    BY FS_Singleton
  <2>2. PICK n, b, N : n \in Nat /\ n = NumItems[j] /\ b = n - 1 /\ N = 0..b
    BY <1>1
  <2>3. IsFiniteSet(N) /\ Cardinality(N) = n
    <3>1. 0 \in Int /\ b \in Int
      BY <2>2
    <3>2. IsFiniteSet(0..b) /\ Cardinality(0..b) = IF 0 > b THEN 0 ELSE b - 0 + 1
      BY <3>1, FS_Interval
    <3> QED
      BY <2>2, <3>2
  <2>4. IsFiniteSet({j} \X N) /\ Cardinality({j} \X N) = Cardinality({j}) * Cardinality(N)
    BY <2>1, <2>3, FS_Product
  <2>5. ItemsOf(j) = {j} \X N
    BY <2>2 DEF ItemsOf
  <2> QED BY <2>1, <2>2, <2>3, <2>4, <2>5
<1>5. FinishedOf(j) \in SUBSET ItemsOf(j)
  BY DEF FinishedOf
<1>6. /\ IsFiniteSet(FinishedOf(j)) /\ Cardinality(FinishedOf(j)) <= NumItems[j]
      /\ Cardinality(FinishedOf(j)) = NumItems[j] => ItemsOf(j) = FinishedOf(j)
  BY <1>4, <1>5, FS_Subset
<1>7. Cardinality(FinishedOf(j)) \in Nat
  BY <1>6, FS_CardinalityType
<1>8. AllDone(j) <=> ItemsOf(j) = FinishedOf(j)
  BY DEF AllDone, FinishedOf
<1> QED BY <1>1, <1>2, <1>3, <1>4, <1>6, <1>7, <1>8

\* The items that finish in a step: one, or none.
LEMMA FinishedChange ==
  ASSUME Settled, NEW j \in Jobs
  PROVE  /\ (\A i \in Items : Finished(i)' => Finished(i))
              => FinishedOf(j)' = FinishedOf(j) /\ AllDone(j)' = AllDone(j)
         /\ \A i \in Items, x \in {"bad", "done"} :
              ~Finished(i) /\ stage \in [Items -> Stages] /\ stage' = [stage EXCEPT ![i] = x]
              => /\ i[1] = j => FinishedOf(j)' = FinishedOf(j) \cup {i}
                 /\ i[1] # j => FinishedOf(j)' = FinishedOf(j) /\ AllDone(j)' = AllDone(j)
         /\ \A i \in FinishedOf(j) :
              (Arrived(i)' <=> Arrived(i)) /\ (Missed(i)' <=> Missed(i))
<1>1. ItemsOf(j) \subseteq Items /\ \A i \in Items : i \in ItemsOf(j) <=> i[1] = j
  BY ItemsCounted
<1>2. ASSUME \A i \in Items : Finished(i)' => Finished(i)
      PROVE  FinishedOf(j)' = FinishedOf(j) /\ AllDone(j)' = AllDone(j)
  <2>1. \A i \in Items : Finished(i)' <=> Finished(i)
    BY <1>2 DEF Settled, Finished
  <2>2. FinishedOf(j)' = FinishedOf(j)
    BY <1>1, <2>1 DEF FinishedOf
  <2>3. AllDone(j)' = AllDone(j)
    BY <1>1, <2>1 DEF AllDone
  <2> QED BY <2>2, <2>3
<1>3. ASSUME NEW i \in Items, NEW x \in {"bad", "done"},
             ~Finished(i), stage \in [Items -> Stages], stage' = [stage EXCEPT ![i] = x]
      PROVE  /\ i[1] = j => FinishedOf(j)' = FinishedOf(j) \cup {i}
             /\ i[1] # j => FinishedOf(j)' = FinishedOf(j) /\ AllDone(j)' = AllDone(j)
  <2>1. \A k \in Items : Finished(k)' <=> Finished(k) \/ k = i
    BY <1>3 DEF Finished
  <2>2. i[1] = j => FinishedOf(j)' = FinishedOf(j) \cup {i}
    BY <1>1, <2>1 DEF FinishedOf
  <2>3. i[1] # j => FinishedOf(j)' = FinishedOf(j)
    BY <1>1, <2>1 DEF FinishedOf
  <2>4. i[1] # j => AllDone(j)' = AllDone(j)
    BY <1>1, <2>1 DEF AllDone
  <2> QED BY <2>2, <2>3, <2>4
<1>4. \A i \in FinishedOf(j) : (Arrived(i)' <=> Arrived(i)) /\ (Missed(i)' <=> Missed(i))
  BY <1>1 DEF Settled, FinishedOf, Arrived, Missed, IsStore
<1> QED BY <1>2, <1>3, <1>4

\* A finished item is counted once, with its job.
LEMMA CountKept ==
  ASSUME TypeOK, CountInv, ResultStep
  PROVE  CountInv'
<1> SUFFICES ASSUME NEW j \in Jobs
             PROVE  doneCount'[j] = Cardinality(FinishedOf(j)')
  BY DEF CountInv
<1>1. Settled /\ doneCount[j] = Cardinality(FinishedOf(j))
  BY DEF ResultStep, CountInv
<1>2. IsFiniteSet(FinishedOf(j))
  BY ItemsCounted
<1>3. CASE Unreported \/ Collects \/ \E l \in Jobs : Submits(l)
  <2>1. doneCount' = doneCount /\ \A i \in Items : Finished(i)' => Finished(i)
    BY <1>3 DEF Unreported, ReportVars, Collects, Submits, Finished
  <2> QED BY <1>1, <2>1, FinishedChange
<1>4. ASSUME NEW i \in Items, NEW itemOk \in BOOLEAN, Finishes(i, itemOk)
      PROVE  doneCount'[j] = Cardinality(FinishedOf(j)')
  <2>1. doneCount' = [doneCount EXCEPT ![i[1]] = @ + 1]
    BY <1>4 DEF Finishes, PathDone
  <2>2. /\ i[1] = j => FinishedOf(j)' = FinishedOf(j) \cup {i}
        /\ i[1] # j => FinishedOf(j)' = FinishedOf(j)
    BY <1>1, <1>4, FinishedChange DEF Finishes, TypeOK
  <2>3. i \notin FinishedOf(j)
    BY <1>4 DEF Finishes, FinishedOf
  <2>4. Cardinality(FinishedOf(j) \cup {i}) = Cardinality(FinishedOf(j)) + 1
    BY <1>2, <2>3, FS_AddElement
  <2>5. doneCount'[j] = IF i[1] = j THEN doneCount[j] + 1 ELSE doneCount[j]
    BY <2>1 DEF TypeOK
  <2> QED BY <1>1, <2>2, <2>4, <2>5
<1> QED BY <1>3, <1>4 DEF ResultStep

\* ok_all is true as long as every finished item arrived, and once it is false
\* an item that did not stays what it is.
LEMMA VerdictKept ==
  ASSUME TypeOK, VerdictInv, ResultStep
  PROVE  VerdictInv'
<1> SUFFICES ASSUME NEW j \in Jobs
             PROVE  IF okAll'[j] THEN \A i \in FinishedOf(j)' : Arrived(i)'
                                 ELSE \E i \in FinishedOf(j)' : Missed(i)'
  BY DEF VerdictInv
<1>1. /\ Settled
      /\ IF okAll[j] THEN \A i \in FinishedOf(j) : Arrived(i)
                     ELSE \E i \in FinishedOf(j) : Missed(i)
      /\ \A i \in FinishedOf(j) : (Arrived(i)' <=> Arrived(i)) /\ (Missed(i)' <=> Missed(i))
  BY FinishedChange DEF ResultStep, VerdictInv
<1>2. CASE Unreported \/ Collects \/ \E l \in Jobs : Submits(l)
  <2>1. okAll' = okAll /\ \A i \in Items : Finished(i)' => Finished(i)
    BY <1>2 DEF Unreported, ReportVars, Collects, Submits, Finished
  <2>2. FinishedOf(j)' = FinishedOf(j)
    BY <1>1, <2>1, FinishedChange
  <2> QED BY <1>1, <2>1, <2>2
<1>3. ASSUME NEW i \in Items, NEW itemOk \in BOOLEAN, Finishes(i, itemOk)
      PROVE  IF okAll'[j] THEN \A k \in FinishedOf(j)' : Arrived(k)'
                          ELSE \E k \in FinishedOf(j)' : Missed(k)'
  <2>1. okAll' = [okAll EXCEPT ![i[1]] = okAll[i[1]] /\ itemOk]
    BY <1>3 DEF Finishes, PathDone, OkSoFar
  <2>2. /\ i[1] = j => FinishedOf(j)' = FinishedOf(j) \cup {i}
        /\ i[1] # j => FinishedOf(j)' = FinishedOf(j)
    BY <1>1, <1>3, FinishedChange DEF Finishes, TypeOK
  <2>3. IF itemOk THEN Arrived(i)' ELSE Missed(i)'
    BY <1>3 DEF Finishes
  <2>4. CASE i[1] = j
    <3>1. okAll'[j] = (okAll[j] /\ itemOk)
      BY <2>1, <2>4 DEF TypeOK
    <3> QED BY <1>1, <2>2, <2>3, <2>4, <3>1
  <2>5. CASE i[1] # j
    <3>1. okAll'[j] = okAll[j]
      BY <2>1, <2>5 DEF TypeOK
    <3> QED BY <1>1, <2>2, <2>5, <3>1
  <2> QED BY <2>4, <2>5
<1> QED BY <1>2, <1>3 DEF ResultStep

\* The results so far as one sequence: what a step appends, and what get_finished
\* moves from one part to the other.
LEMMA ReportedSeq ==
  ASSUME TypeOK
  PROVE  /\ Reported \in Seq(Result)
         /\ UNCHANGED <<results, returned>> => Reported' = Reported
         /\ Collects => Reported' = Reported
         /\ \A r \in Result : results' = Append(results, r) /\ returned' = returned =>
              /\ Len(Reported)' = Len(Reported) + 1
              /\ Reported'[Len(Reported) + 1] = r
              /\ \A n \in 1..Len(Reported) : Reported'[n] = Reported[n]
<1>1. results \in Seq(Result) /\ returned \in Seq(Result) /\ Reported \in Seq(Result)
  BY ConcatProperties DEF TypeOK, Reported
<1>2. UNCHANGED <<results, returned>> => Reported' = Reported
  BY DEF Reported
<1>3. Collects => Reported' = Reported
  BY <1>1, ConcatEmptySeq DEF Collects, Reported
<1>4. ASSUME NEW r \in Result, results' = Append(results, r), returned' = returned
      PROVE  /\ Len(Reported)' = Len(Reported) + 1
             /\ Reported'[Len(Reported) + 1] = r
             /\ \A n \in 1..Len(Reported) : Reported'[n] = Reported[n]
  BY <1>1, <1>4 DEF Reported
<1> QED BY <1>1, <1>2, <1>3, <1>4

\* A job that has no result yet gets its one result.
LEMMA ReportOne ==
  ASSUME TypeOK, ReportInv, NEW j \in Jobs, NEW success \in BOOLEAN,
         results' = Append(results, [job |-> j, success |-> success]), returned' = returned,
         submitted' = submitted \cup {j},
         \A n \in 1..Len(Reported) : Reported[n].job # j,
         AllDone(j)', success = okAll'[j],
         \A l \in Jobs \ {j} : AllDone(l)' = AllDone(l) /\ okAll'[l] = okAll[l]
  PROVE  ReportInv'
<1> DEFINE r == [job |-> j, success |-> success]
           N == Len(Reported)
<1>1. r \in Result /\ r.job = j /\ r.success = success
  BY DEF Result
<1>2. /\ N \in Nat /\ Len(Reported)' = N + 1
      /\ Reported'[N + 1] = r
      /\ \A n \in 1..N : Reported'[n] = Reported[n] /\ Reported[n] \in Result
  BY <1>1, ReportedSeq
<1> HIDE DEF r, N
<1>3. \A n \in 1..N : Reported[n].job \in Jobs \ {j}
  BY <1>2 DEF Result, N
<1>4. /\ \A m, n \in 1..N : Reported[m].job = Reported[n].job => m = n
      /\ \A n \in 1..N, l \in Jobs :
           Reported[n].job = l => l \in submitted /\ AllDone(l) /\ Reported[n].success = okAll[l]
      /\ \A l \in submitted : AllDone(l) => \E n \in 1..N : Reported[n].job = l
  BY DEF ReportInv, N
<1>5. \A m, n \in 1..(N + 1) : Reported'[m].job = Reported'[n].job => m = n
  <2> SUFFICES ASSUME NEW m \in 1..(N + 1), NEW n \in 1..(N + 1),
                      Reported'[m].job = Reported'[n].job
               PROVE  m = n
    OBVIOUS
  <2>1. CASE m = N + 1 /\ n # N + 1
    BY <1>1, <1>2, <1>3, <2>1
  <2>2. CASE m # N + 1 /\ n = N + 1
    BY <1>1, <1>2, <1>3, <2>2
  <2>3. CASE m # N + 1 /\ n # N + 1
    BY <1>2, <1>4, <2>3
  <2> QED BY <2>1, <2>2, <2>3
<1>6. ASSUME NEW n \in 1..(N + 1), NEW l \in Jobs, Reported'[n].job = l
      PROVE  l \in submitted' /\ AllDone(l)' /\ Reported'[n].success = okAll'[l]
  <2>1. CASE n = N + 1
    BY <1>1, <1>2, <1>6, <2>1
  <2>2. CASE n # N + 1
    <3>1. n \in 1..N /\ Reported[n].job = l /\ l # j
      BY <1>2, <1>3, <1>6, <2>2
    <3> QED BY <1>2, <1>4, <3>1
  <2> QED BY <2>1, <2>2
<1>7. ASSUME NEW l \in submitted', AllDone(l)'
      PROVE  \E n \in 1..(N + 1) : Reported'[n].job = l
  <2>1. CASE l = j
    BY <1>1, <1>2, <2>1
  <2>2. CASE l # j
    <3>1. l \in submitted /\ l \in Jobs \ {j}
      BY <1>7, <2>2 DEF TypeOK
    <3>2. AllDone(l)
      BY <1>7, <3>1
    <3>3. PICK n \in 1..N : Reported[n].job = l
      BY <1>4, <3>1, <3>2
    <3> QED BY <1>2, <3>3
  <2> QED BY <2>1, <2>2
<1> QED BY <1>2, <1>5, <1>6, <1>7 DEF ReportInv

\* No result is added while no job becomes complete.
LEMMA ReportNone ==
  ASSUME TypeOK, ReportInv, Reported' = Reported,
         submitted \subseteq submitted', submitted' \subseteq Jobs,
         \A l \in submitted' \ submitted : ~AllDone(l)',
         \A l \in submitted : AllDone(l)' = AllDone(l),
         \A l \in submitted : AllDone(l) => okAll'[l] = okAll[l]
  PROVE  ReportInv'
BY DEF ReportInv

\* A submitted job gets a result at once if it has no items, and otherwise none:
\* its items are all new.
LEMMA SubmitReport ==
  ASSUME Inv, ResultsInv, Settled, NEW j \in Jobs, Submits(j)
  PROVE  ReportInv'
<1> USE DEF Inv, SlotInv, ResultsInv
<1>1. /\ submitted' = submitted \cup {j} /\ j \notin submitted
      /\ okAll' = okAll /\ returned' = returned
      /\ \A i \in Items : Finished(i)' => Finished(i)
  BY DEF Submits, Finished
<1>2. \A l \in Jobs : AllDone(l)' = AllDone(l)
  BY <1>1, FinishedChange
<1>3. \A n \in 1..Len(Reported) : Reported[n].job # j
  BY <1>1 DEF ReportInv
<1>4. CASE NumItems[j] = 0
  <2>1. FinishedOf(j) = {} /\ AllDone(j)
    <3>1. Cardinality(FinishedOf(j)) = 0 /\ IsFiniteSet(FinishedOf(j))
      BY <1>4, ItemsCounted
    <3> QED BY <1>4, <3>1, ItemsCounted, FS_EmptySet
  <2>2. okAll[j] = TRUE
    BY <2>1 DEF VerdictInv, TypeOK
  <2>3. results' = Append(results, [job |-> j, success |-> TRUE])
    BY <1>4 DEF Submits
  <2> QED BY <1>1, <1>2, <1>3, <2>1, <2>2, <2>3, ReportOne
<1>5. CASE NumItems[j] # 0
  <2>1. Reported' = Reported
    BY <1>5, ReportedSeq DEF Submits
  <2>2. ~AllDone(j)
    <3>1. nextPath[j] = 0 /\ NumItems[j] \in Nat
      BY <1>1, WorkerAssumption DEF QueueInv
    <3>2. <<j, 0>> \in ItemsOf(j) /\ <<j, 0>> \in Items
      BY <1>5, <3>1, ItemParts DEF ItemsOf
    <3>3. stage[<<j, 0>>] = "new"
      BY <3>1, <3>2 DEF FrontInv
    <3> QED BY <3>2, <3>3 DEF AllDone, Finished
  <2>3. submitted \subseteq Jobs
    BY DEF TypeOK
  <2> QED BY <1>1, <1>2, <2>1, <2>2, <2>3, ReportNone
<1> QED BY <1>4, <1>5

\* With the last item of a job, and only then, comes its result.
LEMMA FinishReport ==
  ASSUME Inv, ResultsInv, Settled, NEW i \in Items, NEW itemOk \in BOOLEAN, Finishes(i, itemOk)
  PROVE  ReportInv'
<1> USE DEF Inv, SlotInv, ResultsInv
<1>1. PICK j \in Jobs : j = i[1]
  BY ItemParts
<1>2. /\ submitted' = submitted /\ j \in submitted /\ returned' = returned
      /\ ~Finished(i) /\ \E x \in {"bad", "done"} : stage' = [stage EXCEPT ![i] = x]
  BY <1>1 DEF Finishes
<1>3. \E s : PathDone(i, s, itemOk)
  BY DEF Finishes
<1>4. /\ okAll' = [okAll EXCEPT ![j] = okAll[j] /\ itemOk]
      /\ IF LastItem(j)
         THEN results' = Append(results, [job |-> j, success |-> okAll[j] /\ itemOk])
         ELSE results' = results
  BY <1>1, <1>3 DEF PathDone, OkSoFar
<1>5. (okAll[j] /\ itemOk) \in BOOLEAN /\ okAll'[j] = (okAll[j] /\ itemOk)
  BY <1>4 DEF TypeOK
<1>6. i \in ItemsOf(j)
  BY <1>1, ItemsCounted
<1>7. ~AllDone(j)
  BY <1>2, <1>6 DEF AllDone
<1>8. \A l \in Jobs \ {j} : AllDone(l)' = AllDone(l) /\ okAll'[l] = okAll[l]
  BY <1>1, <1>2, <1>4, FinishedChange DEF TypeOK
<1>9. LastItem(j) <=> AllDone(j)'
  <2>1. FinishedOf(j)' = FinishedOf(j) \cup {i} /\ i \notin FinishedOf(j)
    BY <1>1, <1>2, FinishedChange DEF TypeOK, FinishedOf
  <2>2. /\ IsFiniteSet(FinishedOf(j)) /\ Cardinality(FinishedOf(j)) \in Nat
        /\ Cardinality(FinishedOf(j)) = doneCount[j] /\ NumItems[j] \in Nat
    BY ItemsCounted, WorkerAssumption DEF CountInv
  <2>3. Cardinality(FinishedOf(j)') = doneCount[j] + 1
    BY <2>1, <2>2, FS_AddElement
  <2>4. /\ FinishedOf(j)' \in SUBSET ItemsOf(j)
        /\ AllDone(j)' <=> ItemsOf(j) = FinishedOf(j)'
    BY DEF FinishedOf, AllDone
  <2>5. IsFiniteSet(ItemsOf(j)) /\ Cardinality(ItemsOf(j)) = NumItems[j]
    BY ItemsCounted
  <2>6. /\ Cardinality(FinishedOf(j)') <= NumItems[j]
        /\ AllDone(j)' <=> Cardinality(FinishedOf(j)') = NumItems[j]
    BY <2>4, <2>5, FS_Subset
  <2> QED BY <2>2, <2>3, <2>6 DEF LastItem
<1>10. \A n \in 1..Len(Reported) : Reported[n].job # j
  BY <1>7 DEF ReportInv
<1>11. CASE LastItem(j)
  BY <1>2, <1>4, <1>5, <1>8, <1>9, <1>10, <1>11, ReportOne
<1>12. CASE ~LastItem(j)
  <2>1. Reported' = Reported
    BY <1>2, <1>4, <1>12, ReportedSeq
  <2>2. submitted \subseteq Jobs
    BY DEF TypeOK
  <2>3. AllDone(j)' = AllDone(j)
    BY <1>7, <1>9, <1>12 DEF AllDone
  <2> QED BY <1>2, <1>7, <1>8, <2>1, <2>2, <2>3, ReportNone
<1> QED BY <1>11, <1>12

\* Every step keeps the results in order.
LEMMA ReportKept ==
  ASSUME Inv, ResultsInv, ResultStep
  PROVE  ReportInv'
<1> USE DEF Inv, SlotInv, ResultsInv
<1>1. Settled
  BY DEF ResultStep
<1>2. CASE Unreported \/ Collects
  <2>1. /\ submitted' = submitted /\ okAll' = okAll /\ Reported' = Reported
        /\ \A i \in Items : Finished(i)' => Finished(i)
    BY <1>2, ReportedSeq DEF Unreported, ReportVars, Collects, Finished
  <2>2. submitted \subseteq Jobs
    BY DEF TypeOK
  <2>3. \A l \in Jobs : AllDone(l)' = AllDone(l)
    BY <1>1, <2>1, FinishedChange
  <2> QED BY <2>1, <2>2, <2>3, ReportNone
<1> QED BY <1>1, <1>2, SubmitReport, FinishReport DEF ResultStep

\* No job has an item that is finished, or a result, when the worker starts.
LEMMA ResultsInit == Init => ResultsInv
<1> SUFFICES ASSUME Init
             PROVE  ResultsInv
  OBVIOUS
<1>1. ItemInv
  BY DEF Init, ItemInv, ItemFacts
<1>2. \A j \in Jobs : FinishedOf(j) = {}
  BY ItemsCounted DEF Init, FinishedOf, Finished
<1>3. CountInv /\ VerdictInv
  BY <1>2, FS_EmptySet DEF Init, CountInv, VerdictInv
<1>4. ReportInv
  BY DEF Init, ReportInv, Reported
<1> QED BY <1>1, <1>3, <1>4 DEF ResultsInv

\* The invariant of the results holds in every state of the worker.
THEOREM ResultsInvariance == Spec => [](Inv /\ ResultsInv)
<1>1. Init => ResultsInv
  BY ResultsInit
<1>2. Inv /\ ResultsInv /\ [Next]_vars => ResultsInv'
  <2> SUFFICES ASSUME Inv, ResultsInv, [Next]_vars
               PROVE  ResultsInv'
    OBVIOUS
  <2>1. ItemInv' /\ ResultStep
    BY ItemKept, ResultKind DEF ResultsInv
  <2>2. CountInv' /\ VerdictInv'
    BY <2>1, CountKept, VerdictKept DEF ResultsInv, Inv, SlotInv
  <2>3. ReportInv'
    BY <2>1, ReportKept
  <2> QED BY <2>1, <2>2, <2>3 DEF ResultsInv
<1> QED BY <1>1, <1>2, Invariance, PTL DEF Spec

-----------------------------------------------------------------------------
(* The properties of GdsOffloadingWorker about its results. *)

\* A job has exactly one TransferResult, from the moment its last path is done:
\* _path_done counts the paths of a job right in every branch of the pumps.
THEOREM ResultUnique == Spec => []OneResultPerJob
<1>1. Inv /\ ResultsInv => OneResultPerJob
  <2> SUFFICES ASSUME Inv, ResultsInv, NEW j \in Jobs
               PROVE  Cardinality(ResultsOf(j)) = IF j \in submitted /\ AllDone(j) THEN 1 ELSE 0
    BY DEF OneResultPerJob, AllDone
  <2>1. /\ ResultsOf(j) = {n \in 1..Len(Reported) : Reported[n].job = j}
        /\ \A m, n \in 1..Len(Reported) : Reported[m].job = Reported[n].job => m = n
        /\ \A n \in 1..Len(Reported) : Reported[n].job = j => j \in submitted /\ AllDone(j)
        /\ j \in submitted /\ AllDone(j) => \E n \in 1..Len(Reported) : Reported[n].job = j
    BY DEF ResultsInv, ReportInv, ResultsOf, Reported
  <2>2. CASE j \in submitted /\ AllDone(j)
    <3>1. PICK n \in 1..Len(Reported) : Reported[n].job = j
      BY <2>1, <2>2
    <3>2. ResultsOf(j) = {n}
      BY <2>1, <3>1
    <3> QED BY <2>2, <3>2, FS_Singleton
  <2>3. CASE ~(j \in submitted /\ AllDone(j))
    <3>1. ResultsOf(j) = {}
      BY <2>1, <2>3
    <3> QED BY <2>3, <3>1, FS_EmptySet
  <2> QED BY <2>2, <2>3
<1> QED BY <1>1, ResultsInvariance, PTL

\* A result so far belongs to a job all of whose items are finished, and its
\* success is the job's verdict.
LEMMA ReportedVerdict ==
  ASSUME Inv, ResultsInv, NEW n \in 1..Len(returned \o results)
  PROVE  LET r == (returned \o results)[n] IN
         /\ r.success \in BOOLEAN
         /\ IF r.success THEN \A i \in ItemsOf(r.job) : Arrived(i)
                         ELSE \E i \in ItemsOf(r.job) : Missed(i)
<1> DEFINE r == Reported[n]
<1>1. Reported \in Seq(Result) /\ n \in 1..Len(Reported)
  BY ReportedSeq DEF Inv, SlotInv, Reported
<1>2. r \in Result
  BY <1>1
<1>3. PICK j \in Jobs : r.job = j
  BY <1>2 DEF Result
<1>4. r.success \in BOOLEAN /\ AllDone(j) /\ r.success = okAll[j]
  BY <1>1, <1>2, <1>3 DEF Result, ResultsInv, ReportInv
<1>5. FinishedOf(j) = ItemsOf(j)
  BY <1>4 DEF AllDone, FinishedOf
<1>6. IF okAll[j] THEN \A i \in ItemsOf(j) : Arrived(i) ELSE \E i \in ItemsOf(j) : Missed(i)
  BY <1>5 DEF ResultsInv, VerdictInv
<1> QED BY <1>3, <1>4, <1>6 DEF Reported

\* success=True is only reported when every chunk of a store is on disk, or every
\* chunk of a load that was not refused is in the GPU blocks.
THEOREM SuccessTrue == Spec => []SuccessIsTrue
<1>1. Inv /\ ResultsInv => SuccessIsTrue
  BY ReportedVerdict DEF SuccessIsTrue, Arrived
<1> QED BY <1>1, ResultsInvariance, PTL

\* success=False is only reported for a job one of whose chunks did not arrive.
THEOREM FailureTrue == Spec => []FailureIsTrue
<1>1. Inv /\ ResultsInv => FailureIsTrue
  BY ReportedVerdict DEF FailureIsTrue, Missed
<1> QED BY <1>1, ResultsInvariance, PTL

-----------------------------------------------------------------------------
(* The worker implements TransferService: its results are the service's       *)
(* finished, what get_finished has handed out the service's returned.         *)

\* A job is in the service's sequences exactly if it is reported.
LEMMA ReportedJobs ==
  ASSUME TypeOK, NEW j,
         \A n \in 1..Len(Reported) : Reported[n].job # j
  PROVE  j \notin Service!JobsIn(results) \cup Service!JobsIn(returned)
<1>1. results \in Seq(Result) /\ returned \in Seq(Result)
  BY DEF TypeOK
<1>2. \A n \in 1..Len(returned) : n \in 1..Len(Reported) /\ Reported[n] = returned[n]
  BY <1>1 DEF Reported
<1>3. \A n \in 1..Len(results) :
        /\ Len(returned) + n \in 1..Len(Reported)
        /\ Reported[Len(returned) + n] = results[n]
  BY <1>1 DEF Reported
<1> QED BY <1>2, <1>3 DEF Service!JobsIn

\* A step of the worker is a step of the service or changes nothing of it.
LEMMA ServiceStep ==
  ASSUME Inv, ResultsInv, ResultStep
  PROVE  [Service!TNext]_(Service!tvars)
<1> USE DEF Inv, SlotInv, ResultsInv
<1>1. CASE Unreported
  BY <1>1 DEF Unreported, ReportVars, Service!tvars
<1>2. CASE Collects
  <2>1. CASE results = <<>>
    <3>1. returned \o results = returned
      BY <2>1, ConcatEmptySeq DEF TypeOK
    <3> QED BY <1>2, <2>1, <3>1 DEF Collects, Service!tvars
  <2>2. CASE results # <<>>
    BY <1>2, <2>2 DEF Collects, Service!TNext, Service!TCollect
  <2> QED BY <2>1, <2>2
<1>3. ASSUME NEW j \in Jobs, Submits(j)
      PROVE  [Service!TNext]_(Service!tvars)
  <2>1. Service!TSubmit(j)
    BY <1>3 DEF Submits, Service!TSubmit
  <2> QED BY <2>1 DEF Service!TNext
<1>4. ASSUME NEW i \in Items, NEW itemOk \in BOOLEAN, Finishes(i, itemOk)
      PROVE  [Service!TNext]_(Service!tvars)
  <2>1. PICK j \in Jobs : j = i[1]
    BY ItemParts
  <2>2. PICK success \in BOOLEAN : success = (okAll[j] /\ itemOk)
    OBVIOUS
  <2>3. /\ submitted' = submitted /\ j \in submitted /\ returned' = returned
        /\ \/ results' = Append(results, [job |-> j, success |-> success])
           \/ results' = results
    BY <1>4, <2>1, <2>2 DEF Finishes, PathDone, OkSoFar
  <2>4. ~AllDone(j)
    BY <1>4, <2>1, ItemsCounted DEF Finishes, AllDone
  <2>5. j \notin Service!JobsIn(results) \cup Service!JobsIn(returned)
    BY <2>4, ReportedJobs DEF ReportInv
  <2>6. CASE results' = Append(results, [job |-> j, success |-> success])
    <3>1. Service!TFinish(j, success)
      BY <2>3, <2>5, <2>6 DEF Service!TFinish
    <3> QED BY <3>1 DEF Service!TNext
  <2>7. CASE results' = results
    BY <2>3, <2>7 DEF Service!tvars
  <2> QED BY <2>3, <2>6, <2>7
<1> QED BY <1>1, <1>2, <1>3, <1>4 DEF ResultStep

\* The worker implements the safety part of TransferService: a job is submitted
\* once, gets a result once and is handed out once, in the order of the results.
THEOREM ServiceImplemented == Spec => Service!TInit /\ [][Service!TNext]_(Service!tvars)
<1>1. Init => Service!TInit
  BY DEF Init, Service!TInit
<1>2. Inv /\ ResultsInv /\ [Next]_vars => [Service!TNext]_(Service!tvars)
  BY ResultKind, ServiceStep DEF ResultsInv
<1> QED BY <1>1, <1>2, ResultsInvariance, PTL DEF Spec
=============================================================================
