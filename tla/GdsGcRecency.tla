---------------------------- MODULE GdsGcRecency -----------------------------
(***************************************************************************)
(* GdsGcManager with a history of when chunks were last used, to ask of    *)
(* its sweeps what an LRU budget promises.  A chunk is used by a transfer  *)
(* that writes or reads its file, and by touch(), which the manager calls  *)
(* for the chunks of a request that hits.                                  *)
(*                                                                         *)
(* The history changes nothing: every step is one of GdsGcManager, or a    *)
(* touch(), which does nothing there.                                      *)
(***************************************************************************)
EXTENDS GdsGcManager, SequencesExt

VARIABLES
  recency,  \* the chunks used so far, the one used last at the end
  listed    \* recency when the walk of the sweep started

historyVars == <<recency, listed>>

UsedAt(p) == recency' = Append(Remove(recency, p), p)

\* On an empty tree: nothing is known of the uses of files of earlier runs.
RecencyInit ==
  /\ Init /\ (\A p \in Paths : ~Exists(p))
  /\ recency = <<>> /\ listed = <<>>

\* A file that is unlinked takes its history with it.
Forgotten == recency' = SelectSeq(recency, LAMBDA p : ~Exists(p) \/ Exists(p)')

\* A write or a read of the chunk ends well.
Used(j) ==
  /\ WriteChunk(j) \/ ReadChunk(j)
  /\ UsedAt(job[j].path)
  /\ UNCHANGED listed

\* GdsGcManager.touch: pass
Touch(p) == UNCHANGED vars

Touched(p) ==
  /\ Exists(p) /\ Touch(p)
  /\ UsedAt(p)
  /\ UNCHANGED listed

Listing == SweepStarts /\ listed' = recency /\ UNCHANGED recency

Others ==
  /\ \/ \E j \in Jobs, kind \in {"store", "load"}, p \in Paths : StartJob(j, kind, p)
     \/ \E j \in Jobs : FailChunk(j) \/ CompleteJob(j)
     \/ \E p \in Paths : WalkVisits(p)
     \/ Age \/ WalkUnderCap \/ WalkOverCap \/ SweepSkips \/ SweepUnlinks \/ SweepEnds
     \/ Shutdown \/ Restart
  /\ Forgotten
  /\ UNCHANGED listed

RecencyNext ==
  \/ \E j \in Jobs : Used(j)
  \/ \E p \in Paths : Touched(p)
  \/ Listing
  \/ Others

RecencySpec == RecencyInit /\ [][RecencyNext]_<<vars, historyVars>>

-----------------------------------------------------------------------------

\* When the walk started, the last use of q was before that of p.
UsedBefore(q, p) == \E m, n \in DOMAIN listed : m < n /\ listed[m] = q /\ listed[n] = p

\* "LRU on-disk budget manager", with a touch() to tell it of uses: no chunk is
\* removed while one that was used less recently stays, that the sweep found
\* and may remove too.
LeastRecentlyUsedFirst ==
  [][\A p, q \in Paths :
       Unlinked(p) /\ AsWalked(p) /\ AsWalked(q) /\ UsedBefore(q, p)
         => Spared(q)]_<<vars, historyVars>>
=============================================================================
