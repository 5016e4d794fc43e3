--------------------------- MODULE TransferService ---------------------------
(***************************************************************************)
(* What vLLM's offloading connector relies on from an OffloadingWorker: a  *)
(* transfer job is submitted once, finishes once, and get_finished hands   *)
(* its TransferResult out exactly once.  GdsOffloadingWorker is shown to   *)
(* implement this module.                                                  *)
(***************************************************************************)
EXTENDS Naturals, Sequences

CONSTANT Jobs

VARIABLES
  submitted,  \* jobs given to submit_store / submit_load
  finished,   \* results waiting for get_finished, oldest first
  returned    \* results get_finished has handed out, oldest first

tvars == <<submitted, finished, returned>>

Result == [job : Jobs, success : BOOLEAN]

\* The jobs that have a result in sequence s.
JobsIn(s) == {s[n].job : n \in 1..Len(s)}

TInit ==
  /\ submitted = {}
  /\ finished = <<>>
  /\ returned = <<>>

\* A job without chunk files finishes as it is submitted.
TSubmit(j) ==
  /\ j \notin submitted
  /\ submitted' = submitted \cup {j}
  /\ finished' \in {finished, Append(finished, [job |-> j, success |-> TRUE])}
  /\ UNCHANGED returned

TFinish(j, ok) ==
  /\ j \in submitted \ (JobsIn(finished) \cup JobsIn(returned))
  /\ finished' = Append(finished, [job |-> j, success |-> ok])
  /\ UNCHANGED <<submitted, returned>>

TCollect ==
  /\ finished # <<>>
  /\ returned' = returned \o finished
  /\ finished' = <<>>
  /\ UNCHANGED submitted

TNext ==
  \/ \E j \in Jobs : TSubmit(j)
  \/ \E j \in Jobs, ok \in BOOLEAN : TFinish(j, ok)
  \/ TCollect

TFairness ==
  /\ \A j \in Jobs : WF_tvars(\E ok \in BOOLEAN : TFinish(j, ok))
  /\ WF_tvars(TCollect)

TSpec == TInit /\ [][TNext]_tvars /\ TFairness
=============================================================================
