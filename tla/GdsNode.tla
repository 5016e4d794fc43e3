-------------------------------- MODULE GdsNode --------------------------------
(***************************************************************************)
(* One node of the cluster between two starts of its engine: the scripts   *)
(* of gds_direct_v1 that patch the installed vLLM (run.sh, patch_*.py),    *)
(* the root directory on its disk, and what a starting engine makes of     *)
(* both.  GdsDirectOffloadingSpec builds a FileMapper for the manager, on  *)
(* the head node, and one for the worker; get_gc keeps the GC of whichever *)
(* comes first, and GdsGcManager.__init__ has to guess the tree to sweep:  *)
(* chunks go to the path the scheduler broadcasts, whose fingerprint only  *)
(* the manager's FileMapper has.                                           *)
(*                                                                         *)
(* Operators act in any order, stop a script halfway and repeat it.        *)
(*                                                                         *)
(* A definition named Mut... is a plausible bug in the definition after    *)
(* it; TLC finds a property violated once it takes that one's place.       *)
(***************************************************************************)
EXTENDS Naturals, SequencesExt, Functions, Lists

CONSTANTS
  Models,  \* models the cluster may be started with
  None

ASSUME NodeAssumption == Models # {}

\* Trees of chunk files by the fingerprint in their name; the worker's is never
\* written.
Tree(m) == <<"scheduler", m>>
WorkerTree(m) == <<"worker", m>>

VARIABLES
  headless,   \* the node runs workers only
  model,      \* the model to start with
  root,       \* the root directory exists
  trees,      \* models with a tree in it, by mtime of its directory, newest first
  package,    \* pkg/gds is installed in the container
  worker,     \* patches in offloading/worker.py
  connector,  \* offloading_connector.py forwards load errors
  config,     \* kv-transfer-config of the start script: what it has of GDS
  patching,   \* the part patch_load_failure_report.py comes to next
  engine      \* None, or what the running engine has loaded and sweeps

disk == <<root, trees>>
install == <<package, worker, connector, config, patching>>
vars == <<headless, model, disk, install, engine>>

Init ==
  /\ headless \in BOOLEAN /\ model \in Models
  /\ root = FALSE /\ trees = <<>>
  /\ package = FALSE /\ worker = {} /\ connector = FALSE
  /\ config = {} /\ patching = "worker"
  /\ engine = None

-----------------------------------------------------------------------------
(* Deployment.  Every script may be run again, on a running engine, too: it *)
(* has loaded its modules already.                                         *)

\* run.sh, or by hand: docker cp, then the patch of the assertion.  run.sh checks
\* that the package can be imported and leaves the other patches out.
InstallPackage ==
  /\ package' = TRUE
  /\ UNCHANGED <<headless, model, disk, worker, connector, config, patching, engine>>

PatchAssert ==
  /\ worker' = worker \cup {"degrade"}
  /\ UNCHANGED <<headless, model, disk, package, connector, config, patching, engine>>

MutNextPart(part) == TRUE

\* patch_load_failure_report.py edits three files one after the other.
NextPart(part) == patching = part

ReportWorker ==
  /\ NextPart("worker")
  /\ worker' = worker \cup {"report"}
  /\ patching' = "connector"
  /\ UNCHANGED <<headless, model, disk, package, connector, config, engine>>

ReportConnector ==
  /\ NextPart("connector")
  /\ connector' = TRUE
  /\ patching' = "script"
  /\ UNCHANGED <<headless, model, disk, package, worker, config, engine>>

\* The third part needs a connector configuration to put the policy in.
ReportPolicy ==
  /\ NextPart("script") /\ "gds" \in config
  /\ config' = config \cup {"recompute"}
  /\ patching' = "worker"
  /\ UNCHANGED <<headless, model, disk, package, worker, connector, engine>>

\* It is interrupted, or does not find the script at the path it names.
ReportStops ==
  /\ patching # "worker"
  /\ patching' = "worker"
  /\ UNCHANGED <<headless, model, disk, package, worker, connector, config, engine>>

\* patch_start_script.py writes the line of the connector anew, and the failure
\* policy was part of it.
PatchStartScript ==
  /\ config' = {"gds"}
  /\ UNCHANGED <<headless, model, disk, package, worker, connector, patching, engine>>

\* A new container has the files of the image; the start script is the host's, and
\* the root may be.
RecreateContainer ==
  /\ package' = FALSE /\ worker' = {} /\ connector' = FALSE
  /\ patching' = "worker"
  /\ (root' = FALSE /\ trees' = <<>>) \/ UNCHANGED disk
  /\ engine' = None
  /\ UNCHANGED <<headless, model, config>>

-----------------------------------------------------------------------------
(* The engine. *)

MutBlockRoot(guess) == guess

\* GdsGcManager.__init__ with a guess from a FileMapper: without a root it is kept,
\* otherwise the newest tree is taken.
BlockRoot(guess) == IF root THEN Tree(Head(trees)) ELSE guess

\* max() of no directory raises ValueError, and the engine does not start.
ProbeRaises == root /\ trees = <<>>

\* The FileMappers a GC may be made with: on the head node the order of
\* get_manager() and get_worker() is the engine's.
Guesses == {WorkerTree(model)} \cup (IF headless THEN {} ELSE {Tree(model)})

MutMakesRoot == FALSE

\* The manager makes the directory of its configuration file, after the GC.
MakesRoot == ~headless

Start ==
  /\ engine = None
  /\ "gds" \in config /\ package /\ ~ProbeRaises
  /\ \E guess \in Guesses :
       engine' = [worker |-> worker, forwards |-> connector, sweeps |-> BlockRoot(guess),
                  had |-> model \in ToSet(trees)]
  /\ root' = (root \/ MakesRoot)
  /\ UNCHANGED <<headless, model, trees, install>>

\* A store makes the tree; in an existing one it may make a new subdirectory, which
\* is what changes the mtime of the tree.
Store ==
  /\ engine # None
  /\ root' = TRUE
  /\ \/ trees' = <<model>> \o Without(trees, {model})
     \/ model \in ToSet(trees) /\ UNCHANGED trees
  /\ UNCHANGED <<headless, model, install, engine>>

Stop ==
  /\ engine # None
  /\ engine' = None
  /\ UNCHANGED <<headless, model, disk, install>>

\* "kill, then clear the cache": for a cold baseline.
CleanRoot ==
  /\ engine = None
  /\ root' = FALSE /\ trees' = <<>>
  /\ UNCHANGED <<headless, model, install, engine>>

SwitchModel ==
  /\ engine = None
  /\ model' \in Models
  /\ UNCHANGED <<headless, disk, install, engine>>

Next ==
  \/ InstallPackage \/ PatchAssert
  \/ ReportWorker \/ ReportConnector \/ ReportPolicy \/ ReportStops
  \/ PatchStartScript \/ RecreateContainer
  \/ Start \/ Store \/ Stop \/ CleanRoot \/ SwitchModel

Spec == Init /\ [][Next]_vars

-----------------------------------------------------------------------------
(* Properties. *)

Engines ==
  [worker : SUBSET {"degrade", "report"}, forwards : BOOLEAN,
   sweeps : {Tree(m) : m \in Models} \cup {WorkerTree(m) : m \in Models}, had : BOOLEAN]

\* The type invariant; a model has one tree, trees are in the root, and a running
\* manager has a root.
TypeOK ==
  /\ headless \in BOOLEAN /\ model \in Models
  /\ root \in BOOLEAN /\ trees \in Seq(Models) /\ IsInjective(trees)
  /\ trees # <<>> => root
  /\ package \in BOOLEAN /\ worker \subseteq {"degrade", "report"} /\ connector \in BOOLEAN
  /\ config \subseteq {"gds", "recompute"}
  /\ patching \in {"worker", "connector", "script"}
  /\ engine \in Engines \cup {None}
  /\ engine # None /\ ~headless => root

\* A connector that forwards get_block_ids_with_load_errors() is never loaded with a
\* worker.py that lacks it, wherever the patch was interrupted or repeated and
\* whenever the engine was started in between.
ForwardHasTarget == engine # None /\ engine.forwards => "report" \in engine.worker

\* "do not trust base_path here: probe the actual tree instead": an engine that starts
\* where its chunks are the only ones sweeps them, headless or not.
OwnTreeFound ==
  engine # None /\ engine.had /\ Len(trees) = 1 => engine.sweeps = Tree(model)
=============================================================================
