---------------------------- MODULE GdsNode_proofs ----------------------------
(***************************************************************************)
(* Proofs about GdsNode, for any set of models: whatever scripts operators *)
(* run, interrupt and repeat between the starts of an engine, a connector  *)
(* that reports failed loads finds the method it calls, and an engine that *)
(* starts with its chunks as the only ones on the node sweeps them.        *)
(*                                                                         *)
(* For the first, the patch of worker.py is there as soon as the script has*)
(* passed it, and stays until the container is made anew, which takes the  *)
(* other patches as well (Patched).  For the second, the only tree made    *)
(* while an engine runs is that of its own model (OwnTree).                *)
(***************************************************************************)
EXTENDS GdsNode, DataLemmas

\* What worker.py has when the script is past it, or the connector is patched.
Patched == connector \/ patching # "worker" => "report" \in worker

\* An engine that had its tree has it still, and sweeps it if there is no other.
OwnTree ==
  engine # None /\ engine.had =>
    /\ model \in ToSet(trees)
    /\ ToSet(trees) = {model} => engine.sweeps = Tree(model)

NodeInv == TypeOK /\ Patched /\ ForwardHasTarget /\ OwnTree

-----------------------------------------------------------------------------
(* The trees on the disk. *)

\* An element put in front of a sequence.
LEMMA PutInFront ==
  ASSUME NEW D, NEW r \in Seq(D), NEW m \in D
  PROVE  /\ <<m>> \o r \in Seq(D) /\ Len(<<m>> \o r) = Len(r) + 1
         /\ (<<m>> \o r)[1] = m
         /\ \A i \in 1..Len(r) : (<<m>> \o r)[i + 1] = r[i]
<1>1. <<m>> \in Seq(D) /\ Len(<<m>>) = 1 /\ <<m>>[1] = m
  OBVIOUS
<1>2. <<m>> \o r \in Seq(D) /\ Len(<<m>> \o r) = Len(r) + 1
  BY <1>1
<1>3. (<<m>> \o r)[1] = m
  BY <1>1, <1>2
<1>4. \A i \in 1..Len(r) : (<<m>> \o r)[i + 1] = r[i]
  BY <1>1, <1>2
<1> QED
  BY <1>2, <1>3, <1>4

\* A store moves the tree of the model to the front, or makes it there: the others
\* keep their order, and there is no second tree of a model.
LEMMA TreesAfterStore ==
  ASSUME NEW s \in Seq(Models), \A i, j \in 1..Len(s) : s[i] = s[j] => i = j, NEW m \in Models
  PROVE  \E t \in Seq(Models) :
           /\ t = <<m>> \o Without(s, {m})
           /\ t # <<>> /\ \A i, j \in 1..Len(t) : t[i] = t[j] => i = j
           /\ {t[k] : k \in DOMAIN t} = {m} \cup {s[k] : k \in DOMAIN s}
<1>1. PICK r : r = Without(s, {m})
  OBVIOUS
<1>2. r \in Seq(Models) /\ {r[k] : k \in DOMAIN r} = {s[k] : k \in DOMAIN s} \ {m}
  <2>1. PICK S : S = {m}
    OBVIOUS
  <2>2. /\ Without(s, S) \in Seq(Models)
        /\ {Without(s, S)[k] : k \in DOMAIN Without(s, S)} = {s[k] : k \in DOMAIN s} \ S
    BY WithoutElements, SMTT(30)
  <2>3. r = Without(s, S)
    BY <1>1, <2>1
  <2> QED
    BY <2>1, <2>2, <2>3
<1>3. \A i, j \in 1..Len(r) : r[i] = r[j] => i = j
  <2> DEFINE key == [x \in Models |-> x]
  <2>1. \A i, j \in 1..Len(s) : key[s[i]] = key[s[j]] => i = j
    OBVIOUS
  <2>2. \A x \in Models : key[x] = x
    OBVIOUS
  <2>3. \A i \in 1..Len(r) : r[i] \in Models
    BY <1>2
  <2> HIDE DEF key
  <2>4. \A i, j \in 1..Len(r) : key[r[i]] = key[r[j]] => i = j
    BY <1>1, <2>1, WithoutDistinct
  <2> QED
    BY <2>2, <2>3, <2>4
<1>4. PICK t : /\ t = <<m>> \o r
               /\ t \in Seq(Models) /\ Len(t) = Len(r) + 1 /\ t[1] = m
               /\ \A i \in 1..Len(r) : t[i + 1] = r[i]
  <2>1. /\ <<m>> \o r \in Seq(Models) /\ Len(<<m>> \o r) = Len(r) + 1
        /\ (<<m>> \o r)[1] = m
        /\ \A i \in 1..Len(r) : (<<m>> \o r)[i + 1] = r[i]
    BY <1>2, PutInFront
  <2>2. PICK t : t = <<m>> \o r
    OBVIOUS
  <2>3. /\ t \in Seq(Models) /\ Len(t) = Len(r) + 1 /\ t[1] = m
        /\ \A i \in 1..Len(r) : t[i + 1] = r[i]
    BY <2>1, <2>2
  <2> QED
    BY <2>2, <2>3
<1>5. /\ t \in Seq(Models) /\ Len(t) = Len(r) + 1 /\ t[1] = m
      /\ Len(r) \in Nat /\ DOMAIN r = 1..Len(r) /\ DOMAIN t = 1..Len(t)
      /\ \A i \in 1..Len(r) : t[i + 1] = r[i]
  BY <1>2, <1>4
<1>6. \A i \in 1..Len(t) : i = 1 \/ (i - 1 \in 1..Len(r) /\ t[i] = r[i - 1])
  <2> SUFFICES ASSUME NEW i \in 1..Len(t), i # 1
               PROVE  i - 1 \in 1..Len(r) /\ t[i] = r[i - 1]
    OBVIOUS
  <2>1. i - 1 \in 1..Len(r) /\ (i - 1) + 1 = i
    BY <1>5
  <2> QED
    BY <1>5, <2>1
<1>7. \A k \in 1..Len(r) : r[k] # m
  <2>1. ASSUME NEW k \in DOMAIN r
        PROVE  r[k] \in {s[n] : n \in DOMAIN s} \ {m}
    BY <1>2
  <2> QED
    BY <1>5, <2>1
<1>8. ASSUME NEW i \in 1..Len(t), NEW j \in 1..Len(t), t[i] = t[j]
      PROVE  i = j
  <2>1. CASE i = 1 \/ j = 1
    BY <1>5, <1>6, <1>7, <1>8, <2>1
  <2>2. CASE i # 1 /\ j # 1
    <3>1. i - 1 = j - 1
      BY <1>3, <1>6, <1>8, <2>2
    <3> QED
      BY <3>1
  <2> QED
    BY <2>1, <2>2
<1>9. {t[k] : k \in DOMAIN t} = {m} \cup {r[k] : k \in DOMAIN r}
  <2>1. 1 \in DOMAIN t /\ \A k \in DOMAIN r : k + 1 \in DOMAIN t /\ t[k + 1] = r[k]
    BY <1>5
  <2>2. \A k \in DOMAIN t : t[k] = m \/ \E l \in DOMAIN r : t[k] = r[l]
    BY <1>5, <1>6
  <2> QED
    BY <1>5, <2>1, <2>2
<1>10. t # <<>>
  BY <1>5
<1>11. {t[k] : k \in DOMAIN t} = {m} \cup {s[k] : k \in DOMAIN s}
  BY <1>2, <1>9
<1> QED
  BY <1>1, <1>4, <1>8, <1>10, <1>11

\* The newest tree is one of them.
LEMMA HeadIsTree ==
  ASSUME TypeOK, trees # <<>>
  PROVE  Head(trees) \in Models /\ Head(trees) \in ToSet(trees)
<1>1. trees \in Seq(Models) /\ 1 \in DOMAIN trees /\ Head(trees) = trees[1]
  BY DEF TypeOK
<1> QED
  BY <1>1 DEF ToSet

-----------------------------------------------------------------------------
(* The steps. *)

\* Scripts and containers: the files of worker.py and of the connector change together.
LEMMA DeployInv ==
  ASSUME NodeInv,
         \/ InstallPackage \/ PatchAssert \/ ReportWorker \/ ReportConnector \/ ReportPolicy
         \/ ReportStops \/ PatchStartScript \/ RecreateContainer
  PROVE  NodeInv'
<1> USE DEF NodeInv, disk, install
<1>1. CASE InstallPackage \/ PatchAssert \/ PatchStartScript
  <2>1. UNCHANGED <<headless, model, root, trees, connector, patching, engine>>
    BY <1>1 DEF InstallPackage, PatchAssert, PatchStartScript
  <2>2. worker \subseteq worker' /\ worker' \subseteq {"degrade", "report"}
    BY <1>1 DEF InstallPackage, PatchAssert, PatchStartScript, TypeOK
  <2>3. package' \in BOOLEAN /\ config' \subseteq {"gds", "recompute"}
    BY <1>1 DEF InstallPackage, PatchAssert, PatchStartScript, TypeOK
  <2>4. TypeOK'
    BY <2>1, <2>2, <2>3 DEF TypeOK
  <2> QED
    BY <2>1, <2>2, <2>4 DEF Patched, ForwardHasTarget, OwnTree
<1>2. CASE ReportWorker \/ ReportConnector \/ ReportPolicy \/ ReportStops
  BY <1>2 DEF ReportWorker, ReportConnector, ReportPolicy, ReportStops, NextPart, TypeOK, Engines,
     Patched, ForwardHasTarget, OwnTree
<1>3. CASE RecreateContainer
  <2>1. (root' = FALSE /\ trees' = <<>>) \/ (root' = root /\ trees' = trees)
    BY <1>3 DEF RecreateContainer
  <2>2. trees' \in Seq(Models) /\ IsInjective(trees') /\ (trees' # <<>> => root')
    <3>1. <<>> \in Seq(Models) /\ IsInjective(<<>>)
      BY DEF IsInjective
    <3>2. trees \in Seq(Models) /\ IsInjective(trees) /\ (trees # <<>> => root)
      BY DEF TypeOK
    <3> QED
      BY <2>1, <3>1, <3>2
  <2> QED
    BY <1>3, <2>1, <2>2 DEF RecreateContainer, TypeOK, Patched, ForwardHasTarget, OwnTree
<1> QED
  BY <1>1, <1>2, <1>3

\* An engine loads what is patched by then, and takes the newest tree if there is a
\* root: with one tree, its own.
LEMMA StartInv ==
  ASSUME NodeInv, Start
  PROVE  NodeInv'
<1> USE DEF NodeInv, Start, install
<1>1. PICK guess \in Guesses :
        engine' = [worker |-> worker, forwards |-> connector, sweeps |-> BlockRoot(guess),
                   had |-> model \in ToSet(trees)]
  OBVIOUS
<1>2. model \in Models /\ guess \in {Tree(m) : m \in Models} \cup {WorkerTree(m) : m \in Models}
  BY DEF Guesses, TypeOK
<1>3. root => trees # <<>>
  BY DEF ProbeRaises
<1>4. BlockRoot(guess) \in {Tree(m) : m \in Models} \cup {WorkerTree(m) : m \in Models}
  BY <1>2, <1>3, HeadIsTree DEF BlockRoot
<1>5. engine' \in Engines
  BY <1>1, <1>4 DEF Engines, TypeOK
<1>6. TypeOK'
  <2>1. root' \in BOOLEAN /\ (~headless => root') /\ (trees' # <<>> => root')
    BY DEF MakesRoot, TypeOK
  <2> QED
    BY <1>5, <2>1 DEF TypeOK
<1>7. Patched' /\ ForwardHasTarget'
  BY <1>1 DEF Patched, ForwardHasTarget
<1>8. OwnTree'
  <2> SUFFICES ASSUME model \in ToSet(trees)
               PROVE  ToSet(trees) = {model} => BlockRoot(guess) = Tree(model)
    BY <1>1 DEF OwnTree
  <2>1. trees # <<>>
    BY DEF ToSet
  <2>2. root
    BY <2>1 DEF TypeOK
  <2> QED
    BY <2>1, <2>2, HeadIsTree DEF BlockRoot
<1> QED
  BY <1>6, <1>7, <1>8

\* A store adds no tree but that of the engine's model.
LEMMA StoreInv ==
  ASSUME NodeInv, Store
  PROVE  NodeInv'
<1> USE DEF NodeInv, Store, install
<1>1. CASE trees' = <<model>> \o Without(trees, {model})
  <2>1. /\ trees' \in Seq(Models) /\ IsInjective(trees') /\ trees' # <<>>
        /\ ToSet(trees') = {model} \cup ToSet(trees)
    <3>1. trees \in Seq(Models) /\ model \in Models
      BY DEF TypeOK
    <3>2. \A i, j \in 1..Len(trees) : trees[i] = trees[j] => i = j
      BY <3>1 DEF TypeOK, IsInjective
    <3>3. PICK t \in Seq(Models) :
            /\ t = <<model>> \o Without(trees, {model})
            /\ t # <<>> /\ \A i, j \in 1..Len(t) : t[i] = t[j] => i = j
            /\ {t[k] : k \in DOMAIN t} = {model} \cup {trees[k] : k \in DOMAIN trees}
      BY <3>1, <3>2, TreesAfterStore
    <3>4. IsInjective(t) /\ ToSet(t) = {model} \cup ToSet(trees)
      <4>1. DOMAIN t = 1..Len(t)
        OBVIOUS
      <4>2. IsInjective(t)
        BY <3>3, <4>1 DEF IsInjective
      <4>3. ToSet(t) = {model} \cup ToSet(trees)
        BY <3>3 DEF ToSet
      <4> QED
        BY <4>2, <4>3
    <3>5. trees' = t
      BY <1>1, <3>3
    <3> QED
      BY <3>3, <3>4, <3>5, Zenon
  <2>2. TypeOK'
    BY <2>1 DEF TypeOK
  <2>3. OwnTree'
    BY <2>1 DEF OwnTree
  <2> QED
    BY <2>2, <2>3 DEF Patched, ForwardHasTarget
<1>2. CASE model \in ToSet(trees) /\ UNCHANGED trees
  BY <1>2 DEF TypeOK, Patched, ForwardHasTarget, OwnTree
<1> QED
  BY <1>1, <1>2

\* Without an engine nothing depends on the trees or the model.
LEMMA StoppedInv ==
  ASSUME NodeInv, Stop \/ CleanRoot \/ SwitchModel
  PROVE  NodeInv'
<1> USE DEF NodeInv, disk, install
<1>1. CASE Stop
  BY <1>1 DEF Stop, TypeOK, Patched, ForwardHasTarget, OwnTree
<1>2. CASE CleanRoot
  <2>1. trees' = <<>> /\ <<>> \in Seq(Models) /\ IsInjective(<<>>)
    BY <1>2 DEF CleanRoot, IsInjective
  <2> QED
    BY <1>2, <2>1 DEF CleanRoot, TypeOK, Patched, ForwardHasTarget, OwnTree
<1>3. CASE SwitchModel
  BY <1>3 DEF SwitchModel, TypeOK, Patched, ForwardHasTarget, OwnTree
<1> QED
  BY <1>1, <1>2, <1>3

\* A node starts unpatched, empty and without an engine.
LEMMA InitInv == Init => NodeInv
<1> SUFFICES ASSUME Init
             PROVE  NodeInv
  OBVIOUS
<1>1. trees \in Seq(Models) /\ IsInjective(trees)
  BY DEF Init, IsInjective
<1> QED
  BY <1>1 DEF Init, NodeInv, TypeOK, Patched, ForwardHasTarget, OwnTree

\* The files on a node, and what its engine has loaded of them, stay in step.
THEOREM Invariance == Spec => []NodeInv
<1>1. NodeInv /\ [Next]_vars => NodeInv'
  <2> SUFFICES ASSUME NodeInv, [Next]_vars
               PROVE  NodeInv'
    OBVIOUS
  <2>1. CASE UNCHANGED vars
    BY <2>1 DEF vars, disk, install, NodeInv, TypeOK, Patched, ForwardHasTarget, OwnTree
  <2> QED
    BY <2>1, DeployInv, StartInv, StoreInv, StoppedInv DEF Next
<1> QED
  BY <1>1, InitInv, PTL DEF Spec

-----------------------------------------------------------------------------
(* The properties of GdsNode. *)

\* The variables keep their types: no model ever has two trees, and there are no trees
\* without a root.
THEOREM TypeCorrect == Spec => []TypeOK
BY Invariance, PTL DEF NodeInv

\* A connector that forwards get_block_ids_with_load_errors() is never loaded with a
\* worker.py that lacks it, wherever patch_load_failure_report.py was interrupted.
THEOREM ForwardTargets == Spec => []ForwardHasTarget
BY Invariance, PTL DEF NodeInv

\* The probe of GdsGcManager.__init__ finds the tree of an engine that starts where
\* there is no other, on a headless node as well.
THEOREM OwnTreeIsFound == Spec => []OwnTreeFound
<1>1. NodeInv => OwnTreeFound
  <2> SUFFICES ASSUME NodeInv, engine # None, engine.had, Len(trees) = 1
               PROVE  engine.sweeps = Tree(model)
    BY DEF OwnTreeFound
  <2>1. DOMAIN trees = 1..1
    BY DEF NodeInv, TypeOK
  <2>2. ToSet(trees) = {trees[1]}
    BY <2>1 DEF ToSet
  <2>3. model \in ToSet(trees)
    BY DEF NodeInv, OwnTree
  <2> QED
    BY <2>2, <2>3 DEF NodeInv, OwnTree
<1> QED
  BY <1>1, Invariance, PTL
=============================================================================
