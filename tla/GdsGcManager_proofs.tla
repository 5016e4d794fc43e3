------------------------- MODULE GdsGcManager_proofs --------------------------
(***************************************************************************)
(* Proofs about GdsGcManager, for any chunks, sizes, budget and jobs: the  *)
(* type invariant, and what a sweep may and must remove although it works  *)
(* on a list, a copy of the protected paths and a sum that are older than  *)
(* the files.                                                              *)
(*                                                                         *)
(* The inductive invariant ties each of those three to the files and jobs  *)
(* as they are now: the copy still holds the chunk of every job that was   *)
(* in flight when it was made (KeptListed); what the loop has left behind  *)
(* is spared, or is not the file of the list any more (PassedSpared); and  *)
(* the sum is at least what is still to come together with what the list   *)
(* still has right (LeftCovers).  The first one needs the counts of        *)
(* protect() and release() to be exact (Counted).                          *)
(***************************************************************************)
EXTENDS GdsGcManager, DataLemmas

\* Transfers in flight on p.
Users(p) == {j \in Jobs : InFlight(j) /\ job[j].path = p}

\* Paths at which the walk found a file.
Walked == {p \in Paths : blocks[p] # None}

-----------------------------------------------------------------------------
(* The inductive invariant. *)

Shape ==
  /\ file \in [Paths -> 0..clock \cup {None}]
  /\ clock \in Nat /\ horizon \in 0..clock
  /\ job \in [Jobs -> Job \cup {None}]
  /\ protected \in [Paths -> Nat]
  /\ phase \in {"wait", "walk", "unlink"}
  /\ unseen \subseteq Paths /\ queue \subseteq Paths /\ snapshot \subseteq Paths
  /\ blocks \in [Paths -> 0..clock \cup {None}]
  /\ left \in Nat
  /\ cutoff \in 0..horizon
  /\ stopped \in BOOLEAN
  /\ started \in 0..MaxJobs

Counted == \A p \in Paths : protected[p] = Cardinality(Users(p))

KeptListed ==
  \A j \in Jobs : InFlight(j) /\ job[j].kept => phase = "unlink" /\ job[j].path \in snapshot

Listed ==
  /\ phase # "unlink" => queue = {}
  /\ queue \subseteq Walked
  /\ phase = "walk" => Walked \cap unseen = {}

PassedSpared ==
  phase = "unlink" => \A q \in Paths : AsWalked(q) /\ q \notin queue => Spared(q)

LeftCovers ==
  /\ phase = "wait" => left = 0
  /\ phase = "walk" => left = Bytes(Walked)
  /\ phase = "unlink" => Bytes(queue \cup StillAsWalked) <= left /\ left <= Bytes(Paths)

JobsInv == Counted /\ KeptListed
SweepInv == Listed /\ PassedSpared /\ LeftCovers
GcInv == Shape /\ JobsInv /\ SweepInv

-----------------------------------------------------------------------------
(* Bytes. *)

\* The bytes of chunks are a number, none of no chunk, and less one chunk's when
\* that one goes.
LEMMA BytesFacts ==
  /\ Bytes({}) = 0
  /\ \A P \in SUBSET Paths : Bytes(P) \in Nat
  /\ \A P \in SUBSET Paths : \A p \in P : Bytes(P) = Size[p] + Bytes(P \ {p})
  /\ \A P \in SUBSET Paths : \A R \in SUBSET P : Bytes(R) <= Bytes(P)
<1> USE GcAssumption
<1>1. \A P \in SUBSET Paths : IsFiniteSet(P)
  BY FS_Subset
<1>2. \A P : Bytes(P) = Total(Size, P)
  BY DEF Bytes, Total
<1>3. Size \in [Paths -> Nat]
  BY GcAssumption
<1>4. \A P \in SUBSET Paths : Total(Size, P) \in Nat
  BY <1>1, <1>3, TotalType
<1>5. ASSUME NEW P \in SUBSET Paths, NEW p \in P
      PROVE  Total(Size, P) = Size[p] + Total(Size, P \ {p})
  <2>1. IsFiniteSet(P)
    BY <1>1
  <2> QED
    BY <2>1, <1>3, TotalRemove
<1>6. \A P \in SUBSET Paths : \A R \in SUBSET P : Total(Size, R) <= Total(Size, P)
  BY <1>1, <1>3, TotalSubset
<1> QED
  BY <1>2, <1>4, <1>5, <1>6, TotalEmpty

\* One chunk more adds its size.
LEMMA BytesAdd ==
  ASSUME NEW P \in SUBSET Paths, NEW p \in Paths, p \notin P
  PROVE  Bytes(P \cup {p}) = Bytes(P) + Size[p]
<1>1. Bytes(P \cup {p}) = Size[p] + Bytes((P \cup {p}) \ {p})
  BY BytesFacts
<1>2. (P \cup {p}) \ {p} = P
  OBVIOUS
<1>3. Bytes(P \cup {p}) = Size[p] + Bytes(P)
  BY <1>1, <1>2, Zenon
<1>4. Size[p] \in Nat /\ Bytes(P) \in Nat
  BY GcAssumption, BytesFacts
<1> QED
  BY <1>3, <1>4

-----------------------------------------------------------------------------
(* The jobs of a chunk. *)

\* A chunk has finitely many jobs.
LEMMA UsersFinite ==
  ASSUME NEW p
  PROVE  IsFiniteSet(Users(p)) /\ Cardinality(Users(p)) \in Nat
BY GcAssumption, FS_Subset, FS_CardinalityType, Users(p) \in SUBSET Jobs DEF Users

\* Jobs that keep their chunk keep the counts exact.
LEMMA SameUsers ==
  ASSUME JobsInv, UNCHANGED protected,
         \A j \in Jobs : (InFlight(j)' <=> InFlight(j)) /\ (InFlight(j) => job[j].path' = job[j].path)
  PROVE  Counted'
<1>1. ASSUME NEW p \in Paths
      PROVE  Users(p)' = Users(p)
  BY DEF Users
<1> QED
  BY <1>1 DEF JobsInv, Counted

\* The IO of a job leaves everything but what it has still to do.
LEMMA IoEndsJobs ==
  ASSUME Shape, JobsInv, NEW j \in Jobs, InFlight(j), IoEnds(j),
         UNCHANGED <<protected, phase, snapshot>>
  PROVE  job' \in [Jobs -> Job \cup {None}] /\ JobsInv'
<1>1. job[j] \in Job
  BY DEF Shape, InFlight
<1>2. job' = [job EXCEPT ![j] = [job[j] EXCEPT !.doing = "nothing"]]
  BY DEF IoEnds
<1>3. job'[j] \in Job /\ job'[j].path = job[j].path /\ job'[j].kept = job[j].kept
  BY <1>1, <1>2 DEF Shape, Job
<1>4. job' \in [Jobs -> Job \cup {None}]
  BY <1>2, <1>3 DEF Shape
<1>5. \A i \in Jobs : i # j => job'[i] = job[i]
  BY <1>2 DEF Shape
<1>6. \A i \in Jobs : InFlight(i)' <=> InFlight(i)
  BY <1>1, <1>3, <1>5, NoneAssumption DEF InFlight
<1>7. \A i \in Jobs : InFlight(i) =>
        /\ job[i].path' = job[i].path
        /\ job[i].kept' = job[i].kept
  BY <1>3, <1>5
<1>8. Counted'
  BY <1>6, <1>7, SameUsers
<1>9. KeptListed'
  BY <1>6, <1>7 DEF JobsInv, KeptListed
<1> QED
  BY <1>4, <1>8, <1>9 DEF JobsInv

-----------------------------------------------------------------------------
(* Steps outside the sweep. *)

\* A step of another thread leaves the locals of the sweep alone, and can only make
\* the list of the walk staler.
LEMMA OutsideSweep ==
  ASSUME Shape, SweepInv, UNCHANGED sweepVars, StillAsWalked' \subseteq StillAsWalked
  PROVE  SweepInv'
<1> USE DEF sweepVars
<1>1. Listed'
  BY DEF SweepInv, Listed, Walked
<1>2. PassedSpared'
  BY DEF SweepInv, PassedSpared, StillAsWalked, Spared
<1>3. LeftCovers'
  <2>1. Walked' = Walked
    BY DEF Walked
  <2>2. queue \cup StillAsWalked \in SUBSET Paths
    BY DEF Shape, StillAsWalked
  <2>3. PICK S : S = StillAsWalked'
    OBVIOUS
  <2>4. Bytes(queue \cup S) <= Bytes(queue \cup StillAsWalked)
    BY <2>2, <2>3, BytesFacts
  <2>5. Bytes(queue \cup S) \in Nat /\ Bytes(queue \cup StillAsWalked) \in Nat
    BY <2>2, <2>3, BytesFacts
  <2>6. (queue \cup StillAsWalked)' = queue \cup S
    <3>1. queue' = queue
      OBVIOUS
    <3> QED
      BY <2>3, <3>1
  <2>7. phase = "unlink" => Bytes(queue \cup S) <= left
    BY <2>4, <2>5 DEF SweepInv, LeftCovers, Shape
  <2>8. Bytes(Walked)' = Bytes(Walked) /\ Bytes(Paths)' = Bytes(Paths)
    BY <2>1
  <2>9. Bytes(queue \cup StillAsWalked)' = Bytes(queue \cup S)
    BY <2>6
  <2> QED
    BY <2>7, <2>8, <2>9 DEF SweepInv, LeftCovers
<1> QED
  BY <1>1, <1>2, <1>3 DEF SweepInv

\* prepare_...() counts the chunk for the new job.
LEMMA StartJobInv ==
  ASSUME GcInv, NEW j \in Jobs, NEW kind \in {"store", "load"}, NEW p \in Paths,
         StartJob(j, kind, p)
  PROVE  GcInv'
<1> DEFINE new == [doing |-> kind, path |-> p, kept |-> FALSE]
<1> USE DEF GcInv, StartJob, Protect
<1>1. new \in Job
  BY DEF Job
<1>2. Shape'
  BY <1>1, GcAssumption DEF Shape, sweepVars
<1>3. job' = [job EXCEPT ![j] = new] /\ InFlight(j)' /\ ~InFlight(j)
  BY <1>1, NoneAssumption DEF InFlight, Shape
<1>4. \A i \in Jobs : i # j => job'[i] = job[i]
  BY <1>3 DEF Shape
<1>5. Counted'
  <2> SUFFICES ASSUME NEW q \in Paths
               PROVE  protected'[q] = Cardinality(Users(q)')
    BY DEF Counted
  <2>1. protected[q] = Cardinality(Users(q))
    BY DEF JobsInv, Counted
  <2>2. CASE q = p
    <3>1. Users(q)' = Users(q) \cup {j} /\ j \notin Users(q)
      BY <1>3, <1>4, <2>2 DEF Users, InFlight, Shape
    <3>2. Cardinality(Users(q) \cup {j}) = Cardinality(Users(q)) + 1
      BY <3>1, UsersFinite, FS_AddElement
    <3> QED
      BY <2>1, <2>2, <3>1, <3>2 DEF Shape
  <2>3. CASE q # p
    <3>1. Users(q)' = Users(q)
      BY <1>3, <1>4, <2>3 DEF Users, InFlight, Shape
    <3> QED
      BY <2>1, <2>3, <3>1 DEF Shape
  <2> QED
    BY <2>2, <2>3
<1>6. KeptListed'
  BY <1>3, <1>4 DEF JobsInv, KeptListed, InFlight, sweepVars, Shape
<1>7. SweepInv'
  BY OutsideSweep DEF StillAsWalked, AsWalked, sweepVars
<1> QED
  BY <1>2, <1>5, <1>6, <1>7 DEF JobsInv

\* complete_...() takes its own count back, and no other.
LEMMA CompleteJobInv ==
  ASSUME GcInv, NEW j \in Jobs, CompleteJob(j)
  PROVE  GcInv'
<1> USE DEF GcInv, CompleteJob, Release
<1>1. PICK p \in Paths : p = job[j].path
  BY DEF Shape, Job, InFlight
<1>2. job' = [job EXCEPT ![j] = None] /\ ~InFlight(j)' /\ InFlight(j)
  BY DEF InFlight, Shape
<1>3. \A i \in Jobs : i # j => job'[i] = job[i]
  BY <1>2 DEF Shape
<1>4. Users(p) \ {j} = Users(p)' /\ j \in Users(p)
  BY <1>1, <1>2, <1>3 DEF Users, InFlight
<1>5. Cardinality(Users(p) \ {j}) = Cardinality(Users(p)) - 1
  BY <1>4, UsersFinite, FS_RemoveElement
<1>6. protected[p] = Cardinality(Users(p)) /\ protected[p] > 0
  <2>1. protected[p] = Cardinality(Users(p))
    BY <1>1 DEF JobsInv, Counted
  <2>2. Cardinality(Users(p)) # 0
    BY <1>4, UsersFinite, FS_EmptySet
  <2> QED
    BY <2>1, <2>2, UsersFinite
<1>7. protected' = [protected EXCEPT ![p] = @ - 1]
  BY <1>1, <1>6
<1>8. Shape'
  <2>1. protected' \in [Paths -> Nat]
    BY <1>1, <1>6, <1>7 DEF Shape
  <2> QED
    BY <1>2, <2>1 DEF Shape, sweepVars
<1>9. Counted'
  <2> SUFFICES ASSUME NEW q \in Paths
               PROVE  protected'[q] = Cardinality(Users(q)')
    BY DEF Counted
  <2>1. protected[q] = Cardinality(Users(q))
    BY DEF JobsInv, Counted
  <2>2. CASE q = p
    <3>1. Users(q)' = Users(p) \ {j}
      BY <1>4, <2>2
    <3>2. protected'[q] = protected[q] - 1
      BY <1>1, <1>7, <2>2 DEF Shape
    <3> QED
      BY <1>5, <2>1, <2>2, <3>1, <3>2
  <2>3. CASE q # p
    <3>1. Users(q)' = Users(q)
      BY <1>1, <1>2, <1>3, <2>3 DEF Users, InFlight
    <3> QED
      BY <1>7, <2>1, <2>3, <3>1 DEF Shape
  <2> QED
    BY <2>2, <2>3
<1>10. KeptListed'
  BY <1>2, <1>3 DEF JobsInv, KeptListed, InFlight, sweepVars
<1>11. SweepInv'
  BY OutsideSweep DEF StillAsWalked, AsWalked, sweepVars
<1> QED
  BY <1>8, <1>9, <1>10, <1>11 DEF JobsInv

\* A write makes the file of the chunk newer than any the walk has seen.
LEMMA WriteChunkInv ==
  ASSUME GcInv, NEW j \in Jobs, WriteChunk(j)
  PROVE  GcInv'
<1> USE DEF GcInv, WriteChunk, Transferring, sweepVars
<1>1. PICK p \in Paths : p = job[j].path
  BY DEF Shape, Job, InFlight
<1>2. file' = [file EXCEPT ![p] = clock + 1] /\ clock' = clock + 1 /\ clock \in Nat
  BY <1>1 DEF Shape
<1>3. job' \in [Jobs -> Job \cup {None}] /\ JobsInv'
  BY IoEndsJobs
<1>4. Shape'
  <2>1. clock' \in 0..clock' /\ 0..clock \subseteq 0..clock' /\ clock' \in Nat
    BY <1>2
  <2>2. file' \in [Paths -> 0..clock' \cup {None}]
    BY <1>2, <2>1 DEF Shape
  <2>3. blocks' \in [Paths -> 0..clock' \cup {None}]
    BY <2>1 DEF Shape
  <2>4. horizon' \in 0..clock'
    BY <2>1 DEF Shape
  <2> QED
    BY <1>3, <2>1, <2>2, <2>3, <2>4 DEF Shape
<1>5. StillAsWalked' \subseteq StillAsWalked
  <2> SUFFICES ASSUME NEW q \in Paths, AsWalked(q)'
               PROVE  AsWalked(q)
    BY DEF StillAsWalked
  <2>1. blocks[q] \in 0..clock /\ file'[q] = blocks[q] /\ blocks[q] # None
    BY GcAssumption DEF AsWalked, Shape
  <2>2. q # p
    BY <1>2, <2>1 DEF Shape
  <2> QED
    BY <1>2, <2>1, <2>2 DEF AsWalked, Shape
<1>6. SweepInv'
  BY <1>5, OutsideSweep
<1> QED
  BY <1>3, <1>4, <1>6

\* A read leaves the files as they are.
LEMMA ReadChunkInv ==
  ASSUME GcInv, NEW j \in Jobs, ReadChunk(j)
  PROVE  GcInv'
<1> USE DEF GcInv, ReadChunk, Transferring, sweepVars
<1>1. job' \in [Jobs -> Job \cup {None}] /\ JobsInv'
  BY IoEndsJobs
<1>2. SweepInv'
  BY OutsideSweep DEF StillAsWalked, AsWalked
<1> QED
  BY <1>1, <1>2 DEF Shape

\* A failed IO removes one file.
LEMMA FailChunkInv ==
  ASSUME GcInv, NEW j \in Jobs, FailChunk(j)
  PROVE  GcInv'
<1> USE DEF GcInv, FailChunk, Transferring, sweepVars
<1>1. PICK p \in Paths : p = job[j].path
  BY DEF Shape, Job, InFlight
<1>2. file' = [file EXCEPT ![p] = None]
  BY <1>1
<1>3. job' \in [Jobs -> Job \cup {None}] /\ JobsInv'
  BY IoEndsJobs
<1>4. Shape'
  BY <1>2, <1>3 DEF Shape
<1>5. StillAsWalked' \subseteq StillAsWalked
  BY <1>2 DEF Shape, StillAsWalked, AsWalked
<1>6. SweepInv'
  BY <1>5, OutsideSweep
<1> QED
  BY <1>3, <1>4, <1>6

\* Time and the request to stop change nothing the sweep has seen.
LEMMA AgeOrShutdownInv ==
  ASSUME GcInv, Age \/ Shutdown
  PROVE  GcInv'
<1> USE DEF GcInv, Age, Shutdown, sweepVars
<1>1. Shape'
  <2>1. CASE Age
    <3>1. horizon' \in 0..clock /\ cutoff \in 0..horizon'
      BY <2>1 DEF Shape
    <3> QED
      BY <2>1, <3>1 DEF Shape
  <2>2. CASE Shutdown
    BY <2>2 DEF Shape
  <2> QED
    BY <2>1, <2>2
<1>2. JobsInv'
  BY DEF JobsInv, Counted, KeptListed, Users, InFlight
<1>3. SweepInv'
  BY OutsideSweep DEF StillAsWalked, AsWalked
<1> QED
  BY <1>1, <1>2, <1>3

-----------------------------------------------------------------------------
(* The sweep. *)

\* The locals of a sweep that is over, or has not begun.
LEMMA RestKeeps ==
  ASSUME Rest, \A j \in Jobs : InFlight(j)' => ~job'[j].kept
  PROVE  KeptListed' /\ SweepInv'
<1>1. KeptListed'
  BY DEF KeptListed
<1>2. SweepInv'
  BY DEF Rest, SweepInv, Listed, PassedSpared, LeftCovers
<1> QED
  BY <1>1, <1>2

\* Before the loop begins no transfer is marked.
LEMMA NotKept ==
  ASSUME JobsInv, phase # "unlink", NEW j \in Jobs, InFlight(j)
  PROVE  job[j].kept # TRUE
BY DEF JobsInv, KeptListed

\* The walk starts with an empty list.
LEMMA SweepStartsInv ==
  ASSUME GcInv, SweepStarts
  PROVE  GcInv'
<1> USE DEF GcInv, SweepStarts
<1>1. Shape'
  BY DEF Shape
<1>2. JobsInv'
  BY DEF JobsInv, Counted, KeptListed, Users, InFlight
<1>3. Walked' = {}
  BY DEF Walked
<1>4. Bytes(Walked)' = 0
  BY <1>3, BytesFacts
<1>5. SweepInv'
  BY <1>3, <1>4 DEF SweepInv, Listed, PassedSpared, LeftCovers
<1> QED
  BY <1>1, <1>2, <1>5

\* A path the walk comes to adds the file it has then to the list and to the sum.
LEMMA WalkVisitsInv ==
  ASSUME GcInv, NEW p \in Paths, WalkVisits(p)
  PROVE  GcInv'
<1> USE DEF GcInv, WalkVisits
<1>1. p \in unseen /\ unseen' = unseen \ {p}
  OBVIOUS
<1>2. blocks' = [blocks EXCEPT ![p] = file[p]] /\ blocks[p] = None
  BY <1>1 DEF SweepInv, Listed, Walked
<1>3. Size[p] \in Nat
  BY GcAssumption
<1>4. Shape'
  BY <1>2, <1>3 DEF Shape
<1>5. JobsInv'
  BY DEF JobsInv, Counted, KeptListed, Users, InFlight
<1>6. Listed' /\ PassedSpared'
  BY <1>1, <1>2 DEF Listed, PassedSpared, Walked, Shape, SweepInv
<1>7. left' = Bytes(Walked)'
  <2>1. CASE Exists(p)
    <3>1. Walked' = Walked \cup {p} /\ p \notin Walked
      <4>1. file[p] # None /\ DOMAIN blocks = Paths
        BY <2>1 DEF Exists, Shape
      <4>2. \A q \in Paths : blocks'[q] = IF q = p THEN file[p] ELSE blocks[q]
        BY <1>2, <4>1
      <4> QED
        BY <1>2, <4>1, <4>2 DEF Walked
    <3>2. Bytes(Walked \cup {p}) = Bytes(Walked) + Size[p]
      BY <3>1, BytesAdd, Walked \in SUBSET Paths DEF Walked
    <3> QED
      BY <2>1, <3>1, <3>2 DEF SweepInv, LeftCovers
  <2>2. CASE ~Exists(p)
    <3>1. Walked' = Walked
      BY <1>2, <2>2 DEF Walked, Exists, Shape
    <3> QED
      BY <2>2, <3>1 DEF SweepInv, LeftCovers
  <2> QED
    BY <2>1, <2>2
<1>8. LeftCovers'
  BY <1>7 DEF LeftCovers
<1> QED
  BY <1>4, <1>5, <1>6, <1>8 DEF SweepInv

\* A tree under the cap ends the sweep.
LEMMA WalkUnderCapInv ==
  ASSUME GcInv, WalkUnderCap
  PROVE  GcInv'
<1> USE DEF GcInv, WalkUnderCap
<1>1. Shape'
  BY DEF Shape, Rest
<1>2. Counted'
  BY SameUsers DEF InFlight
<1>3. KeptListed' /\ SweepInv'
  BY RestKeeps, NotKept DEF InFlight
<1> QED
  BY <1>1, <1>2, <1>3 DEF JobsInv

\* The snapshot has the chunk of every transfer in flight, since its count is not
\* zero; the loop has the whole list before it.
LEMMA WalkOverCapInv ==
  ASSUME GcInv, WalkOverCap
  PROVE  GcInv'
<1> USE DEF GcInv, WalkOverCap
<1>1. \A j \in Jobs : /\ InFlight(j)' <=> InFlight(j)
                      /\ InFlight(j) => job'[j] \in Job /\ job'[j].path = job[j].path
  BY NoneAssumption DEF InFlight, Shape, Job
<1>2. Shape'
  <2>1. job' \in [Jobs -> Job \cup {None}]
    BY <1>1 DEF InFlight, Shape
  <2> QED
    BY <2>1 DEF Shape, Cutoff
<1>3. Counted'
  BY <1>1, SameUsers
<1>4. KeptListed'
  <2> SUFFICES ASSUME NEW j \in Jobs, InFlight(j)
               PROVE  job[j].path \in snapshot'
    BY <1>1 DEF KeptListed
  <2>1. PICK p \in Paths : p = job[j].path
    BY DEF InFlight, Shape, Job
  <2>2. j \in Users(p)
    BY <2>1 DEF Users
  <2>3. Cardinality(Users(p)) # 0
    BY <2>2, UsersFinite, FS_EmptySet
  <2>4. protected[p] > 0
    BY <2>3, UsersFinite DEF JobsInv, Counted
  <2> QED
    BY <2>1, <2>4
<1>5. queue' = Walked /\ Walked' = Walked
  BY DEF Walked
<1>6. Listed'
  BY <1>5 DEF Listed
<1>7. PassedSpared'
  BY <1>5 DEF PassedSpared, AsWalked, Walked
<1>8. LeftCovers'
  <2>1. (queue \cup StillAsWalked)' = Walked
    BY <1>5 DEF StillAsWalked, AsWalked, Walked
  <2>2. Bytes(queue \cup StillAsWalked)' = Bytes(Walked)
    BY <2>1
  <2>3. Walked \in SUBSET Paths
    BY DEF Walked
  <2>4. Bytes(Walked) \in Nat /\ Bytes(Walked) <= Bytes(Paths)
    BY <2>3, BytesFacts
  <2>5. left' = Bytes(Walked)
    BY DEF SweepInv, LeftCovers
  <2> QED
    BY <2>2, <2>4, <2>5 DEF LeftCovers
<1> QED
  BY <1>2, <1>3, <1>4, <1>6, <1>7, <1>8 DEF JobsInv, SweepInv

\* A spared file is left behind.
LEMMA SweepSkipsInv ==
  ASSUME GcInv, SweepSkips
  PROVE  GcInv'
<1> USE DEF GcInv, SweepSkips
<1>1. PICK p \in NextBlock : Spared(p) /\ queue' = queue \ {p}
  OBVIOUS
<1>2. p \in queue /\ p \in Paths
  BY DEF NextBlock, Shape
<1>3. Shape'
  BY <1>1 DEF Shape
<1>4. JobsInv'
  BY DEF JobsInv, Counted, KeptListed, Users, InFlight
<1>5. Listed'
  BY <1>1 DEF Listed, Walked, SweepInv
<1>6. PassedSpared'
  BY <1>1 DEF SweepInv, PassedSpared, AsWalked, Spared
<1>7. LeftCovers'
  <2> DEFINE S == StillAsWalked
  <2>1. S' = S
    BY DEF StillAsWalked, AsWalked
  <2>2. PICK Q : Q = queue'
    OBVIOUS
  <2>3. Q \cup S \in SUBSET (queue \cup S) /\ queue \cup S \in SUBSET Paths
    BY <1>1, <2>2 DEF Shape, StillAsWalked
  <2>4. Bytes(Q \cup S) <= Bytes(queue \cup S) /\ Bytes(Q \cup S) \in Nat
          /\ Bytes(queue \cup S) \in Nat
    BY <2>3, BytesFacts
  <2>5. Bytes(queue \cup S) <= left /\ left <= Bytes(Paths) /\ left \in Nat
    BY DEF SweepInv, LeftCovers, Shape
  <2>6. (queue \cup S)' = Q \cup S
    BY <2>1, <2>2
  <2>7. Bytes(queue \cup S)' = Bytes(Q \cup S)
    BY <2>6
  <2>8. Bytes(Q \cup S) <= left
    BY <2>4, <2>5
  <2> QED
    BY <2>5, <2>7, <2>8 DEF LeftCovers
<1> QED
  BY <1>3, <1>4, <1>5, <1>6, <1>7 DEF SweepInv

\* A file that is unlinked takes its bytes from the sum; one that is gone already
\* takes none, and had none in what the sum must cover.
LEMMA SweepUnlinksInv ==
  ASSUME GcInv, SweepUnlinks
  PROVE  GcInv'
<1> USE DEF GcInv, SweepUnlinks
<1>1. PICK p \in NextBlock :
        /\ ~Spared(p)
        /\ queue' = queue \ {p}
        /\ file' = [file EXCEPT ![p] = None]
        /\ left' = Freed(p)
  OBVIOUS
<1>2. p \in queue /\ p \in Paths
  BY DEF NextBlock, Shape
<1>3. Size[p] \in Nat /\ left \in Nat
  BY <1>2, GcAssumption DEF Shape
<1> DEFINE C == queue \cup StillAsWalked
<1>4. C \in SUBSET Paths /\ p \in C
  BY <1>2 DEF Shape, StillAsWalked
<1>5. Bytes(C) = Size[p] + Bytes(C \ {p}) /\ Bytes(C \ {p}) \in Nat
  BY <1>4, BytesFacts, C \ {p} \in SUBSET Paths
<1>6. Bytes(C) <= left /\ left <= Bytes(Paths) /\ Bytes(Paths) \in Nat
  BY BytesFacts DEF SweepInv, LeftCovers
<1>7. left' \in Nat /\ Bytes(C \ {p}) <= left' /\ left' <= Bytes(Paths)
  <2>1. left' = left - Size[p] \/ left' = left
    BY <1>1 DEF Freed
  <2> HIDE DEF C
  <2> QED
    BY <1>3, <1>5, <1>6, <2>1
<1>8. Shape'
  BY <1>1, <1>7 DEF Shape
<1>9. JobsInv'
  BY DEF JobsInv, Counted, KeptListed, Users, InFlight
<1>10. Listed'
  BY <1>1 DEF Listed, Walked, SweepInv
<1>11. StillAsWalked' \subseteq StillAsWalked \ {p}
  BY <1>1, <1>2 DEF StillAsWalked, AsWalked, Shape
<1>12. PassedSpared'
  <2> SUFFICES ASSUME NEW q \in Paths, AsWalked(q)', q \notin queue'
               PROVE  Spared(q)
    BY DEF PassedSpared, Spared
  <2>1. AsWalked(q) /\ q # p
    BY <1>11 DEF StillAsWalked
  <2> QED
    BY <1>1, <2>1 DEF SweepInv, PassedSpared
<1>13. LeftCovers'
  <2>1. PICK Q : Q = C'
    OBVIOUS
  <2>2. Q \in SUBSET (C \ {p})
    BY <1>1, <1>11, <2>1
  <2>3. C \ {p} \in SUBSET Paths /\ Q \in SUBSET Paths
    BY <1>4, <2>2
  <2>4. Bytes(Q) <= Bytes(C \ {p}) /\ Bytes(Q) \in Nat
    <3> HIDE DEF C
    <3> QED
      BY <2>2, <2>3, BytesFacts
  <2>5. Bytes(Q) <= left'
    <3> HIDE DEF C
    <3> QED
      BY <1>5, <1>7, <2>4
  <2>6. Bytes(queue \cup StillAsWalked)' = Bytes(Q)
    BY <2>1
  <2> QED
    BY <1>7, <2>5, <2>6 DEF LeftCovers
<1> QED
  BY <1>8, <1>9, <1>10, <1>12, <1>13 DEF SweepInv

\* The sweep is over; the marks of the transfers go with its snapshot.
LEMMA SweepEndsInv ==
  ASSUME GcInv, SweepEnds
  PROVE  GcInv'
<1> USE DEF GcInv, SweepEnds
<1>1. \A j \in Jobs : /\ InFlight(j)' <=> InFlight(j)
                      /\ InFlight(j) => /\ job'[j] \in Job
                                        /\ job'[j].path = job[j].path
                                        /\ job'[j].kept = FALSE
  BY NoneAssumption DEF InFlight, Shape, Job
<1>2. Shape'
  <2>1. job' \in [Jobs -> Job \cup {None}]
    BY <1>1 DEF InFlight, Shape
  <2> QED
    BY <2>1 DEF Shape, Rest
<1>3. Counted'
  BY <1>1, SameUsers
<1>4. KeptListed' /\ SweepInv'
  BY <1>1, RestKeeps
<1> QED
  BY <1>2, <1>3, <1>4 DEF JobsInv

\* A new process has no transfers, no counts and no sweep.
LEMMA RestartInv ==
  ASSUME GcInv, Restart
  PROVE  GcInv'
<1> USE DEF GcInv, Restart
<1>1. Shape'
  <2>1. job' \in [Jobs -> Job \cup {None}] /\ protected' \in [Paths -> Nat]
    OBVIOUS
  <2>2. left' \in Nat /\ cutoff' \in 0..horizon'
    BY DEF Shape, Rest
  <2>3. blocks' \in [Paths -> 0..clock' \cup {None}]
    BY DEF Rest
  <2> QED
    BY <2>1, <2>2, <2>3 DEF Shape, Rest
<1>2. \A p : Users(p)' = {}
  BY DEF Users, InFlight
<1>3. Counted'
  BY <1>2, FS_EmptySet DEF Counted
<1>4. KeptListed' /\ SweepInv'
  BY RestKeeps DEF InFlight
<1> QED
  BY <1>1, <1>3, <1>4 DEF JobsInv

-----------------------------------------------------------------------------

\* A process starts with whatever files there are.
LEMMA InitInv == Init => GcInv
<1> SUFFICES ASSUME Init
             PROVE  GcInv
  OBVIOUS
<1>1. Shape
  <2>1. file \in [Paths -> 0..clock \cup {None}] /\ blocks \in [Paths -> 0..clock \cup {None}]
    <3>1. 0 \in 0..clock
      BY DEF Init
    <3> QED
      BY <3>1 DEF Init
  <2>2. clock \in Nat /\ horizon \in 0..clock /\ cutoff \in 0..horizon /\ left \in Nat
    BY DEF Init
  <2>3. started \in 0..MaxJobs
    BY GcAssumption DEF Init
  <2> QED
    BY <2>1, <2>2, <2>3 DEF Init, Shape
<1>2. \A p : Users(p) = {}
  BY DEF Init, Users, InFlight
<1>3. JobsInv
  BY <1>2, FS_EmptySet DEF Init, JobsInv, Counted, KeptListed, InFlight
<1>4. SweepInv
  BY DEF Init, SweepInv, Listed, PassedSpared, LeftCovers
<1> QED
  BY <1>1, <1>3, <1>4 DEF GcInv

\* No step of any thread breaks it.
LEMMA NextInv == GcInv /\ [Next]_vars => GcInv'
<1> SUFFICES ASSUME GcInv, [Next]_vars
             PROVE  GcInv'
  OBVIOUS
<1>1. CASE \E j \in Jobs, kind \in {"store", "load"}, p \in Paths : StartJob(j, kind, p)
  BY <1>1, StartJobInv
<1>2. CASE \E j \in Jobs : Progress(j)
  BY <1>2, WriteChunkInv, ReadChunkInv, FailChunkInv, CompleteJobInv DEF Progress
<1>3. CASE Age \/ Shutdown
  BY <1>3, AgeOrShutdownInv
<1>4. CASE Sweep
  BY <1>4, SweepStartsInv, WalkVisitsInv, WalkUnderCapInv, WalkOverCapInv, SweepSkipsInv,
     SweepUnlinksInv, SweepEndsInv DEF Sweep
<1>5. CASE Restart
  BY <1>5, RestartInv
<1>6. CASE UNCHANGED vars
  BY <1>6 DEF vars, sweepVars, GcInv, Shape, JobsInv, SweepInv, Counted, KeptListed, Listed,
       PassedSpared, LeftCovers, Users, Walked, InFlight, StillAsWalked, AsWalked, Spared
<1> QED
  BY <1>1, <1>2, <1>3, <1>4, <1>5, <1>6 DEF Next

\* What a sweep remembers stays tied to the files and the jobs, whatever the other
\* threads do meanwhile.
THEOREM Invariance == Spec => []GcInv
BY InitInv, NextInv, PTL DEF Spec

-----------------------------------------------------------------------------
(* The properties of GdsGcManager. *)

\* The variables keep their types: a count never exceeds the jobs there are, and what
\* a sweep takes from its sum never brings it below zero.
THEOREM TypeCorrect == Spec => []TypeOK
<1>1. GcInv => TypeOK
  <2> SUFFICES ASSUME GcInv
               PROVE  TypeOK
    OBVIOUS
  <2>1. protected \in [Paths -> 0..Cardinality(Jobs)]
    <3> SUFFICES ASSUME NEW p \in Paths
                 PROVE  protected[p] \in 0..Cardinality(Jobs)
      BY DEF GcInv, Shape
    <3>1. Users(p) \in SUBSET Jobs
      BY DEF Users
    <3>2. Cardinality(Users(p)) <= Cardinality(Jobs) /\ Cardinality(Jobs) \in Nat
      BY <3>1, GcAssumption, FS_Subset, FS_CardinalityType
    <3> QED
      BY <3>2, UsersFinite DEF GcInv, JobsInv, Counted
  <2>2. left \in 0..Bytes(Paths)
    <3>1. Walked \in SUBSET Paths
      BY DEF Walked
    <3>2. Bytes(Paths) \in Nat /\ Bytes(Walked) <= Bytes(Paths) /\ left \in Nat
      BY <3>1, BytesFacts DEF GcInv, Shape
    <3> QED
      BY <3>2 DEF GcInv, Shape, SweepInv, LeftCovers
  <2> QED
    BY <2>1, <2>2 DEF GcInv, Shape, TypeOK
<1> QED
  BY <1>1, Invariance, PTL

\* Only the loop of the sweep unlinks in the sense of the properties, and it does
\* so to the head of its queue, which is not spared.
LEMMA UnlinkedBySweep ==
  ASSUME GcInv, [Next]_vars, NEW p \in Paths, Unlinked(p)
  PROVE  p \in NextBlock /\ ~Spared(p)
<1> USE DEF Unlinked
<1>1. file' # file /\ queue' # queue /\ phase = "unlink"
  BY DEF Exists
<1>2. SweepUnlinks
  BY <1>1 DEF Next, Progress, Sweep, StartJob, WriteChunk, ReadChunk, FailChunk, CompleteJob, Age,
     SweepStarts, WalkVisits, WalkUnderCap, WalkOverCap, SweepSkips, SweepEnds, Shutdown,
     Restart, vars, sweepVars
<1>3. PICK q \in NextBlock : ~Spared(q) /\ file' = [file EXCEPT ![q] = None]
  BY <1>2 DEF SweepUnlinks
<1>4. q = p
  BY <1>3 DEF Exists, GcInv, Shape
<1> QED
  BY <1>3, <1>4

\* protect() holds until every job that asked for it has released: a sweep never
\* unlinks a chunk under a job that was in flight when it copied the counts.
THEOREM JobsAreSpared == Spec => JobsSpared
<1>1. GcInv /\ [Next]_vars =>
        [\A p \in Paths : Unlinked(p) =>
           \A j \in Jobs : InFlight(j) /\ job[j].path = p => ~job[j].kept]_vars
  <2> SUFFICES ASSUME GcInv, [Next]_vars, NEW p \in Paths, Unlinked(p),
                      NEW j \in Jobs, InFlight(j), job[j].path = p
               PROVE  ~job[j].kept
    OBVIOUS
  <2>1. p \notin snapshot
    BY UnlinkedBySweep DEF Spared
  <2> QED
    BY <2>1 DEF GcInv, JobsInv, KeptListed
<1> QED
  BY <1>1, Invariance, PTL DEF Spec, JobsSpared

\* Chunks go in the order of their last write: a file of the list that is still as the
\* walk saw it and older than the one unlinked is spared.
THEOREM OldestGoFirst == Spec => OldestFirst
<1>1. GcInv /\ [Next]_vars =>
        [\A p, q \in Paths :
           Unlinked(p) /\ AsWalked(q) /\ blocks[q] < blocks[p] => Spared(q)]_vars
  <2> SUFFICES ASSUME GcInv, [Next]_vars, NEW p \in Paths, NEW q \in Paths,
                      Unlinked(p), AsWalked(q), blocks[q] < blocks[p]
               PROVE  Spared(q)
    OBVIOUS
  <2>1. phase = "unlink" /\ p \in NextBlock
    BY UnlinkedBySweep DEF Unlinked
  <2>2. CASE q \in queue
    <3>1. blocks[p] <= blocks[q]
      BY <2>1, <2>2 DEF NextBlock
    <3>2. blocks[p] \in Nat /\ blocks[q] \in Nat
      BY <2>1, <2>2 DEF NextBlock, GcInv, Shape, SweepInv, Listed, Walked
    <3> QED
      BY <3>1, <3>2
  <2>3. CASE q \notin queue
    BY <2>1, <2>3 DEF GcInv, SweepInv, PassedSpared
  <2> QED
    BY <2>2, <2>3
<1> QED
  BY <1>1, Invariance, PTL DEF Spec, OldestFirst

\* "exceeding the cap is pressed back": a sweep over the cap ends with what it walked
\* down to the low watermark, or with nothing there that it may remove.
THEOREM EnoughIsFreed == Spec => EnoughFreed
<1>1. GcInv /\ [Next]_vars =>
        [phase = "unlink" /\ phase' = "wait" /\ stopped' = stopped =>
           \/ Bytes(StillAsWalked) <= TargetBytes
           \/ \A p \in StillAsWalked : Spared(p)]_vars
  <2> SUFFICES ASSUME GcInv, [Next]_vars, phase = "unlink", phase' = "wait", stopped' = stopped
               PROVE  \/ Bytes(StillAsWalked) <= TargetBytes
                      \/ \A p \in StillAsWalked : Spared(p)
    OBVIOUS
  <2>1. Enough
    BY DEF Next, Progress, Sweep, StartJob, WriteChunk, ReadChunk, FailChunk, CompleteJob, Age,
     SweepStarts, WalkVisits, WalkUnderCap, WalkOverCap, SweepSkips, SweepUnlinks, SweepEnds,
     Shutdown, Restart, vars, sweepVars
  <2>2. CASE queue = {}
    BY <2>2 DEF GcInv, SweepInv, PassedSpared, StillAsWalked
  <2>3. CASE left <= TargetBytes
    <3>1. queue \cup StillAsWalked \in SUBSET Paths
      BY DEF GcInv, Shape, StillAsWalked
    <3>2. /\ Bytes(StillAsWalked) <= Bytes(queue \cup StillAsWalked)
          /\ Bytes(StillAsWalked) \in Nat /\ Bytes(queue \cup StillAsWalked) \in Nat
      BY <3>1, BytesFacts
    <3>3. Bytes(queue \cup StillAsWalked) <= left /\ left \in Nat
      BY DEF GcInv, Shape, SweepInv, LeftCovers
    <3>4. TargetBytes \in Int
      BY GcAssumption DEF TargetBytes
    <3> QED
      BY <2>3, <3>2, <3>3, <3>4
  <2> QED
    BY <2>1, <2>2, <2>3 DEF Enough
<1> QED
  BY <1>1, Invariance, PTL DEF Spec, EnoughFreed
=============================================================================
