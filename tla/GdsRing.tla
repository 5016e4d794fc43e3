-------------------------------- MODULE GdsRing --------------------------------
(***************************************************************************)
(* The device ring and the layout of chunks in it: get_pool and            *)
(* _register_ring of gds_direct_v1/pkg/gds/cufile_io.py, and _plan_job,    *)
(* _validate_item and _issue_item_copy of spec.py.  A job names ranges of  *)
(* KV blocks and chunk files; the plan cuts it into one item per file, a   *)
(* set of copies between GPU pages and the slot the item is given.  Copies *)
(* and cuFile IO address the slot in two ways, which have to agree in every*)
(* registration mode and with what an earlier process wrote.               *)
(*                                                                         *)
(* Queues, retries and failures are GdsOffloadingWorker's: here the items  *)
(* of a job take their steps in any order, and each step succeeds.         *)
(*                                                                         *)
(* A definition named Mut... is a plausible bug in the definition after    *)
(* it; TLC finds a property violated once it takes that one's place.       *)
(***************************************************************************)
EXTENDS Integers, FiniteSets, SequencesExt, Functions

CONSTANTS
  Refs,            \* for each group, the page sizes of its references
  BlocksPerChunk,
  Align,           \* the 4096 of pad4k
  Depth,           \* ring_depth
  NumChunks,       \* bound: chunks of the prefix in each group
  NumPages,        \* pages of a KV cache tensor
  Tables,          \* block tables of requests: a page for each block, by group
  Junk,            \* any byte that is not the right one
  None

Groups == DOMAIN Refs
Slots == 0..Depth - 1
Chunks == 0..NumChunks - 1
Blocks == 0..NumChunks * BlocksPerChunk - 1
Pages == 0..NumPages - 1
GpuPages == UNION {{g} \X (DOMAIN Refs[g]) \X Pages : g \in Groups}
PageBytes(g, r) == 0..Refs[g][r] - 1

ASSUME RingAssumption ==
  /\ Refs \in Seq(Seq(Nat \ {0})) /\ Refs # <<>> /\ \A g \in Groups : Refs[g] # <<>>
  /\ {BlocksPerChunk, Align, Depth, NumChunks} \subseteq Nat \ {0}
  /\ NumPages \in Nat
  /\ Tables \subseteq [Groups -> [Blocks -> Pages]]
  /\ \A t \in Tables : \A g \in Groups : IsInjective(t[g])

-----------------------------------------------------------------------------
(* Sizes. *)

Pad(n) == ((n + Align - 1) \div Align) * Align
GroupChunkBytes(g) == SumFunction(Refs[g]) * BlocksPerChunk
SlotPad(g) == Pad(GroupChunkBytes(g))
SlotBytes == Pad(Max({GroupChunkBytes(g) : g \in Groups}))
RingBytes == Depth * SlotBytes

VARIABLES
  mode,        \* of the pool singleton, or "none"
  registered,  \* ranges of the ring known to cuFile, <<first byte, bytes>>
  pool,        \* what the workers of this process have done with the singleton
  ring,        \* its bytes
  files,       \* bytes of each chunk file, or None
  gpu,         \* bytes of each GPU page
  job          \* the job in flight, with its plan, or None

vars == <<mode, registered, pool, ring, files, gpu, job>>

\* serving: the worker that is given jobs has not been shut down.
\* shared: get_pool has handed the singleton out to a second worker.
\* shut: some worker has shut the pool down.
Uses == [serving : BOOLEAN, shared : BOOLEAN, shut : BOOLEAN]
NoUse == [serving |-> FALSE, shared |-> FALSE, shut |-> FALSE]

\* What the model puts at byte i of block b for reference r of group g.
Kv(g, r, b) == [i \in PageBytes(g, r) |-> <<g, r, b, i>>]
JunkPages == [x \in GpuPages |-> [i \in PageBytes(x[1], x[2]) |-> Junk]]

Init ==
  /\ mode = "none" /\ registered = {} /\ pool = NoUse
  /\ ring = [x \in 0..RingBytes - 1 |-> Junk]
  /\ files = [f \in Groups \X Chunks |-> None]
  /\ gpu = JunkPages
  /\ job = None

-----------------------------------------------------------------------------
(* Registration.  cuFileBufRegister may fail for the whole ring and for any *)
(* slot; what it left behind is deregistered.                              *)

FullRing == {<<0, RingBytes>>}
SlotRange(s) == <<s * (RingBytes \div Depth), RingBytes \div Depth>>

ModeWith(done) == IF done = Slots THEN "per_slot" ELSE "compat"

\* The first get_pool().
GetPool ==
  /\ mode = "none"
  /\ pool' = [pool EXCEPT !.serving = TRUE]
  /\ \/ mode' = "full" /\ registered' = FullRing
     \/ \E done \in SUBSET Slots :
          mode' = ModeWith(done) /\ registered' = {SlotRange(s) : s \in done}
  /\ UNCHANGED <<ring, files, gpu, job>>

\* A later get_pool(): the singleton as it is, also after a shutdown.  A worker
\* that takes over from one that was shut down has queues and slots of its own;
\* next to one that serves it is left without jobs.
GetPoolAgain ==
  /\ mode # "none"
  /\ pool' = [pool EXCEPT !.serving = TRUE, !.shared = TRUE]
  /\ IF pool.serving THEN UNCHANGED <<ring, gpu, job>>
     ELSE ring' = [x \in DOMAIN ring |-> Junk] /\ gpu' = JunkPages /\ job' = None
  /\ UNCHANGED <<mode, registered, files>>

\* (buf_base, dev_offset) of a slot.
BufArgs(s) ==
  LET off == s * (RingBytes \div Depth)
  IN IF mode = "full" THEN [base |-> 0, off |-> off] ELSE [base |-> off, off |-> 0]

MutIoByte(it, i) == it.slot * SlotPad(it.group) + i

\* Where the cuFile IO of an item finds byte i of the chunk file.
IoByte(it, i) == BufArgs(it.slot).base + BufArgs(it.slot).off + i

\* Where its copies find byte i of the slot.
CopyByte(it, i) == it.slot * SlotBytes + i

-----------------------------------------------------------------------------
(* _plan_job.  A request q asks for the blocks from[g] to to[g] - 1 of each *)
(* group; the connector passes it as sizes, first indices and page ids, and*)
(* the files of the chunks it touches.                                      *)

GroupSize(q, g) == q.to[g] - q.from[g]
BlockIndex(q, g) == q.from[g]
BlockIds(q) ==
  FlattenSeq([g \in Groups |->
    [j \in 1..GroupSize(q, g) |-> q.table[g][q.from[g] + j - 1]]])

FirstChunk(q, g) == q.from[g] \div BlocksPerChunk
Touched(q, g) ==
  IF GroupSize(q, g) = 0 THEN 0 ELSE (q.to[g] - 1) \div BlocksPerChunk - FirstChunk(q, g) + 1
Paths(q) ==
  FlattenSeq([g \in Groups |-> [c \in 1..Touched(q, g) |-> <<g, FirstChunk(q, g) + c - 1>>]])

Skip(q, g) == BlockIndex(q, g) % BlocksPerChunk
PlannedChunks(q, g) == (GroupSize(q, g) + Skip(q, g)) \div BlocksPerChunk
Lo(q, g, c) == Max({0, c * BlocksPerChunk - Skip(q, g)})
Hi(q, g, c) == Min({GroupSize(q, g), (c + 1) * BlocksPerChunk - Skip(q, g)})

MutOff(q, g) == 0

\* Page ids before those of group g: off in bids_all[off : off + n_g].
Off(q, g) == SumFunctionOnSet([h \in Groups |-> GroupSize(q, h)], 1..g - 1)

MutRel(q, g, c, j) == j - c * BlocksPerChunk

\* The chunk-file-relative index of block j of the group.
Rel(q, g, c, j) == Skip(q, g) + j - c * BlocksPerChunk

\* The copies of chunk c of the group (it has at least one: Skip is less than
\* BlocksPerChunk).  offs is Rel times the page size of the reference alone.
Copies(q, g, c) ==
  {[ref |-> r, page |-> BlockIds(q)[Off(q, g) + j + 1],
    off |-> Rel(q, g, c, j) * Refs[g][r], size |-> Refs[g][r]] :
     j \in Lo(q, g, c)..Hi(q, g, c) - 1, r \in DOMAIN Refs[g]}

\* The items of a job, in the order of its paths.
Plan(q) ==
  FlattenSeq([g \in Groups |->
    [c \in 1..PlannedChunks(q, g) |->
      [group |-> g, copies |-> Copies(q, g, c - 1), stage |-> "queued", slot |-> None]]])

\* _validate_item accepts the copy.
Valid(op) ==
  /\ op.size > 0 /\ op.off >= 0 /\ op.off + op.size <= SlotBytes
  /\ op.page \in Pages

-----------------------------------------------------------------------------
(* Jobs. *)

Open == pool.serving

NewJob(q, store) == job' = [store |-> store, q |-> q, items |-> Plan(q)]

\* The blocks of a request, in their pages.
InPages(q) ==
  [x \in GpuPages |->
    LET here == {b \in q.from[x[1]]..q.to[x[1]] - 1 : q.table[x[1]][b] = x[3]}
    IN IF here = {} THEN JunkPages[x] ELSE Kv(x[1], x[2], CHOOSE b \in here : TRUE)]

\* Requests end at the end of a chunk: full chunks are offloaded, and a hit is a
\* number of full chunks.  A group may take no part in the job.
Requests(starts, ends) ==
  {q \in [from : [Groups -> starts], to : [Groups -> ends], table : Tables] :
     /\ \A g \in Groups : q.from[g] <= q.to[g]
     /\ \E g \in Groups : q.from[g] < q.to[g]}

ChunkEnds == {c * BlocksPerChunk : c \in Chunks \cup {NumChunks}}
Asked == Requests(Blocks \cup ChunkEnds, ChunkEnds)

Copy == [ref : Nat, page : Pages, off : Nat, size : Nat]
Stages == {"queued", "io", "read", "done"}
Item == [group : Groups, copies : SUBSET Copy, stage : Stages, slot : Slots \cup {None}]
Job == [store : BOOLEAN, q : Asked, items : Seq(Item)]

ASSUME NoneAssumption == None \notin Job

\* A store starts at a chunk, too, with the blocks the engine has computed.
SubmitStore(q) ==
  /\ Open /\ job = None
  /\ NewJob(q, TRUE)
  /\ gpu' = InPages(q)
  /\ UNCHANGED <<mode, registered, pool, ring, files>>

\* A load starts where the engine's own prefix ends, inside a chunk or not.
SubmitLoad(q) ==
  /\ Open /\ job = None
  /\ \A p \in ToSet(Paths(q)) : files[p] # None
  /\ NewJob(q, FALSE)
  /\ UNCHANGED <<mode, registered, pool, ring, files, gpu>>

Holding(s) == job # None /\ \E p \in DOMAIN job.items : job.items[p].slot = s
At(p, stage) == job # None /\ p \in DOMAIN job.items /\ job.items[p].stage = stage
SetItem(p, stage, s) ==
  job' = [job EXCEPT !.items[p].stage = stage, !.items[p].slot = s]

\* An item that would be refused goes no further here; PlanMatches says that the plan
\* has none, and GdsOffloadingWorker models what becomes of one.
Refused(p) == \E op \in job.items[p].copies : ~Valid(op)

\* A slot that is given back holds stale bytes, Junk to whoever is next.
ClearSlot(s) == [x \in DOMAIN ring |-> IF x \div SlotBytes = s THEN Junk ELSE ring[x]]

\* The copies that write byte o of the slot.
Hits(it, o) == {op \in it.copies : op.off <= o /\ o < op.off + op.size}
Filled(it) == {o \in 0..SlotBytes - 1 : Hits(it, o) # {}}

\* The copies of a batch are not ordered: any that writes a byte may be the last.
Gather(p) ==
  /\ Open /\ At(p, "queued") /\ job.store /\ ~Refused(p)
  /\ \E s \in Slots :
       LET it == [job.items[p] EXCEPT !.slot = s] IN
         /\ ~Holding(s)
         /\ \E last \in [Filled(it) -> it.copies] :
              /\ \A o \in Filled(it) : last[o] \in Hits(it, o)
              /\ ring' = [x \in DOMAIN ring |->
                            IF \E o \in Filled(it) : CopyByte(it, o) = x
                            THEN LET o == x - CopyByte(it, 0)
                                     op == last[o]
                                 IN gpu[<<it.group, op.ref, op.page>>][o - op.off]
                            ELSE ring[x]]
         /\ SetItem(p, "io", s)
  /\ UNCHANGED <<mode, registered, pool, files, gpu>>

\* cuFileWrite of the slot, padding included.
Write(p) ==
  /\ At(p, "io") /\ job.store
  /\ LET it == job.items[p] IN
       /\ files' = [files EXCEPT ![Paths(job.q)[p]] =
                      [i \in 0..SlotPad(it.group) - 1 |-> ring[IoByte(it, i)]]]
       /\ ring' = ClearSlot(it.slot)
  /\ SetItem(p, "done", None)
  /\ UNCHANGED <<mode, registered, pool, gpu>>

StartRead(p) ==
  /\ Open /\ At(p, "queued") /\ ~job.store
  /\ \E s \in Slots : ~Holding(s) /\ SetItem(p, "io", s)
  /\ UNCHANGED <<mode, registered, pool, ring, files, gpu>>

Read(p) ==
  /\ At(p, "io") /\ ~job.store
  /\ LET it == job.items[p]
         bytes == files[Paths(job.q)[p]]
         Window == {IoByte(it, i) : i \in DOMAIN bytes}
     IN ring' = [x \in DOMAIN ring |-> IF x \in Window THEN bytes[x - IoByte(it, 0)] ELSE ring[x]]
  /\ job' = [job EXCEPT !.items[p].stage = "read"]
  /\ UNCHANGED <<mode, registered, pool, files, gpu>>

Scatter(p) ==
  /\ At(p, "read") /\ ~Refused(p)
  /\ LET it == job.items[p] IN
       /\ gpu' = [x \in GpuPages |->
            LET mine == {op \in it.copies : x = <<it.group, op.ref, op.page>>}
            IN IF mine = {} THEN gpu[x]
               ELSE LET op == CHOOSE o \in mine : TRUE
                    IN [i \in DOMAIN gpu[x] |-> ring[CopyByte(it, op.off + i)]]]
       /\ ring' = ClearSlot(it.slot)
  /\ SetItem(p, "done", None)
  /\ UNCHANGED <<mode, registered, pool, files>>

AllDone == job # None /\ \A p \in DOMAIN job.items : At(p, "done")

\* The request goes on, and its pages are reused.
JobEnds ==
  /\ AllDone
  /\ job' = None /\ gpu' = JunkPages
  /\ UNCHANGED <<mode, registered, pool, ring, files>>

-----------------------------------------------------------------------------
(* Shutdown and restart. *)

MutIoDrained == TRUE

\* executor.shutdown(wait=True), before the pool is shut down: what was submitted
\* ends, and a later submit raises.
IoDrained == job # None => \A p \in DOMAIN job.items : ~At(p, "io")

Deregistered ==
  CASE mode = "full" -> FullRing
    [] mode = "per_slot" -> {SlotRange(s) : s \in Slots}
    [] OTHER -> {}

\* shutdown() of a worker with the singleton, which stays, with its mode, for the
\* next one.
ShutPool ==
  /\ registered' = registered \ Deregistered
  /\ UNCHANGED <<mode, ring, files, gpu, job>>

Shutdown ==
  /\ Open /\ IoDrained
  /\ pool' = [pool EXCEPT !.serving = FALSE, !.shut = TRUE]
  /\ ShutPool

\* The shutdown of a worker next to the one that is given the jobs.
OtherShutdown ==
  /\ pool.shared
  /\ pool' = [pool EXCEPT !.shut = TRUE]
  /\ ShutPool

\* The process is gone, after a shutdown or in a crash; the files stay.
Restart ==
  /\ mode # "none"
  /\ mode' = "none" /\ registered' = {} /\ pool' = NoUse
  /\ ring' = [x \in DOMAIN ring |-> Junk] /\ gpu' = JunkPages
  /\ job' = None
  /\ UNCHANGED files

Steps(p) == Gather(p) \/ Write(p) \/ StartRead(p) \/ Read(p) \/ Scatter(p)

Next ==
  \/ GetPool \/ GetPoolAgain
  \/ \E q \in Requests(ChunkEnds, ChunkEnds) : SubmitStore(q)
  \/ \E q \in Asked : SubmitLoad(q)
  \/ \E p \in 1..Cardinality(Groups \X Chunks) : Steps(p)
  \/ JobEnds
  \/ Shutdown \/ OtherShutdown
  \/ Restart

Spec == Init /\ [][Next]_vars

-----------------------------------------------------------------------------
(* Properties. *)

Bytes == {Junk} \cup UNION {{<<x[1], x[2], b, i>> : b \in Blocks, i \in PageBytes(x[1], x[2])} :
                             x \in GpuPages}

\* The type invariant; no offset is negative, and a window is inside the ring.
TypeOK ==
  /\ mode \in {"none", "full", "per_slot", "compat"} /\ pool \in Uses
  /\ registered \subseteq Nat \X Nat
  /\ ring \in [0..RingBytes - 1 -> Bytes]
  /\ \A f \in Groups \X Chunks :
       files[f] # None => files[f] \in [0..SlotPad(f[1]) - 1 -> Bytes]
  /\ DOMAIN gpu = GpuPages
  /\ \A x \in GpuPages : gpu[x] \in [PageBytes(x[1], x[2]) -> Bytes]
  /\ job \in Job \cup {None}

\* The copies of chunk c of group g that a request wants.
Here(q, g, c) == {b \in q.from[g]..q.to[g] - 1 : b \div BlocksPerChunk = c}
CopyOf(q, g, b, r) ==
  [ref |-> r, page |-> q.table[g][b], off |-> (b % BlocksPerChunk) * Refs[g][r], size |-> Refs[g][r]]
Wanted(q, g, c) == {CopyOf(q, g, b, r) : b \in Here(q, g, c), r \in DOMAIN Refs[g]}

\* The plan of a job is what the request says: one item for each file, and block b is
\* copied at b mod BlocksPerChunk of the file of chunk b div BlocksPerChunk,
\* from its own page, whatever the group starts with; _validate_item agrees.
PlanMatches ==
  job # None =>
    /\ Len(job.items) = Len(Paths(job.q))
    /\ \A p \in DOMAIN job.items :
         LET it == job.items[p]
             g == Paths(job.q)[p][1]
             c == Paths(job.q)[p][2]
         IN it.group = g /\ it.copies = Wanted(job.q, g, c) /\ ~Refused(p)

\* A load brings back, into the pages it names and no others, the blocks that were
\* stored from other pages, at other chunk boundaries, in other slots, by this
\* process or one with another registration mode.
RoundTrip == AllDone /\ ~job.store => gpu = InPages(job.q)

\* A range that cuFile is given is inside the registered buffer it names.
Registers(p) ==
  LET it == job.items[p]
      w == BufArgs(it.slot)
  IN \E range \in registered : range[1] = w.base /\ w.off + SlotPad(it.group) <= range[2]

\* "honoring the registration mode": unless the mode is compat, cuFile is never
\* given anything else, and the ring stays registered until the last IO has ended.
\* It is so for every worker that get_pool() hands the pool to, up to the shutdown
\* of one of several: that deregisters the ring for the others too, and nothing
\* holds from then on.
WindowRegistered ==
  \A p \in 1..Cardinality(Groups \X Chunks) :
    At(p, "io") /\ mode # "compat" /\ ~(pool.shared /\ pool.shut) => Registers(p)

\* "each file holds blocks_per_chunk logical blocks": every byte of every block
\* of a chunk is in its file.
ChunkHoldsBlocks ==
  \A g \in Groups, c \in Chunks :
    files[<<g, c>>] # None =>
      \A r \in DOMAIN Refs[g], b \in Blocks :
        b \div BlocksPerChunk = c =>
          {Kv(g, r, b)[i] : i \in PageBytes(g, r)} \subseteq
            {files[<<g, c>>][i] : i \in DOMAIN files[<<g, c>>]}
=============================================================================
