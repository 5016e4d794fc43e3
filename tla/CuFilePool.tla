----------------------------- MODULE CuFilePool ------------------------------
(***************************************************************************)
(* class CuFilePool of gds_direct_v1/pkg/gds/cufile_io.py: the IO threads  *)
(* of the worker read and write whole chunk files through a shared LRU     *)
(* cache of open handles.  self._lock covers one cache operation at a      *)
(* time, so opens, IO, closes and unlinks of different threads interleave. *)
(*                                                                         *)
(* Files have identity: an unlinked file lives on as long as a handle is   *)
(* open on it, and a path may name a new file by then.                     *)
(*                                                                         *)
(* A definition named Mut... is a plausible bug in the definition after    *)
(* it; TLC finds a property violated once it takes that one's place.       *)
(***************************************************************************)
EXTENDS Naturals, FiniteSets, SequencesExt, Lists

CONSTANTS
  Threads,    \* IO threads: max_io_threads = 8 in the code
  Paths,      \* chunk files
  CacheMax,   \* HANDLE_CACHE_MAX = 4096 in the code
  MaxFaults,  \* bound: transient failures of the OS or of cuFile in one process
  None

\* Identities for the entries that are cached or held, and for the files that
\* have a name or an open entry; neither ever runs out.
Entries == 1..(CacheMax + 2 * Cardinality(Threads))
Inodes == 1..(CacheMax + 2 * Cardinality(Threads) + Cardinality(Paths))

ASSUME PoolAssumption ==
  /\ IsFiniteSet(Threads) /\ IsFiniteSet(Paths)
  /\ CacheMax \in Nat \ {0} /\ MaxFaults \in Nat
  /\ None \notin Entries \cup Inodes

VARIABLES
  pc,       \* where a thread is in write_slot or read_slot
  op,       \* its operation: kind, path, attempt
  ent,      \* its local entry
  handles,  \* self._handles: entries, least recently used first
  entry,    \* path and refs of an entry, its file, and whether it is open
  disk,     \* the file each path names
  content,  \* what a file holds
  faults,   \* transient failures of this process so far
  \* History, which no guard reads:
  mixed,    \* paths on which a write and another operation have overlapped
  spoilt    \* paths that may be left with an empty file, see NoGhostFile

fsVars == <<disk, content>>
auxVars == <<mixed, spoilt>>
vars == <<pc, op, ent, handles, entry, fsVars, faults, auxVars>>

PCs == {"idle", "get", "open", "insert", "io", "drop", "unlink", "release"}
Op == [kind : {"write", "read"}, path : Paths, attempt : {0, 1}]
Entry == [path : Paths, inode : Inodes, refs : Nat, open : BOOLEAN]
Contents == {"empty", "partial", "whole"}

ASSUME NoneAssumption == None \notin Op \cup Entry

Least(S) == CHOOSE n \in S : \A m \in S : n <= m
IsOpen(e) == entry[e].open
Cached(p) == {e \in ToSet(handles) : entry[e].path = p}
\* A thread holds its entry from _get_handle to _release_handle or _drop_handle.
Holders(e) == {t \in Threads : pc[t] \in {"io", "drop", "release"} /\ ent[t] = e}
InUse(p) == {t \in Threads : pc[t] # "idle" /\ op[t].path = p}
HasFile(p, what) == disk[p] # None /\ content[disk[p]] = what

\* The files were left by an earlier run, which may have died after it created a
\* file or in a write.
Init ==
  /\ pc = [t \in Threads |-> "idle"]
  /\ op = [t \in Threads |-> None]
  /\ ent = [t \in Threads |-> None]
  /\ handles = <<>>
  /\ entry = [e \in Entries |-> None]
  /\ disk \in [Paths -> 1..Cardinality(Paths) \cup {None}]
  /\ \A p, q \in Paths : disk[p] = disk[q] /\ disk[p] # None => p = q
  /\ content \in [Inodes -> Contents]
  /\ \A n \in Inodes : n \notin Range(disk) => content[n] = "empty"
  /\ faults = 0
  /\ mixed = {} /\ spoilt = {p \in Paths : HasFile(p, "empty")}

Goto(t, next) == pc' = [pc EXCEPT ![t] = next]
Fault == faults < MaxFaults /\ faults' = faults + 1

\* The entries, names and contents after a step, without what nothing refers
\* to any more.  An entry that is dropped without a close leaves its descriptor
\* open for good (fd is a plain int); nothing here depends on how many are.
Settle(ents, names, data) ==
  LET reached == ToSet(handles') \cup {ent'[t] : t \in Threads}
      gone == {e \in Entries \ reached : ents[e] # None}
      used == Range(names) \cup {ents[e].inode : e \in reached \ {None}}
  IN /\ entry' = [e \in Entries |-> IF e \in gone THEN None ELSE ents[e]]
     /\ disk' = names
     /\ content' = [n \in Inodes |-> IF n \in used THEN data[n] ELSE "empty"]

MutFailAtOnce(t) ==
  /\ ent' = [ent EXCEPT ![t] = None]
  /\ Goto(t, "unlink")
  /\ UNCHANGED op

\* The except clause of write_slot and read_slot: a first failing read tries
\* again, any other failure unlinks the path.  The local entry is None here.
Fail(t) ==
  /\ ent' = [ent EXCEPT ![t] = None]
  /\ IF op[t].kind = "read" /\ op[t].attempt = 0
     THEN /\ op' = [op EXCEPT ![t].attempt = 1]
          /\ Goto(t, "get")
     ELSE /\ Goto(t, "unlink")
          /\ UNCHANGED op

\* The operation returns.
Return(t) ==
  /\ op' = [op EXCEPT ![t] = None]
  /\ ent' = [ent EXCEPT ![t] = None]
  /\ Goto(t, "idle")

-----------------------------------------------------------------------------
(* write_slot(path) or read_slot(path) is called.  The manager keeps the   *)
(* transfers of a chunk apart, but reset_cache() may run at any time and   *)
(* makes it forget those in flight: any operations may overlap on a path.  *)

Begin(t, kind, p) ==
  /\ pc[t] = "idle"
  /\ op' = [op EXCEPT ![t] = [kind |-> kind, path |-> p, attempt |-> 0]]
  /\ Goto(t, "get")
  /\ mixed' = IF \E u \in InUse(p) : "write" \in {kind, op[u].kind} THEN mixed \cup {p} ELSE mixed
  /\ UNCHANGED <<ent, handles, entry, fsVars, faults, spoilt>>

-----------------------------------------------------------------------------
(* _get_handle *)

MutCacheHitNoHold(t) ==
  /\ pc[t] = "get"
  /\ \E e \in Cached(op[t].path) :
       /\ handles' = Append(Without(handles, {e}), e)
       /\ ent' = [ent EXCEPT ![t] = e]
  /\ Goto(t, "io")
  /\ UNCHANGED <<op, entry, fsVars, faults, auxVars>>

\* Hit: move the entry to the MRU end and hold it.
CacheHit(t) ==
  /\ pc[t] = "get"
  /\ \E e \in Cached(op[t].path) :
       /\ handles' = Append(Without(handles, {e}), e)
       /\ entry' = [entry EXCEPT ![e].refs = @ + 1]
       /\ ent' = [ent EXCEPT ![t] = e]
  /\ Goto(t, "io")
  /\ UNCHANGED <<op, fsVars, faults, auxVars>>

CacheMiss(t) ==
  /\ pc[t] = "get" /\ Cached(op[t].path) = {}
  /\ Goto(t, "open")
  /\ UNCHANGED <<op, ent, handles, entry, fsVars, faults, auxVars>>

\* os.open(path, O_CREAT): the file the path names, an empty one if it has none.
Opened(p) ==
  IF disk[p] # None THEN disk[p]
  ELSE Least(Inodes \ (Range(disk) \cup {entry[e].inode : e \in {f \in Entries : entry[f] # None}}))

\* Open and cuFileHandleRegister succeed: a new entry held once.
OpenHandle(t) ==
  /\ pc[t] = "open"
  /\ LET e == Least({f \in Entries : entry[f] = None})
         p == op[t].path
     IN /\ ent' = [ent EXCEPT ![t] = e]
        /\ entry' = [entry EXCEPT ![e] =
             [path |-> p, inode |-> Opened(p), refs |-> 1, open |-> TRUE]]
        /\ disk' = [disk EXCEPT ![p] = Opened(p)]
  /\ Goto(t, "insert")
  /\ UNCHANGED <<op, handles, content, faults, auxVars>>

\* os.open raises, or registering fails and the fd is closed again.
OpenFails(t) ==
  /\ pc[t] = "open" /\ Fault
  /\ disk' \in {disk, [disk EXCEPT ![op[t].path] = Opened(op[t].path)]}
  /\ Fail(t)
  /\ UNCHANGED <<handles, entry, content, auxVars>>

MutVictimsInUse == {handles[k] : k \in {l \in 1..Len(handles) : l <= Len(handles) + 1 - CacheMax}}

\* The eviction loop: the idle entries closed, oldest first, until one more
\* fits in the cache; entries in use stay and make the cap a soft one.
Victims ==
  LET idle == Without(handles, {e \in ToSet(handles) : entry[e].refs # 0})
      excess == Len(handles) + 1 - CacheMax
  IN {idle[k] : k \in {l \in 1..Len(idle) : l <= excess}}

MutStoreAppends(h, e) == Append(h, e)

\* self._handles[path] = entry: an entry another thread has inserted for the
\* path meanwhile is overwritten in its place.
Store(h, e) ==
  IF \E k \in 1..Len(h) : entry[h[k]].path = entry[e].path
  THEN [k \in 1..Len(h) |-> IF entry[h[k]].path = entry[e].path THEN e ELSE h[k]]
  ELSE Append(h, e)

InsertHandle(t) ==
  /\ pc[t] = "insert"
  /\ handles' = Store(Without(handles, Victims), ent[t])
  /\ UNCHANGED <<op, ent, faults, auxVars>>
  /\ Settle([e \in Entries |-> IF e \in Victims THEN [entry[e] EXCEPT !.open = FALSE]
                               ELSE entry[e]], disk, content)
  /\ Goto(t, "io")

-----------------------------------------------------------------------------
(* cuFileWrite, cuFileRead, _release_handle, _drop_handle *)

IoFull(t) ==
  LET n == entry[ent[t]].inode IN
  /\ pc[t] = "io" /\ IsOpen(ent[t])
  /\ IF op[t].kind = "write"
     THEN content' = [content EXCEPT ![n] = "whole"]
     ELSE content[n] = "whole" /\ UNCHANGED content
  /\ Goto(t, "release")
  /\ UNCHANGED <<op, ent, handles, entry, disk, faults, auxVars>>

\* The IO transfers less: the handle was closed, the file is short, or a
\* transient failure.  Nothing truncates a file: a failed write leaves it as it
\* was, or longer.
IoShort(t) ==
  LET n == entry[ent[t]].inode IN
  /\ pc[t] = "io"
  /\ \/ ~IsOpen(ent[t]) /\ UNCHANGED <<content, faults>>
     \/ /\ op[t].kind = "read" /\ IsOpen(ent[t]) /\ content[n] # "whole"
        /\ UNCHANGED <<content, faults>>
     \/ IsOpen(ent[t]) /\ Fault /\ UNCHANGED content
     \/ /\ op[t].kind = "write" /\ IsOpen(ent[t]) /\ Fault
        /\ content[n] = "empty" /\ content' = [content EXCEPT ![n] = "partial"]
  /\ Goto(t, "drop")
  /\ UNCHANGED <<op, ent, handles, entry, disk, auxVars>>

ReleaseHandle(t) ==
  /\ pc[t] = "release"
  /\ Return(t)
  /\ UNCHANGED <<handles, faults, auxVars>>
  /\ Settle([entry EXCEPT ![ent[t]].refs = @ - 1], disk, content)

MutDropHandleStays(t) ==
  /\ pc[t] = "drop"
  /\ UNCHANGED <<handles, faults, auxVars>>
  /\ Fail(t)
  /\ Settle([entry EXCEPT ![ent[t]].open = FALSE], disk, content)

\* Whatever entry the path has is popped, but only the thread's own is closed.
DropHandle(t) ==
  /\ pc[t] = "drop"
  /\ handles' = Without(handles, Cached(op[t].path))
  /\ Fail(t)
  /\ Settle([entry EXCEPT ![ent[t]].open = @ /\ ent[t] \notin Cached(op[t].path)],
            disk, content)
  /\ UNCHANGED <<faults, auxVars>>

\* The path loses its name.  History: under another operation, if the file was whole.
Unlink(p, users) ==
  /\ Settle(entry, [disk EXCEPT ![p] = None], content)
  /\ spoilt' = IF HasFile(p, "whole") /\ users # {} THEN spoilt \cup {p} ELSE spoilt

MutUnlinkFailedWrites(t) ==
  /\ pc[t] = "unlink"
  /\ Return(t)
  /\ UNCHANGED <<handles, faults, mixed>>
  /\ IF op[t].kind = "write" THEN Unlink(op[t].path, InUse(op[t].path) \ {t})
     ELSE Settle(entry, disk, content) /\ UNCHANGED spoilt

\* The self-heal: the path is unlinked and the operation returns False, also
\* when os.unlink raises and the file stays.
UnlinkFailed(t) ==
  /\ pc[t] = "unlink"
  /\ Return(t)
  /\ UNCHANGED <<handles, mixed>>
  /\ \/ Unlink(op[t].path, InUse(op[t].path) \ {t}) /\ UNCHANGED faults
     \/ Fault /\ Settle(entry, disk, content) /\ spoilt' = spoilt \cup {op[t].path}

-----------------------------------------------------------------------------
(* GdsGcManager.sweep lists the files once and unlinks from its list later,  *)
(* whoever uses them by then: a chunk is protected only if its transfer      *)
(* began before the list was made, on a headless node none is, and the       *)
(* handle cache is not asked.  Any file may be on the list and be unlinked   *)
(* at any time; which of them the sweep passes over is left open.            *)

GcUnlink(p) ==
  /\ disk[p] # None
  /\ UNCHANGED <<pc, op, ent, handles, faults, mixed>>
  /\ Unlink(p, InUse(p))

\* The process ends, in a shutdown or a crash, and with it every handle; a write
\* may be cut off.  The next process starts on the same files.
Restart ==
  LET cut == {entry[ent[t]].inode : t \in {u \in Threads : pc[u] = "io" /\ op[u].kind = "write"}}
  IN /\ pc' = [t \in Threads |-> "idle"] /\ op' = [t \in Threads |-> None]
     /\ ent' = [t \in Threads |-> None]
     /\ handles' = <<>> /\ entry' = [e \in Entries |-> None]
     /\ \E torn \in SUBSET {n \in cut : content[n] = "empty"} :
          content' = [n \in Inodes |-> IF n \notin Range(disk) THEN "empty"
                                       ELSE IF n \in torn THEN "partial" ELSE content[n]]
     /\ mixed' = {} /\ spoilt' = {p \in Paths : HasFile(p, "empty")}
     /\ faults' = 0
     /\ UNCHANGED disk

Step(t) ==
  \/ CacheHit(t) \/ CacheMiss(t) \/ OpenHandle(t) \/ OpenFails(t) \/ InsertHandle(t)
  \/ IoFull(t) \/ IoShort(t) \/ ReleaseHandle(t) \/ DropHandle(t) \/ UnlinkFailed(t)

Next ==
  \/ \E t \in Threads, kind \in {"write", "read"}, p \in Paths : Begin(t, kind, p)
  \/ \E t \in Threads : Step(t)
  \/ \E p \in Paths : GcUnlink(p)
  \/ Restart

Spec == Init /\ [][Next]_vars

-----------------------------------------------------------------------------
(* Properties. *)

\* The type invariant; the keys of the handle cache are distinct paths.
TypeOK ==
  /\ pc \in [Threads -> PCs] /\ op \in [Threads -> Op \cup {None}]
  /\ ent \in [Threads -> Entries \cup {None}]
  /\ handles \in Seq(Entries)
  /\ entry \in [Entries -> Entry \cup {None}]
  /\ \A k, l \in 1..Len(handles) : entry[handles[k]].path = entry[handles[l]].path => k = l
  /\ disk \in [Paths -> Inodes \cup {None}]
  /\ content \in [Inodes -> Contents]
  /\ faults \in 0..MaxFaults
  /\ mixed \subseteq Paths /\ spoilt \subseteq Paths

\* The count that protects a cached entry from eviction is the number of
\* threads that hold it, through every hit, overwrite, drop and release.
RefsExact == \A e \in ToSet(handles) : entry[e].refs = Cardinality(Holders(e))

\* No thread is handed a handle that has been closed.
CachedOpen == \A e \in ToSet(handles) : IsOpen(e)

\* "The hold keeps the LRU eviction from closing the fd mid-IO": while the process
\* lives, a handle some thread is to use is closed only by a thread whose own IO
\* on it came up short.
ClosedByFailureOnly ==
  [][\A t \in Threads :
       pc[t] = "io" /\ pc'[t] # "idle" /\ IsOpen(ent[t]) /\ ~IsOpen(ent[t])' =>
         \E u \in Threads : pc[u] = "drop" /\ ent[u] = ent[t]]_vars

\* The read that is to unlink its path, and with it a good file.
KillsGoodFile(t) ==
  pc[t] = "unlink" /\ op[t].kind = "read" /\ HasFile(op[t].path, "whole")

\* The self-heal of a read does not unlink a good file after a single failure,
\* not even when that failure closes the handle under other readers, and whatever
\* the GC unlinks under it: unless a write has run next to it on the path.  Such
\* a read is short twice by itself and unlinks what the write completes.
GoodFileSurvives ==
  \A t \in Threads : KillsGoodFile(t) /\ op[t].path \notin mixed => faults >= 2

\* O_CREAT makes a read of a missing chunk create it, and lookup() asks only
\* whether the file exists: no empty file outlives the operations on its path,
\* unless it was there when the process started, os.unlink failed, a whole file
\* was unlinked under an operation, or a write has run next to another operation.
NoGhostFile ==
  \A p \in Paths \ (mixed \cup spoilt) : InUse(p) = {} => ~HasFile(p, "empty")

\* "Write ring[slot_idx][:nbytes] -> path": a store, alone on its path, that finds a
\* handle in the cache writes the file that the path names.
WriteLands ==
  [][\A t \in Threads :
       pc[t] = "get" /\ pc'[t] = "io" /\ op[t].kind = "write" /\ op[t].path \notin mixed =>
         disk[op[t].path] = entry[ent'[t]].inode]_vars
=============================================================================
