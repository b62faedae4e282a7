---------------------------- MODULE FilterStoreInv ----------------------------
(***************************************************************************)
(* The inductive invariants behind the properties of FilterStore.          *)
(*                                                                         *)
(* ControlInv says where the handlers are and what the filter set and the  *)
(* files look like there; it holds whatever the environment does.  DataInv *)
(* says where the added digests are.  It needs a write() that is all or    *)
(* nothing, a rename that is followed by a directory fsync that works, and *)
(* metadata that can be read back: WholeWrites, DirSynced and ReadsWork.   *)
(***************************************************************************)
EXTENDS FilterStore

EnsurePcs == {"pin", "create_log", "set_has_data", "undo_log", "undo_pin"}
StagedPcs == {"write", "fsync", "bpf", "truncate"}
ItemPcs   == EnsurePcs \cup {"mark", "stage", "write", "fsync", "bpf"}
DataPcs   == (AddPcs \ EnsurePcs) \cup SyncPcs \cup (DropPcs \ {"drop_meta"})
NewPcs    == MakePcs \cup {"load_pin", "load_log"}

(* A filter of the set agrees with the disk, except while DROP removes it. *)
SetInv(n) ==
  /\ mem[n] # "absent"
  /\ mem[n] = meta[n] \/ (pc = "drop_log" /\ n = cur)
  /\ HasData(mem[n]) => pin[n] \in {NoMap, fd[n]} /\ log[n] # NoFile
  /\ mode = "always" /\ mem[n] = "dirty" => hist[n]

(* What the pc says about the set and about the filter of the handler.     *)
PcInv ==
  /\ pc = "down" => Loaded = {}
  /\ pc \in LoadPcs => queue \cap Loaded = {} /\ \A n \in queue : meta[n] # "absent"
  /\ pc \in AddPcs \cup SyncPcs \cup DropPcs => cur \in Loaded
  /\ pc \in NewPcs => cur \notin Loaded /\ newmap # NoMap
  /\ pc = "create_add" => meta[cur] = "empty"
  /\ pc \in {"load_pin", "load_log"} => cur \notin queue /\ meta[cur] # "absent" /\ pin[cur] \in {NoMap, newmap}
  /\ pc \in EnsurePcs => mem[cur] = "empty"
  /\ pc \in DataPcs => HasData(mem[cur])
  /\ pc = "drop_log" => meta[cur] = "absent"
  /\ pc = "sync_meta" => mem[cur] = "dirty" /\ ~hist[cur]
  /\ \A n \in Names : dirty[n] => n \in Loaded /\ HasData(mem[n])

(* What the pc says about the locals of ADD and MADD.                      *)
AddInv ==
  /\ pc \in ItemPcs => items # <<>>
  /\ pc \in {"create_log", "set_has_data"} => pin[cur] \in {NoMap, fd[cur]}
  /\ pc = "set_has_data" => log[cur] = EmptyFile
  /\ pc = "mark" => mode = "periodic" /\ mem[cur] = "clean"
  /\ mode = "periodic" /\ pc \in {"stage", "bpf", "restore"} => mem[cur] = "dirty"
  /\ pc \in {"write", "fsync", "truncate"} => mode = "always"
  /\ marked => mode = "periodic" /\ pc \in {"stage", "bpf", "restore"}
  /\ pc = "restore" => marked /\ ~any
  /\ pc \in StagedPcs => stage.file # NoFile

ControlInv == (\A n \in Loaded : SetInv(n)) /\ PcInv /\ AddInv

(* Where digests wait in the buffers of a "periodic" daemon: only in a     *)
(* filter that is marked, but for the one that is being added; and where   *)
(* log_clean goes back to 1, with a rollback or a sync, none wait.         *)
BufInv ==
  /\ \A n \in Names : buf[n] # <<>> => n \in Loaded
  /\ mode = "periodic" =>
       /\ \A n \in Names : buf[n] # <<>> => mem[n] = "dirty" /\ (dirty[n] \/ (pc = "bpf" /\ n = cur))
       /\ pc = "bpf" /\ stage.buf # <<>> => stage.dirty /\ (marked => any)
       /\ pc \in {"stage", "restore"} /\ marked /\ ~any => buf[cur] = <<>>
  /\ pc \in {"sync_fsync", "sync_meta"} => buf[cur] = <<>>

-----------------------------------------------------------------------------
(* What DataInv needs of the environment.                                  *)
WholeWrites == "partial" \notin Faults
DirSynced   == "nodirsync" \notin Faults
ReadsWork   == "read" \notin Faults

(* The digests of n are in a file that can be replayed.                    *)
Logged(n) == added[n] \subseteq Recs(log[n])
Synced(n) == Logged(n) /\ added[n] \subseteq Recs(slog[n])

(* The end of a log file is a record boundary.                             *)
Aligned(f) == f # NoFile => f.off = 0

(* What the disk and the kernel owe to filter n, loaded or not.            *)
DiskData(n) ==
  /\ added[n] # {} => HasData(meta[n])
  /\ meta[n] \in {smeta[n], "absent"}
  /\ meta[n] = "clean" => Synced(n)
  /\ pin[n] # NoMap => added[n] \subseteq bits[pin[n]]
  /\ HasData(meta[n]) /\ pin[n] # NoMap => Aligned(log[n])

(* What the filter set owes to n while n is in it.                         *)
SetData(n) ==
  /\ added[n] \subseteq bits[fd[n]]
  /\ HasData(mem[n]) => Aligned(log[n])
  /\ HasData(mem[n]) /\ ~hist[n] => added[n] \subseteq Recs(log[n]) \cup Range(buf[n])

(* Where the digest that is being added is, and what a rollback keeps.     *)
AddData ==
  /\ marked /\ ~any => Synced(cur)
  /\ pc = "write" => Head(items) \in Range(buf[cur])
  /\ pc = "fsync" => Head(items) \in Recs(log[cur])
  /\ pc = "bpf" /\ mode = "always" => Head(items) \in Recs(log[cur]) /\ Head(items) \in Recs(slog[cur])
  /\ pc = "bpf" /\ mode = "periodic" => Head(items) \in Range(buf[cur])
  /\ pc \in StagedPcs => Aligned(stage.file)
  /\ pc \in StagedPcs /\ mem[cur] = "clean" => added[cur] \subseteq Recs(stage.file)
  /\ pc = "bpf" /\ mode = "periodic" /\ ~hist[cur] =>
       IF Len(stage.buf) = BufCap THEN Logged(cur)
                                  ELSE added[cur] \subseteq Recs(log[cur]) \cup Range(stage.buf)

(* The other handlers between two of their steps.                          *)
StepData ==
  /\ pc = "create_add" => added[cur] = {}
  /\ pc = "sync_fsync" => buf[cur] = <<>>
  /\ pc = "sync_meta" => Synced(cur)
  /\ pc \in {"load_pin", "load_log"} =>
       added[cur] \subseteq bits[newmap] /\ (HasData(meta[cur]) => Aligned(log[cur]))

DataInv ==
  /\ \A n \in Names : DiskData(n)
  /\ \A n \in Loaded : SetData(n)
  /\ AddData /\ StepData

(* Every digest that bloomd_bpf_add_digest put into a map is, between any  *)
(* two system calls of every handler, where the next step or the next      *)
(* start of bloomd looks for it.                                           *)
IInv == ControlInv /\ DataInv
-----------------------------------------------------------------------------
(* What the properties of maps and pins need: bloomd is not killed, and    *)
(* the calls with which it takes something back do not fail.               *)
NotKilled == "kill" \notin Faults
UndoWorks == "undo" \notin Faults

(* The map that a handler is about to make durable is pinned.              *)
PinnedPcs == {"create_log", "set_has_data", "undo_log", "undo_pin"}

(* What DROP has unpinned, or what was never pinned.                       *)
UnpinnedPcs == {"drop_meta", "drop_repin", "drop_log"}

(* The maps that belong to filter n.                                       *)
Held(n) == {pin[n], fd[n]} \ {NoMap}

(* A filter of the set holds one map, pinned or not, made for its          *)
(* parameters; while it is metadata-only the map is empty and unpinned.    *)
OwnInv(n) ==
  /\ pin[n] \in {NoMap, fd[n]}
  /\ ParamOf[fd[n]] = par[n]
  /\ mem[n] = "empty" => bits[fd[n]] = {} /\ (pin[n] = NoMap \/ (pc \in PinnedPcs /\ n = cur))

(* Where there may be a pin without a filter in the set: one that a start  *)
(* has yet to load or to remove, never that of a metadata-only filter.     *)
OrphanPcs == {"down", "free", "load", "load_pin", "load_log", "orphans"}

OrphanInv(n) ==
  pin[n] # NoMap =>
    /\ pc \in OrphanPcs
    /\ meta[n] # "empty"
    /\ meta[n] # "absent" => ParamOf[pin[n]] = par[n]

(* The map on its way into the set.                                        *)
NewInv ==
  newmap # NoMap =>
    /\ pc \in NewPcs
    /\ \A n \in Names : newmap \in Held(n) => n = cur
    /\ pc # "create_meta" => ParamOf[newmap] = par[cur]
    /\ pc \in MakePcs \/ meta[cur] = "empty" => bits[newmap] = {}
    /\ pc = "load_pin" => pin[cur] = NoMap /\ meta[cur] # "empty"

PoolInv ==
  pool # NoMap => bits[pool] = {} /\ pool # newmap /\ \A n \in Names : pool \notin Held(n)

(* No map belongs to two filters, or to one and to the pool.               *)
MapInv ==
  /\ \A n \in Loaded : OwnInv(n)
  /\ \A n \in Names \ Loaded : OrphanInv(n)
  /\ \A n, k \in Names : n # k => Held(n) \cap Held(k) = {}
  /\ NewInv /\ PoolInv
  /\ pc \in UnpinnedPcs => pin[cur] = NoMap

(* What keeps the pins where they are: nobody removes one, and the host    *)
(* does not go down.                                                       *)
PinsStay == "unpin" \notin Faults /\ "host" \notin Faults

(* Where a log is known to lag behind its map, the map is pinned; and no   *)
(* metadata is left out by a start, whose last step removes the pins that  *)
(* it has no filter for.                                                   *)
PinInv ==
  /\ \A n \in Names : meta[n] = "dirty" => pin[n] # NoMap \/ (pc \in {"drop_meta", "drop_repin"} /\ n = cur)
  /\ \A n \in Loaded :
       HasData(mem[n]) => pin[n] # NoMap \/ (pc \in UnpinnedPcs /\ n = cur)
  /\ pc \in {"create_log", "set_has_data"} => pin[cur] # NoMap
  /\ pc \in {"load", "load_pin", "load_log", "orphans"} =>
       \A n \in Names : \/ meta[n] = "absent" \/ n \in queue \cup Loaded
                        \/ pc \in {"load_pin", "load_log"} /\ n = cur
  /\ pc = "orphans" => queue = {}
  /\ pc = "load_pin" => meta[cur] = "clean"
  /\ pc = "load_log" /\ HasData(meta[cur]) => pin[cur] # NoMap
  /\ rebuilt => pc = "load_log" /\ meta[cur] = "clean"

(* What a complete sync needs: no call fails.                              *)
CallsWork == Faults \cap {"io", "undo", "partial"} = {}

(* A log that lags behind its map is due to be synced, and once the loop   *)
(* of main has ended every one that is due is in the queue.                *)
StopInv ==
  /\ \A n \in Loaded :
       mem[n] = "dirty" /\ ~hist[n] => dirty[n] \/ (pc \in {"stage", "bpf", "sync_meta"} /\ n = cur)
  /\ stopping =>
       /\ pc \in {"idle", "free"} \cup SyncPcs
       /\ \A n \in Names : dirty[n] => n \in queue \/ (pc \in {"sync_write", "sync_fsync"} /\ n = cur)
       /\ pc = "free" => queue = {}

(* Where there is a log, and where it is durable, under the assumptions of *)
(* DataInv.                                                                *)
FileData(n) ==
  /\ added[n] # {} => log[n] # NoFile
  /\ HasData(meta[n]) /\ pin[n] # NoMap => log[n] # NoFile
  /\ HasData(meta[n]) /\ log[n] # NoFile => slog[n] # NoFile

FileInv ==
  /\ \A n \in Names : FileData(n)
  /\ pc \in {"load_pin", "load_log"} /\ HasData(meta[cur]) => log[cur] # NoFile

(* What a start leaves out has no pin, so that its last step, which        *)
(* removes the pins it has no filter for, takes none from a filter; and a  *)
(* pin that it takes back is one it made itself, from a log that is clean. *)
StartInv ==
  /\ pc \in {"load", "load_pin", "load_log", "orphans"} =>
       \A n \in Names : \/ meta[n] = "absent" \/ pin[n] = NoMap \/ n \in queue \cup Loaded
                        \/ pc \in {"load_pin", "load_log"} /\ n = cur
  /\ pc = "orphans" => queue = {}
  /\ pc \in {"load_pin", "load_log"} => ParamOf[newmap] = par[cur]
  /\ pc = "load_pin" => meta[cur] = "clean"
  /\ rebuilt => pc = "load_log" /\ meta[cur] = "clean"
=============================================================================
