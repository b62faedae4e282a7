----------------------------- MODULE FilterStore -----------------------------
(***************************************************************************)
(* How bloomd keeps a filter: the pinned kernel map, the metadata file and *)
(* the digest log, and every handler, timer and startup step that touches  *)
(* them (src/src/daemon.c, log.c, meta.c, bpf.c, util.c).                  *)
(*                                                                         *)
(* bloomd is one single-threaded process, so handlers do not interleave    *)
(* with each other.  What does interleave with them is the environment: a  *)
(* system call may fail, the process may be killed and the host may go     *)
(* down between any two system calls.  So each action below is one system  *)
(* call that changes state, together with the assignments around it, and   *)
(* pc says which call comes next.  Calls that only read are folded into    *)
(* the step that uses their result.                                        *)
(*                                                                         *)
(* Data is abstracted.  A digest is a model value.  A Bloom map is the set *)
(* of digests added to it, since all that matters here is a digest that    *)
(* was added and is no longer found.  A log is the set of digests a replay *)
(* of it would find, and how far its end is from a record boundary.        *)
(*                                                                         *)
(* The definitions named Bug... are no part of the specification: each is  *)
(* the definition below it with a mistake in it, which a property of the   *)
(* project must notice.                                                    *)
(***************************************************************************)
EXTENDS Naturals, Sequences, Functions

CONSTANTS
  Names,      \* filter names
  Digests,    \* digests of payloads
  Maps,       \* identities of kernel maps; a bound on the maps alive at once
  Params,     \* map parameters: capacity, hashes, value size
  ParamOf,    \* the parameters each map is created with
  NoMap,      \* no map: a closed descriptor, a missing pin, an empty pool
  NoFile,     \* a log file that does not exist
  BufCap,     \* BLOOMD_LOG_BUFFER_CAP, in digests
  RecUnits,   \* BLOOMD_DIGEST_SIZE, in the units a write may stop after
  MaxBatch,   \* bound on the digests of one ADD or MADD
  Modes,      \* the log sync modes a start may select
  Faults      \* what the environment may do, see FaultKinds

(***************************************************************************)
(*   io         a system call fails and changes nothing                    *)
(*   undo       a call whose result the code ignores, (void), fails        *)
(*   partial    write() stores part of the buffer before it fails          *)
(*   nodirsync  a rename is not followed by a successful directory fsync:  *)
(*              its error is ignored, or the process dies before it        *)
(*   read       a metadata file cannot be opened or read while bloomd      *)
(*              starts, say for want of a descriptor                       *)
(*   unpin      somebody removes a pin ("a pinned map disappears")         *)
(*   kill       the process dies; kernel and disk state stay               *)
(*   host       the host goes down; pins and unsynced file data go         *)
(***************************************************************************)
FaultKinds == {"io", "undo", "partial", "nodirsync", "read", "unpin", "kill", "host"}

ASSUME ConstantAssumption ==
  /\ NoMap \notin Maps
  /\ ParamOf \in [Maps -> Params]
  /\ BufCap \in Nat \ {0}
  /\ RecUnits \in Nat \ {0}
  /\ MaxBatch \in Nat \ {0}
  /\ Modes \subseteq {"periodic", "always"}
  /\ Faults \subseteq FaultKinds

ASSUME NoFileAssumption == NoFile \notin [recs : SUBSET Digests, off : Nat]

VARIABLES
  (* the kernel *)
  pin,        \* pin[n]: the map pinned at <pin_root>/n
  bits,       \* bits[m]: the digests added to map m
  (* the metadata directory, as processes see it *)
  meta,       \* meta[n]: the has_data and log_clean of n.meta
  par,        \* par[n]: the map parameters of n.meta
  log,        \* log[n]: n.digests
  (* what of it survives the host going down *)
  smeta, slog,
  (* the filter set and the pool, in the daemon's memory *)
  fd,         \* fd[n]: the map of filter n, NoMap while n is not in the set
  mem,        \* mem[n]: filter->meta
  hist,       \* hist[n]: filter->log_history_incomplete
  buf,        \* buf[n]: filter->log_buf
  dirty,      \* dirty[n]: filter->log_dirty
  pool,       \* bloomd_empty_pool.map_fd
  (* the control state *)
  pc,         \* the next system call of the daemon
  mode,       \* cfg.log_sync_mode
  stopping,   \* bloomd_stop has been seen
  queue,      \* entries left to load, or logs left to sync while stopping
  (* the locals of the running handler *)
  cur,        \* the filter it works on
  items,      \* the digests left to add
  marked,     \* meta_marked_dirty
  any,        \* any_added_success
  stage,      \* struct bloomd_log_stage
  newmap,     \* a map not yet in the filter set
  rebuilt,    \* unpin_on_error
  (* history *)
  added       \* added[n]: the digests added to n since it was created

kernelVars == <<pin, bits>>
dirVars    == <<meta, par, smeta>>
logVars    == <<log, slog>>
memVars    == <<fd, mem, hist, buf, dirty>>
procVars   == <<mode, stopping, queue>>
itemVars   == <<items, marked, any, stage>>
loadVars   == <<newmap, rebuilt>>
vars == <<kernelVars, dirVars, logVars, memVars, pool, pc, procVars, cur, itemVars, loadVars, added>>

(* has_data and log_clean of a metadata file: "empty" is has_data=0, which *)
(* is written with log_clean=1 only, "clean" and "dirty" are has_data=1    *)
(* with log_clean 1 and 0.                                                 *)
MetaStates == {"absent", "empty", "clean", "dirty"}
HasData(s) == s \in {"clean", "dirty"}

LogFile   == [recs : SUBSET Digests, off : 0..(RecUnits - 1)]
EmptyFile == [recs |-> {}, off |-> 0]
Recs(f)   == IF f = NoFile THEN {} ELSE f.recs
NoStage   == [buf |-> <<>>, dirty |-> FALSE, file |-> NoFile]

Loaded == {n \in Names : fd[n] # NoMap}

AddPcs  == {"pin", "create_log", "set_has_data", "undo_log", "undo_pin", "mark",
            "stage", "write", "fsync", "bpf", "truncate", "restore"}
SyncPcs == {"sync_write", "sync_fsync", "sync_meta"}
DropPcs == {"drop_unpin", "drop_meta", "drop_repin", "drop_log"}
LoadPcs == {"load", "load_pin", "load_log", "orphans", "listen"}
MakePcs == {"create_meta", "create_add"}
Pcs     == {"down", "idle", "free"} \cup AddPcs \cup SyncPcs \cup DropPcs \cup LoadPcs \cup MakePcs

KernelType ==
  /\ pin \in [Names -> Maps \cup {NoMap}]
  /\ bits \in [Maps -> SUBSET Digests]

FileType ==
  /\ meta \in [Names -> MetaStates] /\ smeta \in [Names -> MetaStates]
  /\ par \in [Names -> Params]
  /\ log \in [Names -> LogFile \cup {NoFile}] /\ slog \in [Names -> LogFile \cup {NoFile}]

SetType ==
  /\ fd \in [Names -> Maps \cup {NoMap}]
  /\ mem \in [Names -> MetaStates]
  /\ hist \in [Names -> BOOLEAN] /\ dirty \in [Names -> BOOLEAN]
  /\ added \in [Names -> SUBSET Digests]

BufType ==
  /\ buf \in [Names -> Seq(Digests)]
  /\ \A n \in Names : Len(buf[n]) <= BufCap

ItemType ==
  /\ items \in Seq(Digests)
  /\ marked \in BOOLEAN /\ any \in BOOLEAN
  /\ stage \in [buf : Seq(Digests), dirty : BOOLEAN, file : LogFile \cup {NoFile}]
  /\ Len(stage.buf) <= BufCap

ControlType ==
  /\ pc \in Pcs
  /\ mode \in Modes
  /\ stopping \in BOOLEAN
  /\ queue \in SUBSET Names
  /\ cur \in Names
  /\ pool \in Maps \cup {NoMap} /\ newmap \in Maps \cup {NoMap}
  /\ rebuilt \in BOOLEAN

(* The types of the state, and the bound on the buffer of the log: no path *)
(* through stage, flush and rollback overruns BLOOMD_LOG_BUFFER_CAP.       *)
TypeOK == KernelType /\ FileType /\ SetType /\ BufType /\ ItemType /\ ControlType

(* Nothing on disk and no daemon running.                                  *)
Init ==
  /\ pin = [n \in Names |-> NoMap]
  /\ bits = [m \in Maps |-> {}]
  /\ meta = [n \in Names |-> "absent"] /\ smeta = meta
  /\ par \in [Names -> Params] /\ \A n \in Names : par[n] = CHOOSE p \in Params : TRUE
  /\ log = [n \in Names |-> NoFile] /\ slog = log
  /\ fd = [n \in Names |-> NoMap]
  /\ mem = [n \in Names |-> "absent"]
  /\ hist = [n \in Names |-> FALSE] /\ dirty = [n \in Names |-> FALSE]
  /\ buf = [n \in Names |-> <<>>]
  /\ pool = NoMap /\ newmap = NoMap
  /\ pc = "down" /\ mode \in Modes
  /\ stopping = FALSE /\ queue = {}
  /\ cur \in Names
  /\ items = <<>> /\ marked = FALSE /\ any = FALSE /\ stage = NoStage /\ rebuilt = FALSE
  /\ added = [n \in Names |-> {}]

-----------------------------------------------------------------------------
(* Small steps that the handlers share.                                    *)

May(fault) == fault \in Faults

(* Return: the handler answers, its locals are gone.                       *)
Return ==
  /\ pc' = "idle"
  /\ items' = <<>> /\ marked' = FALSE /\ any' = FALSE /\ stage' = NoStage

Goto(p) == pc' = p /\ UNCHANGED itemVars

(* A map nobody holds: neither pinned, nor open in the daemon.             *)
Live == Range(pin) \cup Range(fd) \cup {pool, newmap}
Fresh(p) == {m \in Maps \ Live : ParamOf[m] = p}

(* The process is gone: the kernel frees every map that is not pinned.     *)
Reclaim == bits' = [m \in Maps |-> IF m \in Range(pin) THEN bits[m] ELSE {}]

(* bloomd_meta_write_atomic of n.meta: the rename is atomic, and the fsync *)
(* of the directory makes every name in it durable.                        *)
SyncedDir(visible, stable) ==
  [n \in Names |-> CASE visible[n] = NoFile -> NoFile
                     [] visible[n] # NoFile /\ stable[n] = NoFile -> EmptyFile
                     [] OTHER -> stable[n]]

BugMetaWrite(n, s) == meta' = [meta EXCEPT ![n] = s] /\ UNCHANGED <<smeta, slog>>

MetaWrite(n, s) ==
  /\ meta' = [meta EXCEPT ![n] = s]
  /\ \/ smeta' = meta' /\ slog' = SyncedDir(log, slog)
     \/ May("nodirsync") /\ UNCHANGED <<smeta, slog>>

(* bloomd_update_filter_meta_state: disk first, then memory.               *)
BugUpdateMeta(n, s) ==
  mem' = [mem EXCEPT ![n] = s] /\ UNCHANGED <<dirVars, logVars, fd, hist, buf, dirty>>

UpdateMeta(n, s) ==
  /\ MetaWrite(n, s)
  /\ mem' = [mem EXCEPT ![n] = s]
  /\ UNCHANGED <<par, log, fd, hist, buf, dirty>>

(* bloomd_write_all of b at the end of file f.  Digests written at an end  *)
(* that is no record boundary are not found by a replay.                   *)
Written(f, b) == [f EXCEPT !.recs = IF f.off = 0 THEN @ \cup Range(b) ELSE @]

WrittenPart(f, b, k) ==
  [recs |-> IF f.off = 0 THEN f.recs \cup Range(SubSeq(b, 1, k \div RecUnits)) ELSE f.recs,
   off  |-> (f.off + k) % RecUnits]

(* The files a failing bloomd_write_all may leave behind.                  *)
WriteFailures(f, b) ==
  {g \in {f} : b # <<>> /\ May("io")}
    \cup {WrittenPart(f, b, k) : k \in {j \in 1..(Len(b) * RecUnits - 1) : May("partial")}}

(* The log of n is written out of its buffer: all of it, or not.           *)
Flush(n) ==
  /\ log' = [log EXCEPT ![n] = Written(@, buf[n])]
  /\ buf' = [buf EXCEPT ![n] = <<>>]

FlushFails(n) ==
  /\ \E f \in WriteFailures(log[n], buf[n]) : log' = [log EXCEPT ![n] = f]
  /\ UNCHANGED buf

BugFsync(n) == n \in Names /\ UNCHANGED slog

Fsync(n) == slog' = [slog EXCEPT ![n] = log[n]]

-----------------------------------------------------------------------------
(* CREATE (bloomd_handle_create).  A name that is in the set is answered   *)
(* EXISTS and changes nothing.                                             *)

Idle == pc = "idle" /\ ~stopping

(* The map of a dropped empty filter is taken from the pool when it fits.  *)
BugTakeEmptyMap(p) ==
  pool # NoMap /\ ParamOf[pool] = p /\ newmap' = pool /\ UNCHANGED <<pool, bits>>

TakeEmptyMap(p) ==
  pool # NoMap /\ ParamOf[pool] = p /\ newmap' = pool /\ pool' = NoMap /\ UNCHANGED bits

BugCreateBegin(n, p) ==
  /\ Idle /\ UNCHANGED pool
  /\ \E m \in Fresh(p) : newmap' = m /\ bits' = [bits EXCEPT ![m] = {}]
  /\ cur' = n /\ Goto("create_meta")
  /\ UNCHANGED <<pin, dirVars, logVars, memVars, procVars, rebuilt, added>>

CreateBegin(n, p) ==
  /\ Idle /\ n \notin Loaded
  /\ \/ TakeEmptyMap(p)
     \/ /\ pool # NoMap => ParamOf[pool] # p
        /\ \E m \in Fresh(p) : newmap' = m /\ bits' = [bits EXCEPT ![m] = {}]
        /\ UNCHANGED pool
  /\ cur' = n /\ Goto("create_meta")
  /\ UNCHANGED <<pin, dirVars, logVars, memVars, procVars, rebuilt, added>>

CreateMeta ==
  /\ pc = "create_meta"
  /\ MetaWrite(cur, "empty")
  /\ par' = [par EXCEPT ![cur] = ParamOf[newmap]]
  /\ added' = [added EXCEPT ![cur] = {}]
  /\ Goto("create_add")
  /\ UNCHANGED <<kernelVars, log, memVars, pool, procVars, cur, loadVars>>

CreateMetaFails ==
  /\ pc = "create_meta" /\ May("io")
  /\ newmap' = NoMap /\ Return
  /\ UNCHANGED <<kernelVars, dirVars, logVars, memVars, pool, procVars, cur, rebuilt, added>>

(* bloomd_filter_set_add.                                                  *)
CreateAdd ==
  /\ pc = "create_add"
  /\ fd' = [fd EXCEPT ![cur] = newmap]
  /\ mem' = [mem EXCEPT ![cur] = "empty"]
  /\ newmap' = NoMap /\ Return
  /\ UNCHANGED <<kernelVars, dirVars, logVars, hist, buf, dirty, pool, procVars, cur, rebuilt, added>>

CreateAddFails ==
  /\ pc = "create_add" /\ May("io")
  /\ meta' = [meta EXCEPT ![cur] = "absent"] \/ (May("undo") /\ UNCHANGED meta)
  /\ log' = [log EXCEPT ![cur] = NoFile] \/ (May("undo") /\ UNCHANGED log)
  /\ pin' = [pin EXCEPT ![cur] = NoMap] \/ (May("undo") /\ UNCHANGED pin)
  /\ newmap' = NoMap /\ Return
  /\ UNCHANGED <<bits, par, smeta, slog, memVars, pool, procVars, cur, rebuilt, added>>

-----------------------------------------------------------------------------
(* ADD and MADD (bloomd_handle_add_check, bloomd_handle_batch): an ADD is  *)
(* a batch of one.  The scan of the batch precedes every change of state.  *)

(* Where the handler goes once the filter is durable.                      *)
BugAfterDurable(s) == IF s = "absent" THEN "mark" ELSE "stage"

AfterDurable(s) == IF mode = "periodic" /\ s = "clean" THEN "mark" ELSE "stage"

Batches == UNION {[1..k -> Digests] : k \in 1..MaxBatch}

AddBegin(n, batch) ==
  /\ Idle /\ n \in Loaded
  /\ cur' = n /\ items' = batch
  /\ pc' = IF HasData(mem[n]) THEN AfterDurable(mem[n]) ELSE "pin"
  /\ UNCHANGED <<kernelVars, dirVars, logVars, memVars, pool, procVars, marked, any, stage, loadVars, added>>

(* bloomd_ensure_filter_durable: pin, create the log, write the metadata.  *)
EnsurePin ==
  /\ pc = "pin"
  /\ \/ /\ pin[cur] = NoMap
        /\ pin' = [pin EXCEPT ![cur] = fd[cur]]
        /\ Goto("create_log")
     \/ /\ pin[cur] # NoMap \/ May("io")
        /\ UNCHANGED pin /\ Return
  /\ UNCHANGED <<bits, dirVars, logVars, memVars, pool, procVars, cur, loadVars, added>>

EnsureLog ==
  /\ pc = "create_log"
  /\ \/ /\ log' = [log EXCEPT ![cur] = EmptyFile]
        /\ slog' = [slog EXCEPT ![cur] = IF @ = NoFile THEN NoFile ELSE EmptyFile]
        /\ buf' = [buf EXCEPT ![cur] = <<>>] /\ dirty' = [dirty EXCEPT ![cur] = FALSE]
        /\ Goto("set_has_data")
     \/ /\ May("io")
        /\ Goto("undo_pin")
        /\ UNCHANGED <<logVars, buf, dirty>>
  /\ UNCHANGED <<kernelVars, dirVars, fd, mem, hist, pool, procVars, cur, loadVars, added>>

EnsureMeta ==
  /\ pc = "set_has_data"
  /\ \/ UpdateMeta(cur, "clean") /\ Goto(AfterDurable("clean"))
     \/ May("io") /\ Goto("undo_log") /\ UNCHANGED <<dirVars, logVars, memVars>>
  /\ UNCHANGED <<kernelVars, pool, procVars, cur, loadVars, added>>

EnsureUndoLog ==
  /\ pc = "undo_log"
  /\ log' = [log EXCEPT ![cur] = NoFile] \/ (May("undo") /\ UNCHANGED log)
  /\ Goto("undo_pin")
  /\ UNCHANGED <<kernelVars, dirVars, slog, memVars, pool, procVars, cur, loadVars, added>>

BugEnsureUndoPin ==
  /\ pc = "undo_pin" /\ Return
  /\ UNCHANGED <<kernelVars, dirVars, logVars, memVars, pool, procVars, cur, loadVars, added>>

EnsureUndoPin ==
  /\ pc = "undo_pin"
  /\ pin' = [pin EXCEPT ![cur] = NoMap] \/ (May("undo") /\ UNCHANGED pin)
  /\ Return
  /\ UNCHANGED <<bits, dirVars, logVars, memVars, pool, procVars, cur, loadVars, added>>

(* bloomd_mark_filter_log_dirty.                                           *)
MarkDirty ==
  /\ pc = "mark"
  /\ \/ UpdateMeta(cur, "dirty") /\ marked' = TRUE /\ pc' = "stage" /\ UNCHANGED <<items, any, stage>>
     \/ May("io") /\ Return /\ UNCHANGED <<dirVars, logVars, memVars>>
  /\ UNCHANGED <<kernelVars, pool, procVars, cur, loadVars, added>>

(* The item failed: log_clean goes back to 1 when this request cleared it  *)
(* and no earlier item of it was added.                                    *)
BugAbort == IF marked THEN Goto("restore") ELSE Return

Abort == IF marked /\ ~any THEN Goto("restore") ELSE Return

(* bloomd_stage_digest_for_add: remember where to roll back to, make room, *)
(* buffer the digest; in "always" mode also write and fsync it.            *)
BugStageDigest ==
  /\ pc = "stage"
  /\ stage' = [buf |-> buf[cur], dirty |-> dirty[cur], file |-> log[cur]]
  /\ buf' = [buf EXCEPT ![cur] = Append(@, Head(items))]
  /\ pc' = IF mode = "always" THEN "write" ELSE "bpf"
  /\ UNCHANGED <<kernelVars, dirVars, logVars, fd, mem, hist, dirty, pool, procVars, cur,
                 items, marked, any, loadVars, added>>

StageDigest ==
  /\ pc = "stage"
  /\ \/ /\ stage' = [buf |-> buf[cur], dirty |-> dirty[cur], file |-> log[cur]]
        /\ IF Len(buf[cur]) = BufCap
             THEN /\ log' = [log EXCEPT ![cur] = Written(@, buf[cur])]
                  /\ buf' = [buf EXCEPT ![cur] = <<Head(items)>>]
             ELSE /\ buf' = [buf EXCEPT ![cur] = Append(@, Head(items))]
                  /\ UNCHANGED log
        /\ pc' = IF mode = "always" THEN "write" ELSE "bpf"
        /\ UNCHANGED <<items, marked, any>>
     \/ Len(buf[cur]) = BufCap /\ FlushFails(cur) /\ Abort
     \/ mode = "always" /\ May("io") /\ Abort /\ UNCHANGED <<log, buf>>
  /\ UNCHANGED <<kernelVars, dirVars, slog, fd, mem, hist, dirty, pool, procVars, cur, loadVars, added>>

StageWrite ==
  /\ pc = "write"
  /\ (Flush(cur) /\ Goto("fsync")) \/ (FlushFails(cur) /\ Abort)
  /\ UNCHANGED <<kernelVars, dirVars, slog, fd, mem, hist, dirty, pool, procVars, cur, loadVars, added>>

StageFsync ==
  /\ pc = "fsync"
  /\ (Fsync(cur) /\ Goto("bpf")) \/ (May("io") /\ Abort /\ UNCHANGED slog)
  /\ UNCHANGED <<kernelVars, dirVars, log, memVars, pool, procVars, cur, loadVars, added>>

(* bloomd_bpf_add_digest and bloomd_commit_staged_digest; then the next    *)
(* item of the batch, or the answer.                                       *)
BpfAdd ==
  /\ pc = "bpf"
  /\ bits' = [bits EXCEPT ![fd[cur]] = @ \cup {Head(items)}]
  /\ added' = [added EXCEPT ![cur] = @ \cup {Head(items)}]
  /\ dirty' = [dirty EXCEPT ![cur] = (mode = "periodic")]
  /\ IF Tail(items) = <<>>
       THEN Return
       ELSE pc' = "stage" /\ items' = Tail(items) /\ any' = TRUE /\ stage' = NoStage /\ UNCHANGED marked
  /\ UNCHANGED <<pin, dirVars, logVars, fd, mem, hist, buf, pool, procVars, cur, loadVars>>

(* bloomd_rollback_staged_digest.                                          *)
BpfAddFails ==
  /\ pc = "bpf" /\ May("io")
  /\ IF mode = "always"
       THEN Goto("truncate") /\ UNCHANGED <<buf, dirty>>
       ELSE /\ buf' = [buf EXCEPT ![cur] = IF Len(stage.buf) = BufCap THEN <<>> ELSE stage.buf]
            /\ dirty' = [dirty EXCEPT ![cur] = stage.dirty]
            /\ Abort
  /\ UNCHANGED <<kernelVars, dirVars, logVars, fd, mem, hist, pool, procVars, cur, loadVars, added>>

RollbackTruncate ==
  /\ pc = "truncate"
  /\ \/ /\ log' = [log EXCEPT ![cur] = stage.file]
        /\ slog' = [slog EXCEPT ![cur] = stage.file] \/ (May("undo") /\ UNCHANGED slog)
     \/ May("undo") /\ UNCHANGED logVars
  /\ buf' = [buf EXCEPT ![cur] = <<>>] /\ dirty' = [dirty EXCEPT ![cur] = FALSE]
  /\ Abort
  /\ UNCHANGED <<kernelVars, dirVars, fd, mem, hist, pool, procVars, cur, loadVars, added>>

RestoreClean ==
  /\ pc = "restore"
  /\ UpdateMeta(cur, "clean") \/ (May("undo") /\ UNCHANGED <<dirVars, logVars, memVars>>)
  /\ Return
  /\ UNCHANGED <<kernelVars, pool, procVars, cur, loadVars, added>>

-----------------------------------------------------------------------------
(* bloomd_sync_dirty_logs, one filter: on the timer, or forced while the   *)
(* daemon stops.                                                           *)

SyncBegin(n) ==
  /\ pc = "idle" /\ dirty[n]
  /\ IF stopping THEN n \in queue /\ queue' = queue \ {n} ELSE UNCHANGED queue
  /\ cur' = n /\ Goto("sync_write")
  /\ UNCHANGED <<kernelVars, dirVars, logVars, memVars, pool, mode, stopping, loadVars, added>>

SyncWrite ==
  /\ pc = "sync_write"
  /\ (Flush(cur) /\ Goto("sync_fsync")) \/ (FlushFails(cur) /\ Return)
  /\ UNCHANGED <<kernelVars, dirVars, slog, fd, mem, hist, dirty, pool, procVars, cur, loadVars, added>>

BugSyncFsync ==
  /\ pc = "sync_fsync"
  /\ Fsync(cur) /\ dirty' = [dirty EXCEPT ![cur] = FALSE]
  /\ IF mem[cur] = "dirty" THEN Goto("sync_meta") ELSE Return
  /\ UNCHANGED <<kernelVars, dirVars, log, fd, mem, hist, buf, pool, procVars, cur, loadVars, added>>

SyncFsync ==
  /\ pc = "sync_fsync"
  /\ \/ /\ Fsync(cur)
        /\ dirty' = [dirty EXCEPT ![cur] = FALSE]
        /\ IF mem[cur] = "dirty" /\ ~hist[cur] THEN Goto("sync_meta") ELSE Return
     \/ May("io") /\ Return /\ UNCHANGED <<slog, dirty>>
  /\ UNCHANGED <<kernelVars, dirVars, log, fd, mem, hist, buf, pool, procVars, cur, loadVars, added>>

BugSyncMeta ==
  /\ pc = "sync_meta" /\ Return
  /\ UNCHANGED <<kernelVars, dirVars, logVars, memVars, pool, procVars, cur, loadVars, added>>

SyncMeta ==
  /\ pc = "sync_meta"
  /\ UpdateMeta(cur, "clean") \/ (May("io") /\ UNCHANGED <<dirVars, logVars, memVars>>)
  /\ Return
  /\ UNCHANGED <<kernelVars, pool, procVars, cur, loadVars, added>>

-----------------------------------------------------------------------------
(* DROP (bloomd_handle_drop, bloomd_filter_set_remove_n).                  *)

(* n leaves the filter set: its descriptors are closed.                    *)
Forget(n) ==
  /\ fd' = [fd EXCEPT ![n] = NoMap]
  /\ mem' = [mem EXCEPT ![n] = "absent"]
  /\ hist' = [hist EXCEPT ![n] = FALSE]
  /\ dirty' = [dirty EXCEPT ![n] = FALSE]
  /\ buf' = [buf EXCEPT ![n] = <<>>]

DropBegin(n) ==
  /\ Idle /\ n \in Loaded
  /\ cur' = n /\ Goto(IF HasData(mem[n]) THEN "drop_unpin" ELSE "drop_meta")
  /\ UNCHANGED <<kernelVars, dirVars, logVars, memVars, pool, procVars, loadVars, added>>

DropUnpin ==
  /\ pc = "drop_unpin"
  /\ \/ pin' = [pin EXCEPT ![cur] = NoMap] /\ Goto("drop_meta")
     \/ May("io") /\ Return /\ UNCHANGED pin
  /\ UNCHANGED <<bits, dirVars, logVars, memVars, pool, procVars, cur, loadVars, added>>

(* An empty filter's map goes to the pool (bloomd_store_empty_map).        *)
BugDropMeta ==
  /\ pc = "drop_meta"
  /\ meta' = [meta EXCEPT ![cur] = "absent"]
  /\ added' = [added EXCEPT ![cur] = {}]
  /\ pool' = fd[cur] /\ Forget(cur) /\ Return
  /\ UNCHANGED <<kernelVars, par, smeta, logVars, procVars, cur, loadVars>>

DropMeta ==
  /\ pc = "drop_meta"
  /\ meta' = [meta EXCEPT ![cur] = "absent"]
  /\ added' = [added EXCEPT ![cur] = {}]
  /\ IF HasData(mem[cur])
       THEN Goto("drop_log") /\ UNCHANGED <<memVars, pool>>
       ELSE pool' = fd[cur] /\ Forget(cur) /\ Return
  /\ UNCHANGED <<kernelVars, par, smeta, logVars, procVars, cur, loadVars>>

BugDropMetaFails ==
  /\ pc = "drop_meta" /\ May("io") /\ Return
  /\ UNCHANGED <<kernelVars, dirVars, logVars, memVars, pool, procVars, cur, loadVars, added>>

DropMetaFails ==
  /\ pc = "drop_meta" /\ May("io")
  /\ IF HasData(mem[cur]) THEN Goto("drop_repin") ELSE Return
  /\ UNCHANGED <<kernelVars, dirVars, logVars, memVars, pool, procVars, cur, loadVars, added>>

DropRepin ==
  /\ pc = "drop_repin"
  /\ pin' = [pin EXCEPT ![cur] = fd[cur]] \/ (May("undo") /\ UNCHANGED pin)
  /\ Return
  /\ UNCHANGED <<bits, dirVars, logVars, memVars, pool, procVars, cur, loadVars, added>>

(* When the log cannot be removed, the flush of bloomd_filter_set_remove_n *)
(* still reaches the file.                                                 *)
DropLog ==
  /\ pc = "drop_log"
  /\ \/ log' = [log EXCEPT ![cur] = NoFile]
     \/ May("io") /\ log' = [log EXCEPT ![cur] = Written(@, buf[cur])]
     \/ May("io") /\ \E f \in WriteFailures(log[cur], buf[cur]) : log' = [log EXCEPT ![cur] = f]
  /\ Forget(cur) /\ Return
  /\ UNCHANGED <<kernelVars, dirVars, slog, pool, procVars, cur, loadVars, added>>

-----------------------------------------------------------------------------
(* Startup (main, bloomd_load_metadata_dir, bloomd_cleanup_orphan_pins).   *)

Start ==
  /\ pc = "down"
  /\ mode' \in Modes
  /\ queue' = {n \in Names : meta[n] # "absent"}
  /\ Goto("load")
  /\ UNCHANGED <<kernelVars, dirVars, logVars, memVars, pool, stopping, cur, loadVars, added>>

Entry(n) == pc = "load" /\ n \in queue /\ cur' = n /\ queue' = queue \ {n}

(* The pin is there and its parameters are those of the metadata.          *)
LoadPinned(n) ==
  /\ Entry(n)
  /\ pin[n] # NoMap /\ ParamOf[pin[n]] = par[n]
  /\ newmap' = pin[n] /\ Goto("load_log")
  /\ UNCHANGED <<kernelVars, dirVars, logVars, memVars, pool, mode, stopping, rebuilt, added>>

(* No pin and has_data=0: a new, empty map, which is not pinned.           *)
LoadEmpty(n) ==
  /\ Entry(n)
  /\ pin[n] = NoMap /\ meta[n] = "empty"
  /\ \E m \in Fresh(par[n]) : newmap' = m /\ bits' = [bits EXCEPT ![m] = {}]
  /\ Goto("load_log")
  /\ UNCHANGED <<pin, dirVars, logVars, memVars, pool, mode, stopping, rebuilt, added>>

(* bloomd_rebuild_from_log: a new map takes the records of the log, whose  *)
(* partial tail is cut off, and is pinned.                                 *)
LoadReplay(n) ==
  /\ Entry(n)
  /\ pin[n] = NoMap /\ meta[n] = "clean" /\ log[n] # NoFile
  /\ \E m \in Fresh(par[n]) : newmap' = m /\ bits' = [bits EXCEPT ![m] = log[n].recs]
  /\ log' = [log EXCEPT ![n].off = 0]
  /\ Goto("load_pin")
  /\ UNCHANGED <<pin, dirVars, slog, memVars, pool, mode, stopping, rebuilt, added>>

LoadPin ==
  /\ pc = "load_pin"
  /\ pin' = [pin EXCEPT ![cur] = newmap]
  /\ rebuilt' = TRUE /\ Goto("load_log")
  /\ UNCHANGED <<bits, dirVars, logVars, memVars, pool, procVars, cur, newmap, added>>

(* bloomd_meta_recover_stale: the metadata is renamed, the entry skipped.  *)
RecoverStale(n) ==
  /\ meta' = [meta EXCEPT ![n] = "absent"] \/ (May("undo") /\ UNCHANGED meta)
  /\ Goto("load")
  /\ UNCHANGED <<kernelVars, par, smeta, logVars, memVars, pool, mode, stopping, loadVars, added>>

(* Neither pin nor log: the metadata is stale.                             *)
LoadStale(n) ==
  /\ Entry(n)
  /\ pin[n] = NoMap /\ meta[n] = "clean" /\ log[n] = NoFile
  /\ RecoverStale(n)

(* bloomd_meta_read_file fails: the metadata counts as invalid.            *)
LoadUnreadable(n) == Entry(n) /\ May("read") /\ RecoverStale(n)

(* The log is opened for appending, created if need be, and the filter     *)
(* joins the set.                                                          *)
LoadPublish ==
  /\ pc = "load_log"
  /\ log' = [log EXCEPT ![cur] = IF HasData(meta[cur]) /\ @ = NoFile THEN EmptyFile ELSE @]
  /\ fd' = [fd EXCEPT ![cur] = newmap]
  /\ mem' = [mem EXCEPT ![cur] = meta[cur]]
  /\ hist' = [hist EXCEPT ![cur] = (meta[cur] = "dirty")]
  /\ newmap' = NoMap /\ rebuilt' = FALSE /\ Goto("load")
  /\ UNCHANGED <<kernelVars, dirVars, slog, buf, dirty, pool, procVars, cur, added>>

(* What makes the daemon refuse to start: a map that is gone while the log *)
(* may miss its tail, or a pinned map that is not the one of the metadata. *)
Refuses(n) ==
  \/ pin[n] = NoMap /\ meta[n] = "dirty"
  \/ pin[n] # NoMap /\ ParamOf[pin[n]] # par[n]

LoadRefuse(n) ==
  /\ Entry(n) /\ Refuses(n)
  /\ Goto("free")
  /\ UNCHANGED <<kernelVars, dirVars, logVars, memVars, pool, mode, stopping, loadVars, added>>

BugLoadFails ==
  /\ pc \in LoadPcs /\ May("io")
  /\ pin' = [pin EXCEPT ![cur] = IF pc \in {"load_pin", "load_log"} THEN NoMap ELSE @]
  /\ newmap' = NoMap /\ rebuilt' = FALSE /\ queue' = {} /\ Goto("free")
  /\ UNCHANGED <<bits, dirVars, logVars, memVars, pool, mode, stopping, cur, added>>

(* cleanup_entry, after any failing call, and the later failures of main.  *)
LoadFails ==
  /\ pc \in LoadPcs /\ May("io")
  /\ \/ rebuilt /\ pin' = [pin EXCEPT ![cur] = NoMap]
     \/ (rebuilt => May("undo")) /\ UNCHANGED pin
  /\ newmap' = NoMap /\ rebuilt' = FALSE /\ queue' = {} /\ Goto("free")
  /\ UNCHANGED <<bits, dirVars, logVars, memVars, pool, mode, stopping, cur, added>>

BugLoadDone ==
  /\ pc = "load" /\ Goto("orphans")
  /\ UNCHANGED <<kernelVars, dirVars, logVars, memVars, pool, procVars, cur, loadVars, added>>

LoadDone ==
  /\ pc = "load" /\ queue = {}
  /\ Goto("orphans")
  /\ UNCHANGED <<kernelVars, dirVars, logVars, memVars, pool, procVars, cur, loadVars, added>>

CleanupOrphanPins ==
  /\ pc = "orphans"
  /\ \E kept \in SUBSET (Names \ Loaded) :
       /\ kept # {} => May("undo")
       /\ pin' = [n \in Names |-> IF n \in Loaded \cup kept THEN pin[n] ELSE NoMap]
  /\ Goto("listen")
  /\ UNCHANGED <<bits, dirVars, logVars, memVars, pool, procVars, cur, loadVars, added>>

Listen ==
  /\ pc = "listen" /\ Return
  /\ UNCHANGED <<kernelVars, dirVars, logVars, memVars, pool, procVars, cur, loadVars, added>>

-----------------------------------------------------------------------------
(* The end of the process.                                                 *)

(* SIGTERM or SIGINT, seen at the top of the loop of main: every dirty log *)
(* is synced once more, then the set is freed.                             *)
BugStop ==
  /\ Idle /\ stopping' = TRUE /\ queue' = {}
  /\ UNCHANGED <<kernelVars, dirVars, logVars, memVars, pool, pc, mode, cur, itemVars, loadVars, added>>

Stop ==
  /\ Idle
  /\ stopping' = TRUE /\ queue' = {n \in Names : dirty[n]}
  /\ UNCHANGED <<kernelVars, dirVars, logVars, memVars, pool, pc, mode, cur, itemVars, loadVars, added>>

StopSynced ==
  /\ pc = "idle" /\ stopping /\ queue = {}
  /\ Goto("free")
  /\ UNCHANGED <<kernelVars, dirVars, logVars, memVars, pool, procVars, cur, loadVars, added>>

(* bloomd_filter_set_free, one filter: flush, fsync, close.                *)
FreeFilter(n) ==
  /\ pc = "free" /\ n \in Loaded
  /\ IF HasData(mem[n])
       THEN \/ /\ log' = [log EXCEPT ![n] = Written(@, buf[n])]
               /\ slog' = [slog EXCEPT ![n] = log'[n]] \/ (May("io") /\ UNCHANGED slog)
            \/ /\ \E f \in WriteFailures(log[n], buf[n]) : log' = [log EXCEPT ![n] = f]
               /\ UNCHANGED slog
       ELSE UNCHANGED logVars
  /\ Forget(n) /\ Goto("free")
  /\ UNCHANGED <<kernelVars, dirVars, pool, procVars, cur, loadVars, added>>

Exit ==
  /\ pc = "free" /\ Loaded = {}
  /\ pool' = NoMap /\ stopping' = FALSE /\ queue' = {} /\ Goto("down") /\ Reclaim
  /\ UNCHANGED <<pin, dirVars, logVars, memVars, mode, cur, loadVars, added>>

ProcessGone ==
  /\ pc' = "down" /\ stopping' = FALSE /\ queue' = {}
  /\ fd' = [n \in Names |-> NoMap] /\ mem' = [n \in Names |-> "absent"]
  /\ hist' = [n \in Names |-> FALSE] /\ dirty' = [n \in Names |-> FALSE]
  /\ buf' = [n \in Names |-> <<>>]
  /\ pool' = NoMap /\ newmap' = NoMap /\ rebuilt' = FALSE
  /\ items' = <<>> /\ marked' = FALSE /\ any' = FALSE /\ stage' = NoStage
  /\ UNCHANGED <<mode, cur>>

Kill ==
  /\ May("kill") /\ pc # "down"
  /\ ProcessGone /\ Reclaim
  /\ UNCHANGED <<pin, dirVars, logVars, added>>

(* What may be left of a log: all of it when it was durable; otherwise the *)
(* durable records, any of the others, and any length in between.          *)
Survives(visible, stable, f) ==
  IF visible = stable THEN f = visible
  ELSE \/ f = NoFile /\ NoFile \in {visible, stable}
       \/ /\ f # NoFile
          /\ visible = NoFile => f = stable
          /\ visible # NoFile /\ stable = NoFile => f.recs \subseteq visible.recs
          /\ visible # NoFile /\ stable # NoFile =>
               stable.recs \subseteq f.recs /\ f.recs \subseteq stable.recs \cup visible.recs

(* bpffs is gone; a file system promises what was synced, in no order.     *)
HostCrash ==
  /\ May("host")
  /\ ProcessGone
  /\ pin' = [n \in Names |-> NoMap] /\ bits' = [m \in Maps |-> {}]
  /\ \E kept \in SUBSET Names : meta' = [n \in Names |-> IF n \in kept THEN meta[n] ELSE smeta[n]]
  /\ log' \in [Names -> LogFile \cup {NoFile}] /\ \A n \in Names : Survives(log[n], slog[n], log'[n])
  /\ smeta' = meta' /\ slog' = log'
  /\ UNCHANGED <<par, added>>

PinRemoved(n) ==
  /\ May("unpin") /\ pin[n] # NoMap
  /\ pin' = [pin EXCEPT ![n] = NoMap]
  /\ UNCHANGED <<bits, dirVars, logVars, memVars, pool, pc, procVars, cur, itemVars, loadVars, added>>

-----------------------------------------------------------------------------
Requests ==
  \/ \E n \in Names, p \in Params : CreateBegin(n, p)
  \/ \E n \in Names, batch \in Batches : AddBegin(n, batch)
  \/ \E n \in Names : DropBegin(n)

Create == CreateMeta \/ CreateMetaFails \/ CreateAdd \/ CreateAddFails

Add ==
  \/ EnsurePin \/ EnsureLog \/ EnsureMeta \/ EnsureUndoLog \/ EnsureUndoPin
  \/ MarkDirty \/ StageDigest \/ StageWrite \/ StageFsync
  \/ BpfAdd \/ BpfAddFails \/ RollbackTruncate \/ RestoreClean

Sync == SyncWrite \/ SyncFsync \/ SyncMeta

Drop == DropUnpin \/ DropMeta \/ DropMetaFails \/ DropRepin \/ DropLog

Load ==
  \/ \E n \in Names :
       LoadPinned(n) \/ LoadEmpty(n) \/ LoadReplay(n) \/ LoadStale(n) \/ LoadUnreadable(n) \/ LoadRefuse(n)
  \/ LoadPin \/ LoadPublish \/ LoadFails \/ LoadDone \/ CleanupOrphanPins \/ Listen

Shutdown == StopSynced \/ (\E n \in Names : FreeFilter(n)) \/ Exit

(* What the process does on its own once it has begun something.           *)
Daemon == Create \/ Add \/ Sync \/ Drop \/ Load \/ Shutdown

Environment == Start \/ Requests \/ Stop \/ Kill \/ HostCrash \/ \E n \in Names : PinRemoved(n)

Next == Daemon \/ (\E n \in Names : SyncBegin(n)) \/ Environment

Spec == Init /\ [][Next]_vars

(* The process keeps running its handlers, and the loop of main calls      *)
(* bloomd_sync_dirty_logs at the end of every iteration, at least every    *)
(* BLOOMD_POLL_TIMEOUT_MS, however many requests it serves in between.     *)
FairSpec == Spec /\ WF_vars(Daemon) /\ \A n \in Names : SF_vars(SyncBegin(n))

-----------------------------------------------------------------------------
(* Every digest added to a filter is found in the map that answers CHECK,  *)
(* whatever crashes and restarts lie in between, for as long as the filter *)
(* is not dropped: bloomd_handle_add_check looks in filter->map_fd.        *)
NoFalseNegative == \A n \in Loaded : added[n] \subseteq bits[fd[n]]

(* log_clean=1 on disk is a promise that bloomd_rebuild_from_log relies on *)
(* after the host went down: the durable part of the log holds every       *)
(* digest that was added.                                                  *)
CleanLogComplete ==
  \A n \in Names : meta[n] = "clean" => added[n] \subseteq Recs(slog[n])

(* Between requests, a digest that waits in the buffer of a "periodic"     *)
(* daemon is known to be pending: log_dirty makes the timer write it, and  *)
(* log_clean=0 on disk warns a restart that comes first.                   *)
PendingIsMarked ==
  pc = "idle" /\ mode = "periodic" =>
    \A n \in Names : buf[n] # <<>> => dirty[n] /\ meta[n] = "dirty"

(* Once a digest was added, nothing short of DROP makes the filter one     *)
(* that a restart would bring back empty or not at all.                    *)
NeverForgotten == \A n \in Names : added[n] # {} => HasData(meta[n])

(* filter->meta is what n.meta says whenever the daemon is about to read a *)
(* request: every handler, on every error path, changes both or neither.   *)
(* And a filter with data is pinned, if it is pinned, to its own map.      *)
DiskMatchesMemory ==
  pc = "idle" => \A n \in Loaded : mem[n] = meta[n] /\ (pin[n] = NoMap \/ pin[n] = fd[n] \/ meta[n] = "empty")

(* Each filter has a map of its own (README.md: "A pinned kernel Bloom map *)
(* in /sys/fs/bpf/bloomd/<name>"): no two filters of the set answer CHECK  *)
(* from one map.                                                           *)
OwnMap == \A n, k \in Loaded : fd[n] = fd[k] => n = k

(* The map that bloomd_take_empty_map will hand to the next CREATE has no  *)
(* digests in it, and no filter and no pin refers to it.                   *)
PoolIsUnused == pool # NoMap => bits[pool] = {} /\ pool \notin Range(pin) \cup Range(fd)

(* A restart loads what the process before it left: it meets no metadata   *)
(* for which bloomd_load_metadata_dir gives up.                            *)
NeverRefused == pc = "load" => \A n \in queue : ~Refuses(n)

(* A filter that is reported metadata-only has no pinned map yet, so that  *)
(* its first ADD can pin one (bpf_obj_pin fails on an existing path).      *)
MetadataOnlyUnpinned == pc = "idle" => \A n \in Loaded : mem[n] = "empty" => pin[n] = NoMap

(* When the loop of main has ended and the set is freed, the forced sync   *)
(* has made every log complete on disk, except the ones that were already  *)
(* incomplete when they were loaded.                                       *)
StopSyncsAll ==
  pc = "free" /\ stopping => \A n \in Loaded : mem[n] = "dirty" => hist[n]

(* A log that the daemon itself marked as lagging behind the map is synced *)
(* and its metadata says so again, however busy the daemon is.             *)
SyncedEventually ==
  \A n \in Names : (mem[n] = "dirty" /\ ~hist[n]) ~> (mem[n] # "dirty" \/ hist[n])
=============================================================================
