--------------------------- MODULE FilterStoreMaps ---------------------------
(***************************************************************************)
(* Whose map is whose: the properties of pins, descriptors and the pool of *)
(* empty maps, for a bloomd that is not killed and that takes back what it *)
(* means to take back; that its next start then refuses no filter; and     *)
(* that a stop leaves no digest unsynced.                                  *)
(***************************************************************************)
EXTENDS FilterStoreControl

(* A step that makes no map, moves none, and gives none away.              *)
LEMMA MapFrame ==
  ASSUME MapInv, UNCHANGED <<bits, par, fd, pool>>, newmap' = NoMap,
         \A n \in Names : pin'[n] \in {pin[n], NoMap},
         \A n \in Names : mem'[n] = "empty" => mem[n] = "empty",
         \A n \in Names : n \notin Loaded => meta'[n] \in {meta[n], "absent"},
         pc \in PinnedPcs => mem'[cur] # "empty" \/ pin'[cur] = NoMap \/ (pc' \in PinnedPcs /\ cur' = cur),
         \A n \in Names : n \notin Loaded /\ pin'[n] # NoMap => pc' \in OrphanPcs,
         pc' \in UnpinnedPcs => pin'[cur'] = NoMap
  PROVE  MapInv'
  <1>1. Loaded' = Loaded /\ \A n \in Names : Held(n)' \subseteq Held(n)
    BY Zenon DEF Loaded, Held
  <1>2. \A n \in Loaded' : OwnInv(n)'
    BY <1>1, Zenon DEF MapInv, OwnInv, Loaded
  <1>3. \A n \in Names \ Loaded' : OrphanInv(n)'
    BY <1>1, ZenonT(60) DEF MapInv, OrphanInv
  <1>4. \A n, k \in Names : n # k => Held(n)' \cap Held(k)' = {}
    BY <1>1, Zenon DEF MapInv
  <1>5. NewInv' /\ PoolInv'
    BY <1>1, Zenon DEF MapInv, NewInv, PoolInv
  <1> QED
    BY <1>2, <1>3, <1>4, <1>5, Zenon DEF MapInv

(* No map is under way outside CREATE and the loading of an entry.         *)
LEMMA NoneUnderWay == ASSUME MapInv, pc \notin NewPcs PROVE newmap = NoMap
  BY Zenon DEF MapInv, NewInv

(* A pin of no filter is there only around a start.                        *)
LEMMA NoOrphans ==
  ASSUME MapInv, pc \notin OrphanPcs, NEW n \in Names, n \notin Loaded
  PROVE  pin[n] = NoMap
  BY Zenon DEF MapInv, OrphanInv

(* ADD and MADD where they touch neither pin nor map: a metadata-only      *)
(* filter stays pinned only until bloomd_ensure_filter_durable is done.    *)
LEMMA EnsureMaps ==
  ASSUME TypeOK, ControlInv, MapInv,
         (\E n \in Names, batch \in Batches : AddBegin(n, batch)) \/ EnsureLog \/ EnsureMeta \/ EnsureUndoLog
  PROVE  MapInv'
  <1>1. /\ cur \in Names /\ mem \in [Names -> MetaStates] /\ meta \in [Names -> MetaStates]
    BY Zenon DEF TypeOK, ControlType, SetType, FileType
  <1>2. UNCHANGED <<pin, bits, par, fd, pool, newmap>>
    BY Zenon
       DEF AddBegin, EnsureLog, EnsureMeta, EnsureUndoLog, UpdateMeta, kernelVars, dirVars, memVars,
           loadVars
  <1>3. CASE \E n \in Names, batch \in Batches : AddBegin(n, batch)
    <2>1. UNCHANGED <<mem, meta>> /\ pc = "idle" /\ pc' \in {"pin", "mark", "stage"}
      BY <1>3, Zenon DEF AddBegin, AfterDurable, Idle, memVars, dirVars
    <2>2. pc \notin NewPcs \cup PinnedPcs \cup OrphanPcs /\ pc' \notin UnpinnedPcs
      BY <2>1 DEF NewPcs, MakePcs, PinnedPcs, OrphanPcs, UnpinnedPcs
    <2> QED
      BY <1>2, <2>1, <2>2, NoneUnderWay, NoOrphans, MapFrame, Zenon
  <1>4. CASE EnsureLog \/ EnsureMeta \/ EnsureUndoLog
    <2>1. /\ pc \in {"create_log", "set_has_data", "undo_log"} /\ cur' = cur
          /\ pc' \in {"set_has_data", "undo_pin", "undo_log", "mark", "stage"}
      BY <1>4, ZenonT(60) DEF EnsureLog, EnsureMeta, EnsureUndoLog, AfterDurable, Goto
    <2>2. pc \notin NewPcs \cup OrphanPcs /\ pc' \notin UnpinnedPcs
      BY <2>1 DEF NewPcs, MakePcs, OrphanPcs, UnpinnedPcs
    <2>3. cur \in Loaded
      BY <2>1 DEF ControlInv, PcInv, AddPcs
    <2>4. \A n \in Names : n \notin Loaded => meta'[n] = meta[n]
      BY <1>1, <1>4, <2>3, Zenon
         DEF EnsureLog, EnsureMeta, EnsureUndoLog, UpdateMeta, MetaWrite, dirVars
    <2>5. \A n \in Names : mem'[n] = "empty" => mem[n] = "empty"
      BY <1>1, <1>4, Zenon DEF EnsureLog, EnsureMeta, EnsureUndoLog, UpdateMeta, memVars
    <2>6. mem'[cur] # "empty" \/ pc' \in PinnedPcs
      BY <1>1, <1>4, Zenon DEF EnsureLog, EnsureMeta, EnsureUndoLog, UpdateMeta, Goto, PinnedPcs
    <2> QED
      BY <1>2, <2>1, <2>2, <2>4, <2>5, <2>6, NoneUnderWay, NoOrphans, MapFrame, ZenonT(60)
  <1> QED
    BY <1>3, <1>4, Zenon

(* The other steps of ADD and of the sync that only touch files.           *)
LEMMA FileStepMaps ==
  ASSUME TypeOK, ControlInv, MapInv,
         MarkDirty \/ StageDigest \/ StageWrite \/ StageFsync \/ BpfAddFails \/ RollbackTruncate \/ RestoreClean
           \/ Sync \/ (\E n \in Names : SyncBegin(n)) \/ Stop \/ StopSynced
  PROVE  MapInv'
  <1>1. /\ cur \in Names /\ mem \in [Names -> MetaStates] /\ meta \in [Names -> MetaStates]
    BY Zenon DEF TypeOK, ControlType, SetType, FileType
  <1>2. UNCHANGED <<pin, bits, par, fd, pool, newmap>>
    BY ZenonT(60)
       DEF MarkDirty, StageDigest, StageWrite, StageFsync, BpfAddFails, RollbackTruncate,
           RestoreClean, Sync, SyncWrite, SyncFsync, SyncMeta, SyncBegin, Stop, StopSynced,
           UpdateMeta, kernelVars, dirVars, memVars, loadVars
  <1>3. pc \in {"mark", "stage", "write", "fsync", "bpf", "truncate", "restore", "idle"} \cup SyncPcs
    BY ZenonT(60)
       DEF MarkDirty, StageDigest, StageWrite, StageFsync, BpfAddFails, RollbackTruncate,
           RestoreClean, Sync, SyncWrite, SyncFsync, SyncMeta, SyncBegin, Stop, StopSynced, Idle,
           SyncPcs
  <1>4. pc \notin NewPcs \cup OrphanPcs \cup PinnedPcs
    BY <1>3 DEF NewPcs, MakePcs, OrphanPcs, PinnedPcs, SyncPcs
  <1>5. pc' \notin UnpinnedPcs
    BY <1>3, ZenonT(60)
       DEF MarkDirty, StageDigest, StageWrite, StageFsync, BpfAddFails, RollbackTruncate,
           RestoreClean, Sync, SyncWrite, SyncFsync, SyncMeta, SyncBegin, Stop, StopSynced, Idle,
           Abort, Goto, Return, UnpinnedPcs
  <1>6. CASE UNCHANGED <<mem, meta>>
    BY <1>2, <1>4, <1>5, <1>6, NoneUnderWay, NoOrphans, MapFrame, Zenon
  <1>7. CASE (MarkDirty \/ RestoreClean \/ SyncMeta) /\ (UpdateMeta(cur, "clean") \/ UpdateMeta(cur, "dirty"))
    <2>1. cur \in Loaded
      <3>1. pc \in {"mark", "restore", "sync_meta"}
        BY <1>7, Zenon DEF MarkDirty, RestoreClean, SyncMeta
      <3> QED
        BY <3>1 DEF ControlInv, PcInv, AddPcs, SyncPcs
    <2>2. \A n \in Names : mem'[n] = "empty" => mem[n] = "empty"
      BY <1>1, <1>7, Zenon DEF UpdateMeta
    <2>3. \A n \in Names : n \notin Loaded => meta'[n] = meta[n]
      BY <1>1, <1>7, <2>1, Zenon DEF UpdateMeta, MetaWrite
    <2> QED
      BY <1>2, <1>4, <1>5, <2>2, <2>3, NoneUnderWay, NoOrphans, MapFrame, ZenonT(60)
  <1> QED
    BY <1>6, <1>7, ZenonT(60)
       DEF MarkDirty, StageDigest, StageWrite, StageFsync, BpfAddFails, RollbackTruncate,
           RestoreClean, Sync, SyncWrite, SyncFsync, SyncMeta, SyncBegin, Stop, StopSynced, dirVars,
           memVars

(* The pin of a filter of the set is made, or made again.                  *)
LEMMA PinMaps ==
  ASSUME TypeOK, ControlInv, MapInv, EnsurePin \/ DropRepin
  PROVE  MapInv'
  <1>1. cur \in Names /\ pin \in [Names -> Maps \cup {NoMap}]
    BY Zenon DEF TypeOK, ControlType, KernelType
  <1>2. UNCHANGED <<bits, par, fd, pool, newmap, mem, meta, cur>> /\ pc \in {"pin", "drop_repin"}
    BY Zenon DEF EnsurePin, DropRepin, dirVars, memVars, loadVars
  <1>3. cur \in Loaded /\ pc \notin NewPcs \cup OrphanPcs \cup PinnedPcs
    BY <1>2 DEF ControlInv, PcInv, AddPcs, DropPcs, NewPcs, MakePcs, OrphanPcs, PinnedPcs
  <1>4. CASE UNCHANGED pin
    <2>1. pc' \notin UnpinnedPcs
      BY <1>2, <1>4, MapNotNone, Zenon DEF EnsurePin, DropRepin, Goto, Return, UnpinnedPcs
    <2> QED
      BY <1>2, <1>3, <1>4, <2>1, NoneUnderWay, NoOrphans, MapFrame, ZenonT(60)
  <1>5. CASE pin' = [pin EXCEPT ![cur] = fd[cur]] /\ (mem[cur] = "empty" => pc' \in PinnedPcs) /\ pc' \notin UnpinnedPcs
    <2>1. Loaded' = Loaded /\ newmap = NoMap
      BY <1>2, <1>3, NoneUnderWay, Zenon DEF Loaded
    <2>2. pin'[cur] = fd[cur] /\ \A n \in Names : n # cur => pin'[n] = pin[n]
      BY <1>1, <1>5, Zenon
    <2>3. pin[cur] \in {NoMap, fd[cur]} /\ fd[cur] # NoMap
      BY <1>3, Zenon DEF MapInv, OwnInv, Loaded
    <2>4. \A n \in Names : Held(n)' = Held(n)
      BY <1>2, <2>2, <2>3 DEF Held
    <2>5. \A n \in Loaded' : OwnInv(n)'
      BY <1>2, <1>3, <1>5, <2>1, <2>2, ZenonT(60) DEF MapInv, OwnInv, Loaded
    <2>6. \A n \in Names \ Loaded' : OrphanInv(n)'
      BY <1>3, <2>1, <2>2, NoOrphans, Zenon DEF OrphanInv
    <2>7. \A n, k \in Names : n # k => Held(n)' \cap Held(k)' = {}
      BY <2>4, Zenon DEF MapInv
    <2>8. NewInv' /\ PoolInv'
      BY <1>2, <2>1, <2>4, Zenon DEF MapInv, NewInv, PoolInv
    <2> QED
      BY <1>5, <2>5, <2>6, <2>7, <2>8, ZenonT(60) DEF MapInv
  <1>6. CASE EnsurePin
    <2>1. pc' = "create_log" => pc' \in PinnedPcs /\ pc' \notin UnpinnedPcs
      BY DEF PinnedPcs, UnpinnedPcs
    <2> QED
      BY <1>4, <1>5, <1>6, <2>1, Zenon DEF EnsurePin, Goto
  <1>7. CASE DropRepin
    <2>1. mem[cur] # "empty" /\ pc' \notin UnpinnedPcs
      BY <1>7 DEF DropRepin, Return, UnpinnedPcs, ControlInv, PcInv, DataPcs, DropPcs, HasData
    <2> QED
      BY <1>4, <1>5, <1>7, <2>1, ZenonT(60) DEF DropRepin
  <1> QED
    BY <1>6, <1>7, Zenon

(* The pin is removed: by DROP, by the rollback of ADD, by the cleanup of  *)
(* a start, which leaves none behind that has no filter.                   *)
LEMMA UnpinMaps ==
  ASSUME TypeOK, ControlInv, MapInv, UndoWorks,
         (\E n \in Names : DropBegin(n)) \/ DropUnpin \/ DropMetaFails \/ EnsureUndoPin \/ CleanupOrphanPins
  PROVE  MapInv'
  <1>1. cur \in Names /\ pin \in [Names -> Maps \cup {NoMap}] /\ ~May("undo")
    BY Zenon DEF TypeOK, ControlType, KernelType, UndoWorks, May
  <1>2. UNCHANGED <<bits, par, fd, pool, newmap, mem, meta>>
    BY Zenon
       DEF DropBegin, DropUnpin, DropMetaFails, EnsureUndoPin, CleanupOrphanPins, kernelVars,
           dirVars, memVars, loadVars
  <1>3. \A n \in Names : pin'[n] \in {pin[n], NoMap}
    BY <1>1, Zenon
       DEF DropBegin, DropUnpin, DropMetaFails, EnsureUndoPin, CleanupOrphanPins, kernelVars
  <1>4. pc \in {"idle", "drop_unpin", "drop_meta", "undo_pin", "orphans"}
    BY ZenonT(60) DEF DropBegin, DropUnpin, DropMetaFails, EnsureUndoPin, CleanupOrphanPins, Idle
  <1>5. newmap = NoMap
    <2>1. pc \notin NewPcs
      BY <1>4 DEF NewPcs, MakePcs
    <2> QED
      BY <2>1, NoneUnderWay, Zenon
  <1>6. pc \in PinnedPcs => pin'[cur] = NoMap
    <2>1. pc \in PinnedPcs => pc = "undo_pin"
      BY <1>4 DEF PinnedPcs
    <2>2. pc = "undo_pin" => EnsureUndoPin
      BY DEF DropBegin, DropUnpin, DropMetaFails, CleanupOrphanPins, Idle
    <2> QED
      BY <1>1, <2>1, <2>2, Zenon DEF EnsureUndoPin
  <1>7. \A n \in Names : n \notin Loaded => pin'[n] = NoMap
    <2>1. CASE pc = "orphans"
      <3>1. CleanupOrphanPins
        BY <2>1 DEF DropBegin, DropUnpin, DropMetaFails, EnsureUndoPin, Idle
      <3> QED
        BY <1>1, <3>1, Zenon DEF CleanupOrphanPins
    <2>2. CASE pc # "orphans"
      <3>1. pc \notin OrphanPcs
        BY <1>4, <2>2 DEF OrphanPcs
      <3> QED
        BY <1>3, <3>1, NoOrphans, Zenon
    <2> QED
      BY <2>1, <2>2, Zenon
  <1>8. pc' \in UnpinnedPcs => pin'[cur'] = NoMap
    <2>1. CASE \E n \in Names : DropBegin(n)
      <3>1. PICK n \in Names : DropBegin(n)
        BY <2>1, Zenon
      <3>2. pc = "idle" /\ pin' = pin /\ cur' = n /\ n \in Loaded /\ pc' = IF HasData(mem[n]) THEN "drop_unpin" ELSE "drop_meta"
        BY <3>1, Zenon DEF DropBegin, Idle, kernelVars, Goto
      <3>3. pc' \in UnpinnedPcs => ~HasData(mem[n])
        BY <3>2 DEF UnpinnedPcs
      <3>4. ~HasData(mem[n]) => mem[n] = "empty"
        BY <3>2 DEF TypeOK, SetType, MetaStates, HasData, ControlInv, SetInv
      <3>5. pc \notin PinnedPcs
        BY <3>2 DEF PinnedPcs
      <3> QED
        BY <3>2, <3>3, <3>4, <3>5, Zenon DEF MapInv, OwnInv
    <2>2. CASE DropUnpin
      <3>1. pc' = "idle" => pc' \notin UnpinnedPcs
        BY DEF UnpinnedPcs
      <3> QED
        BY <1>1, <2>2, <3>1, Zenon DEF DropUnpin, Return
    <2>3. CASE DropMetaFails
      <3>1. pc \in UnpinnedPcs /\ pin' = pin /\ cur' = cur
        BY <2>3 DEF DropMetaFails, UnpinnedPcs, kernelVars
      <3> QED
        BY <3>1, Zenon DEF MapInv
    <2>4. CASE EnsureUndoPin \/ CleanupOrphanPins
      BY <2>4 DEF EnsureUndoPin, CleanupOrphanPins, Goto, Return, UnpinnedPcs
    <2> QED
      BY <2>1, <2>2, <2>3, <2>4, Zenon
  <1> QED
    BY <1>2, <1>3, <1>5, <1>6, <1>7, <1>8, MapFrame, ZenonT(60)

(* CREATE or a start gives a map up, or a start goes on without one.       *)
LEMMA GiveUpMaps ==
  ASSUME TypeOK, ControlInv, MapInv,
         CreateMetaFails \/ CreateAddFails \/ Start \/ LoadFails \/ LoadDone \/ Listen
           \/ (\E n \in Names : LoadStale(n) \/ LoadUnreadable(n) \/ LoadRefuse(n))
  PROVE  MapInv'
  <1>1. cur \in Names /\ pin \in [Names -> Maps \cup {NoMap}] /\ meta \in [Names -> MetaStates]
    BY Zenon DEF TypeOK, ControlType, KernelType, FileType
  <1>2. UNCHANGED <<bits, par, fd, pool, mem>>
    BY Zenon
       DEF CreateMetaFails, CreateAddFails, Start, LoadFails, LoadDone, Listen, LoadStale,
           LoadUnreadable, RecoverStale, LoadRefuse, kernelVars, dirVars, memVars
  <1>3. newmap' = NoMap
    <2>1. CASE CreateMetaFails \/ CreateAddFails \/ LoadFails
      BY <2>1, Zenon DEF CreateMetaFails, CreateAddFails, LoadFails
    <2>2. CASE Start \/ LoadDone \/ Listen \/ (\E n \in Names : LoadStale(n) \/ LoadUnreadable(n) \/ LoadRefuse(n))
      <3>1. newmap' = newmap /\ pc \in {"down", "load", "listen"}
        BY <2>2, Zenon
           DEF Start, LoadDone, Listen, LoadStale, LoadUnreadable, RecoverStale, LoadRefuse, Entry,
               loadVars
      <3>2. pc \notin NewPcs
        BY <3>1 DEF NewPcs, MakePcs
      <3> QED
        BY <3>1, <3>2, NoneUnderWay, Zenon
    <2> QED
      BY <2>1, <2>2, Zenon
  <1>4. \A n \in Names : pin'[n] \in {pin[n], NoMap} /\ meta'[n] \in {meta[n], "absent"}
    BY <1>1, ZenonT(60)
       DEF CreateMetaFails, CreateAddFails, Start, LoadFails, LoadDone, Listen, LoadStale,
           LoadUnreadable, RecoverStale, LoadRefuse, kernelVars, dirVars
  <1>5. pc \in {"create_meta", "create_add", "down"} \cup LoadPcs
    BY ZenonT(60)
       DEF CreateMetaFails, CreateAddFails, Start, LoadFails, LoadDone, Listen, LoadStale,
           LoadUnreadable, LoadRefuse, Entry, LoadPcs
  <1>6. pc \notin PinnedPcs
    BY <1>5 DEF PinnedPcs, LoadPcs
  <1>7. pc' \in {"idle", "load", "free", "orphans"} /\ (pc' = "idle" => pc \in {"create_meta", "create_add", "listen"})
    BY ZenonT(60)
       DEF CreateMetaFails, CreateAddFails, Start, LoadFails, LoadDone, Listen, LoadStale,
           LoadUnreadable, RecoverStale, LoadRefuse, Goto, Return
  <1>8. pc' \notin UnpinnedPcs /\ (pc' \in OrphanPcs \/ pc \notin OrphanPcs)
    BY <1>7 DEF UnpinnedPcs, OrphanPcs
  <1>9. \A n \in Names : n \notin Loaded /\ pin'[n] # NoMap => pc' \in OrphanPcs
    BY <1>4, <1>8, NoOrphans, Zenon
  <1> QED
    BY <1>2, <1>3, <1>4, <1>6, <1>8, <1>9, MapFrame, ZenonT(60)

(* Somebody removes a pin.                                                 *)
LEMMA RemovedMaps ==
  ASSUME TypeOK, MapInv, NEW n \in Names, PinRemoved(n)
  PROVE  MapInv'
  <1>1. UNCHANGED <<bits, par, meta, fd, mem, pool, pc, cur, newmap>>
    BY Zenon DEF PinRemoved, dirVars, memVars, loadVars
  <1>2. pin'[n] = NoMap /\ \A k \in Names : pin'[k] \in {pin[k], NoMap}
    BY Zenon DEF PinRemoved, TypeOK, KernelType
  <1>3. cur \in Names
    BY Zenon DEF TypeOK, ControlType
  <1>4. Loaded' = Loaded /\ \A k \in Names : Held(k)' \subseteq Held(k)
    BY <1>1, <1>2, Zenon DEF Loaded, Held
  <1>5. \A k \in Loaded' : OwnInv(k)'
    BY <1>1, <1>2, <1>4, Zenon DEF MapInv, OwnInv, Loaded
  <1>6. \A k \in Names \ Loaded' : OrphanInv(k)'
    BY <1>1, <1>2, <1>4, Zenon DEF MapInv, OrphanInv
  <1>7. NewInv' /\ PoolInv'
    BY <1>1, <1>2, <1>3, <1>4, ZenonT(60) DEF MapInv, NewInv, PoolInv
  <1>8. \A k, j \in Names : k # j => Held(k)' \cap Held(j)' = {}
    BY <1>4, Zenon DEF MapInv
  <1> QED
    BY <1>1, <1>2, <1>3, <1>5, <1>6, <1>7, <1>8, ZenonT(60) DEF MapInv

(* A fresh map is nobody's.                                                *)
LEMMA FreshIsFree ==
  ASSUME TypeOK, NEW p, NEW m \in Fresh(p)
  PROVE  /\ m \in Maps /\ m # NoMap /\ m # pool /\ m # newmap /\ ParamOf[m] = p
         /\ \A n \in Names : m \notin Held(n) /\ m # fd[n] /\ m # pin[n]
  <1>1. m \in Maps /\ ParamOf[m] = p /\ m \notin Range(pin) /\ m \notin Range(fd) /\ m # pool /\ m # newmap
    BY Zenon DEF Fresh, Live
  <1>2. DOMAIN pin = Names /\ DOMAIN fd = Names
    BY Zenon DEF TypeOK, KernelType, SetType
  <1> QED
    BY <1>1, <1>2, MapNotNone, Zenon DEF Range, Held

(* What a filter of the set owns does not change with a map that is not    *)
(* its own.                                                                *)
LEMMA OwnFrame ==
  ASSUME UNCHANGED <<pin, par, fd, mem>>, NEW n \in Loaded, OwnInv(n), bits'[fd[n]] = bits[fd[n]], pc \notin PinnedPcs
  PROVE  OwnInv(n)'
  BY Zenon DEF OwnInv

LEMMA OrphanFrame ==
  ASSUME UNCHANGED <<pin, meta, par>>, NEW n \in Names, OrphanInv(n), pc' \in OrphanPcs
  PROVE  OrphanInv(n)'
  BY Zenon DEF OrphanInv

(* CREATE takes a map from the pool, or a new one.                         *)
LEMMA CreateBeginMaps ==
  ASSUME TypeOK, MapInv, NEW n \in Names, NEW p \in Params, CreateBegin(n, p)
  PROVE  MapInv'
  <1>1. UNCHANGED <<pin, meta, par, fd, mem>> /\ pc = "idle" /\ pc' = "create_meta" /\ cur' = n /\ n \notin Loaded
    BY Zenon DEF CreateBegin, Idle, Goto, dirVars, memVars
  <1>2. pc \notin NewPcs \cup OrphanPcs \cup PinnedPcs /\ pc' \in NewPcs /\ pc' \notin UnpinnedPcs /\ pc' # "load_pin"
    BY <1>1 DEF NewPcs, MakePcs, OrphanPcs, PinnedPcs, UnpinnedPcs
  <1>3. PICK m \in Maps : /\ newmap' = m /\ m # NoMap /\ bits'[m] = {} /\ \A k \in Maps : k # m => bits'[k] = bits[k]
                          /\ pool' = pool \/ pool' = NoMap
                          /\ m # pool' /\ \A k \in Names : m \notin Held(k) /\ m # fd[k]
    <2>1. CASE TakeEmptyMap(p)
      <3>1. pool # NoMap /\ newmap' = pool /\ pool' = NoMap /\ bits' = bits /\ pool \in Maps
        BY <2>1, Zenon DEF TakeEmptyMap, TypeOK, ControlType
      <3>2. bits[pool] = {} /\ \A k \in Names : pool \notin Held(k)
        BY <3>1, ZenonT(60) DEF MapInv, PoolInv
      <3>3. \A k \in Names : pool # fd[k]
        BY <3>1, <3>2 DEF Held
      <3> QED
        BY <3>1, <3>2, <3>3, Zenon
    <2>2. CASE \E m \in Fresh(p) : newmap' = m /\ bits' = [bits EXCEPT ![m] = {}] /\ pool' = pool
      <3>1. PICK m \in Fresh(p) : newmap' = m /\ bits' = [bits EXCEPT ![m] = {}] /\ pool' = pool
        BY <2>2, Zenon
      <3>2. bits \in [Maps -> SUBSET Digests]
        BY Zenon DEF TypeOK, KernelType
      <3>3. m \in Maps
        BY <3>1, FreshIsFree, Zenon
      <3>4. bits'[m] = {} /\ \A k \in Maps : k # m => bits'[k] = bits[k]
        BY <3>1, <3>2, <3>3, Zenon
      <3>5. m # NoMap /\ m # pool /\ \A k \in Names : m \notin Held(k) /\ m # fd[k]
        BY FreshIsFree, Zenon
      <3> QED
        BY <3>1, <3>3, <3>4, <3>5, ZenonT(60)
    <2> QED
      BY <2>1, <2>2, Zenon DEF CreateBegin
  <1>4. Loaded' = Loaded /\ \A k \in Names : Held(k)' = Held(k)
    BY <1>1, Zenon DEF Loaded, Held
  <1>5. \A k \in Loaded' : OwnInv(k)'
    <2>1. \A k \in Loaded : bits'[fd[k]] = bits[fd[k]]
      BY <1>3, Zenon DEF Loaded, TypeOK, SetType
    <2> QED
      BY <1>1, <1>2, <1>4, <2>1, OwnFrame, ZenonT(60) DEF MapInv
  <1>6. \A k \in Names \ Loaded' : OrphanInv(k)'
    BY <1>1, <1>2, <1>4, NoOrphans, Zenon DEF OrphanInv
  <1>7. NewInv'
    BY <1>1, <1>2, <1>3, <1>4, ZenonT(60) DEF NewInv
  <1>8. PoolInv'
    BY <1>3, <1>4, ZenonT(60) DEF MapInv, PoolInv, TypeOK, ControlType
  <1> QED
    BY <1>2, <1>4, <1>5, <1>6, <1>7, <1>8, ZenonT(60) DEF MapInv

(* The metadata of the new filter is written; then it joins the set.       *)
LEMMA CreateMaps ==
  ASSUME TypeOK, ControlInv, MapInv, CreateMeta \/ CreateAdd
  PROVE  MapInv'
  <1>1. /\ cur \in Names /\ par \in [Names -> Params] /\ meta \in [Names -> MetaStates]
        /\ fd \in [Names -> Maps \cup {NoMap}] /\ mem \in [Names -> MetaStates]
    BY Zenon DEF TypeOK, ControlType, FileType, SetType
  <1>2. UNCHANGED <<pin, bits, pool, cur>> /\ pc \in MakePcs
    BY ZenonT(60) DEF CreateMeta, CreateAdd, kernelVars, MakePcs
  <1>3. cur \notin Loaded /\ newmap # NoMap
    BY <1>2 DEF ControlInv, PcInv, NewPcs
  <1>4. pc \notin OrphanPcs \cup PinnedPcs
    BY <1>2 DEF MakePcs, OrphanPcs, PinnedPcs
  <1>5. bits[newmap] = {} /\ \A n \in Names : newmap \in Held(n) => n = cur
    BY <1>2, <1>3, Zenon DEF MapInv, NewInv
  <1>6. \A n \in Names : n \notin Loaded => pin[n] = NoMap
    BY <1>4, NoOrphans, Zenon
  <1>7. CASE CreateMeta
    <2>1. UNCHANGED <<fd, mem, newmap>> /\ pc' = "create_add"
      BY <1>7, Zenon DEF CreateMeta, Goto, memVars, loadVars
    <2>2. pc' \in MakePcs /\ pc' \in NewPcs /\ pc' \notin UnpinnedPcs /\ pc' # "load_pin"
      BY <2>1 DEF MakePcs, NewPcs, UnpinnedPcs
    <2>3. par'[cur] = ParamOf[newmap] /\ \A n \in Names : n # cur => par'[n] = par[n]
      BY <1>1, <1>7, Zenon DEF CreateMeta
    <2>4. Loaded' = Loaded /\ \A n \in Names : Held(n)' = Held(n)
      BY <1>2, <2>1, Zenon DEF Loaded, Held
    <2>5. \A n \in Loaded' : OwnInv(n)'
      BY <1>2, <1>3, <1>4, <2>1, <2>3, <2>4, ZenonT(60) DEF MapInv, OwnInv, Loaded
    <2>6. \A n \in Names \ Loaded' : OrphanInv(n)'
      BY <1>2, <1>6, <2>4, Zenon DEF OrphanInv
    <2>7. NewInv' /\ PoolInv'
      BY <1>2, <1>5, <2>1, <2>2, <2>3, <2>4, ZenonT(60) DEF MapInv, NewInv, PoolInv
    <2>8. \A n, k \in Names : n # k => Held(n)' \cap Held(k)' = {}
      BY <2>4, Zenon DEF MapInv
    <2> QED
      BY <2>2, <2>5, <2>6, <2>7, <2>8, Zenon DEF MapInv
  <1>8. CASE CreateAdd
    <2>1. UNCHANGED <<par, meta>> /\ pc' = "idle" /\ newmap' = NoMap /\ pc = "create_add"
      BY <1>8, Zenon DEF CreateAdd, Return, dirVars
    <2>2. pc' \notin UnpinnedPcs /\ pc # "create_meta"
      BY <2>1 DEF UnpinnedPcs
    <2>3. /\ fd'[cur] = newmap /\ mem'[cur] = "empty"
          /\ \A n \in Names : n # cur => fd'[n] = fd[n] /\ mem'[n] = mem[n]
      BY <1>1, <1>8, Zenon DEF CreateAdd
    <2>4. Loaded' = Loaded \cup {cur}
      BY <1>1, <1>3, <2>3, ZenonT(60) DEF Loaded
    <2>5. \A n \in Names : IF n = cur THEN Held(n)' = {newmap} ELSE Held(n)' = Held(n)
      <3>1. pin[cur] = NoMap
        BY <1>1, <1>3, <1>6, Zenon
      <3> QED
        BY <1>2, <1>3, <2>3, <3>1 DEF Held
    <2>6. \A n \in Loaded' : OwnInv(n)'
      <3>1. ASSUME NEW n \in Names, n = cur PROVE OwnInv(n)'
        BY <1>1, <1>2, <1>3, <1>5, <1>6, <2>1, <2>2, <2>3, <3>1, ZenonT(60)
           DEF MapInv, NewInv, OwnInv
      <3>2. ASSUME NEW n \in Loaded PROVE OwnInv(n)'
        BY <1>2, <1>3, <1>4, <2>1, <2>3, ZenonT(60) DEF MapInv, OwnInv, Loaded
      <3> QED
        BY <1>1, <2>4, <3>1, <3>2, ZenonT(60)
    <2>7. \A n \in Names \ Loaded' : OrphanInv(n)'
      BY <1>2, <1>6, <2>4, Zenon DEF OrphanInv
    <2>8. \A n, k \in Names : n # k => Held(n)' \cap Held(k)' = {}
      BY <1>1, <1>5, <2>5 DEF MapInv
    <2>9. NewInv' /\ PoolInv'
      BY <1>1, <1>2, <2>1, <2>5, ZenonT(60) DEF MapInv, NewInv, PoolInv
    <2> QED
      BY <2>2, <2>6, <2>7, <2>8, <2>9, ZenonT(60) DEF MapInv
  <1> QED
    BY <1>7, <1>8, Zenon

(* bloomd_load_metadata_dir finds a map for an entry, or makes one.        *)
LEMMA EntryMaps ==
  ASSUME TypeOK, ControlInv, MapInv, NEW n \in Names, LoadPinned(n) \/ LoadEmpty(n) \/ LoadReplay(n)
  PROVE  MapInv'
  <1>1. UNCHANGED <<pin, meta, par, fd, mem, pool>> /\ pc = "load" /\ n \in queue /\ cur' = n /\ pc' \in {"load_pin", "load_log"}
    BY ZenonT(60) DEF LoadPinned, LoadEmpty, LoadReplay, Entry, Goto, kernelVars, dirVars, memVars
  <1>2. /\ pc \notin PinnedPcs \cup NewPcs /\ pc' \in OrphanPcs /\ pc' \in NewPcs /\ pc' \notin UnpinnedPcs \cup MakePcs
        /\ pc' # "create_meta"
    BY <1>1, SMTT(30) DEF PinnedPcs, OrphanPcs, NewPcs, MakePcs, UnpinnedPcs
  <1>3. n \notin Loaded
    BY <1>1 DEF ControlInv, PcInv, LoadPcs
  <1>4. PICK m \in Maps :
          /\ newmap' = m /\ m # pool /\ ParamOf[m] = par[n]
          /\ \A k \in Names : m \in Held(k) => k = n
          /\ \A k \in Maps : k \in Held(n) \/ k # m => bits'[k] = bits[k]
          /\ meta[n] = "empty" => bits'[m] = {}
          /\ pc' = "load_pin" => pin[n] = NoMap /\ meta[n] # "empty"
    <2>1. CASE LoadPinned(n)
      <3>1. pin[n] # NoMap /\ ParamOf[pin[n]] = par[n] /\ newmap' = pin[n] /\ pc' = "load_log" /\ bits' = bits
        BY <2>1, ZenonT(60) DEF LoadPinned, Goto, kernelVars
      <3>2. pin[n] \in Maps /\ pin[n] \in Held(n) /\ pc' # "load_pin"
        BY <3>1, SMTT(30) DEF TypeOK, KernelType, Held
      <3>3. pin[n] # pool /\ \A k \in Names : pin[n] \in Held(k) => k = n
        BY <3>1, <3>2 DEF MapInv, PoolInv
      <3>4. meta[n] # "empty"
        BY <1>3, <3>1, Zenon DEF MapInv, OrphanInv
      <3> QED
        BY <3>1, <3>2, <3>3, <3>4, Zenon
    <2>2. CASE LoadEmpty(n) \/ LoadReplay(n)
      <3>1. PICK m \in Fresh(par[n]), r \in SUBSET Digests : newmap' = m /\ bits' = [bits EXCEPT ![m] = r] /\ (meta[n] = "empty" => r = {})
        <4>1. CASE LoadEmpty(n)
          BY <4>1, Zenon DEF LoadEmpty
        <4>2. CASE LoadReplay(n)
          <5>1. log[n] \in LogFile /\ meta[n] = "clean"
            BY <4>2, ZenonT(60) DEF LoadReplay, TypeOK, FileType
          <5>2. log[n].recs \in SUBSET Digests /\ meta[n] # "empty"
            BY <5>1 DEF LogFile
          <5> QED
            BY <4>2, <5>2, Zenon DEF LoadReplay
        <4> QED
          BY <2>2, <4>1, <4>2, Zenon
      <3>2. m \in Maps /\ m # pool /\ ParamOf[m] = par[n] /\ \A k \in Names : m \notin Held(k)
        BY FreshIsFree, Zenon
      <3>3. bits'[m] = r /\ \A k \in Maps : k # m => bits'[k] = bits[k]
        BY <3>1, <3>2, ZenonT(60) DEF TypeOK, KernelType
      <3>4. pc' = "load_pin" => pin[n] = NoMap /\ meta[n] # "empty"
        BY <2>2 DEF LoadEmpty, LoadReplay, Goto
      <3> QED
        BY <3>1, <3>2, <3>3, <3>4, ZenonT(60)
    <2> QED
      BY <2>1, <2>2, Zenon
  <1>5. Loaded' = Loaded /\ \A k \in Names : Held(k)' = Held(k)
    BY <1>1, Zenon DEF Loaded, Held
  <1>6. \A k \in Loaded' : OwnInv(k)'
    <2>1. ASSUME NEW k \in Loaded PROVE bits'[fd[k]] = bits[fd[k]]
      <3>1. k \in Names /\ fd[k] \in Maps /\ fd[k] \in Held(k) /\ k # n
        BY <1>3 DEF Loaded, TypeOK, SetType, Held
      <3> QED
        BY <1>4, <3>1, ZenonT(60)
    <2> QED
      BY <1>1, <1>2, <1>5, <2>1, OwnFrame, ZenonT(60) DEF MapInv
  <1>7. \A k \in Names \ Loaded' : OrphanInv(k)'
    BY <1>1, <1>2, <1>5, OrphanFrame, ZenonT(60) DEF MapInv
  <1>8. NewInv'
    BY <1>1, <1>2, <1>4, <1>5, ZenonT(60) DEF NewInv
  <1>9. PoolInv'
    <2>1. pool # NoMap => pool \in Maps
      BY Zenon DEF TypeOK, ControlType
    <2> QED
      BY <1>1, <1>4, <1>5, <2>1, ZenonT(60) DEF MapInv, PoolInv
  <1>10. \A k, j \in Names : k # j => Held(k)' \cap Held(j)' = {}
    BY <1>5, ZenonT(60) DEF MapInv
  <1> QED
    BY <1>2, <1>6, <1>7, <1>8, <1>9, <1>10, ZenonT(60) DEF MapInv

(* A rebuilt map is pinned, and an entry joins the set.                    *)
LEMMA PublishMaps ==
  ASSUME TypeOK, ControlInv, MapInv, LoadPin \/ LoadPublish
  PROVE  MapInv'
  <1>1. /\ cur \in Names /\ pin \in [Names -> Maps \cup {NoMap}] /\ newmap \in Maps \cup {NoMap}
        /\ fd \in [Names -> Maps \cup {NoMap}] /\ mem \in [Names -> MetaStates]
    BY Zenon DEF TypeOK, ControlType, KernelType, SetType
  <1>2. UNCHANGED <<bits, meta, par, pool, cur>> /\ pc \in {"load_pin", "load_log"}
    BY ZenonT(60) DEF LoadPin, LoadPublish, kernelVars, dirVars
  <1>3. cur \notin Loaded /\ newmap # NoMap /\ pin[cur] \in {NoMap, newmap} /\ pc \notin PinnedPcs
    BY <1>2, SMTT(30) DEF ControlInv, PcInv, NewPcs, PinnedPcs
  <1>4. /\ ParamOf[newmap] = par[cur] /\ (meta[cur] = "empty" => bits[newmap] = {})
        /\ \A n \in Names : newmap \in Held(n) => n = cur
    BY <1>2, <1>3 DEF MapInv, NewInv
  <1>5. \A n \in Names : n # cur => newmap \notin Held(n)
    BY <1>4, Zenon
  <1>6. fd[cur] = NoMap
    BY <1>1, <1>3, Zenon DEF Loaded
  <1>7. pool # newmap
    BY <1>3, Zenon DEF MapInv, PoolInv
  <1>8. CASE LoadPin
    <2>1. UNCHANGED <<fd, mem, newmap>> /\ pc = "load_pin" /\ pc' = "load_log"
      BY <1>8, Zenon DEF LoadPin, Goto, memVars
    <2>2. pc' \in OrphanPcs /\ pc' \in NewPcs /\ pc' \notin UnpinnedPcs /\ pc' \notin MakePcs /\ pc' # "load_pin"
      BY <2>1 DEF OrphanPcs, NewPcs, UnpinnedPcs, MakePcs
    <2>3. pin'[cur] = newmap /\ \A n \in Names : n # cur => pin'[n] = pin[n]
      BY <1>1, <1>8, Zenon DEF LoadPin
    <2>4. meta[cur] # "empty"
      BY <1>3, <2>1, ZenonT(60) DEF MapInv, NewInv
    <2>5. Loaded' = Loaded
      BY <2>1, ZenonT(60) DEF Loaded
    <2>6. \A n \in Names : IF n = cur THEN Held(n)' = {newmap} ELSE Held(n)' = Held(n)
      BY <1>3, <1>6, <2>1, <2>3 DEF Held
    <2>7. \A n \in Loaded' : OwnInv(n)'
      BY <1>2, <1>3, <2>1, <2>3, <2>5, ZenonT(60) DEF MapInv, OwnInv, Loaded
    <2>8. \A n \in Names \ Loaded' : OrphanInv(n)'
      BY <1>2, <1>4, <2>2, <2>3, <2>4, <2>5, ZenonT(60) DEF MapInv, OrphanInv
    <2>9. NewInv'
      BY <1>2, <1>4, <1>5, <2>1, <2>2, <2>6, ZenonT(60) DEF NewInv
    <2>10. PoolInv'
      BY <1>2, <1>7, <2>1, <2>6, SMTT(30) DEF MapInv, PoolInv
    <2>11. \A n, k \in Names : n # k => Held(n)' \cap Held(k)' = {}
      BY <1>5, <2>6 DEF MapInv
    <2> QED
      BY <2>2, <2>7, <2>8, <2>9, <2>10, <2>11, ZenonT(60) DEF MapInv
  <1>9. CASE LoadPublish
    <2>1. pin' = pin /\ newmap' = NoMap /\ pc' = "load" /\ pc = "load_log"
      BY <1>9, Zenon DEF LoadPublish, Goto, kernelVars
    <2>2. pc' \in OrphanPcs /\ pc' \notin UnpinnedPcs
      BY <2>1 DEF OrphanPcs, UnpinnedPcs
    <2>3. /\ fd'[cur] = newmap /\ mem'[cur] = meta[cur]
          /\ \A n \in Names : n # cur => fd'[n] = fd[n] /\ mem'[n] = mem[n]
      BY <1>1, <1>9, Zenon DEF LoadPublish
    <2>4. Loaded' = Loaded \cup {cur}
      BY <1>1, <1>3, <2>3, ZenonT(60) DEF Loaded
    <2>5. \A n \in Names : IF n = cur THEN Held(n)' = {newmap} ELSE Held(n)' = Held(n)
      BY <1>3, <2>1, <2>3 DEF Held
    <2>6. \A n \in Loaded' : OwnInv(n)'
      <3>1. ASSUME NEW n \in Names, n = cur PROVE OwnInv(n)'
        <4>1. mem'[n] = "empty" => pin[n] = NoMap
          BY <1>3, <2>3, <3>1, ZenonT(60) DEF MapInv, OrphanInv
        <4> QED
          BY <1>2, <1>3, <1>4, <2>1, <2>3, <3>1, <4>1, ZenonT(60) DEF OwnInv
      <3>2. ASSUME NEW n \in Loaded PROVE OwnInv(n)'
        BY <1>2, <1>3, <2>1, <2>3, ZenonT(60) DEF MapInv, OwnInv, Loaded
      <3> QED
        BY <1>1, <2>4, <3>1, <3>2, Zenon
    <2>7. \A n \in Names \ Loaded' : OrphanInv(n)'
      BY <1>2, <2>1, <2>2, <2>4, OrphanFrame, ZenonT(60) DEF MapInv
    <2>8. NewInv'
      BY <2>1, ZenonT(60) DEF NewInv
    <2>9. PoolInv'
      BY <1>2, <1>7, <2>1, <2>5, SMTT(30) DEF MapInv, PoolInv
    <2>10. \A n, k \in Names : n # k => Held(n)' \cap Held(k)' = {}
      BY <1>5, <2>5 DEF MapInv
    <2> QED
      BY <2>2, <2>6, <2>7, <2>8, <2>9, <2>10, ZenonT(60) DEF MapInv
  <1> QED
    BY <1>8, <1>9, Zenon

(* A filter leaves the set, and its map goes nowhere or to the pool.       *)
LEMMA ForgetMaps ==
  ASSUME TypeOK, MapInv, NEW n \in Loaded, Forget(n), UNCHANGED <<pin, bits, par, newmap>>,
         newmap = NoMap, pc \notin PinnedPcs, pc' \notin UnpinnedPcs,
         pool' = pool \/ (pool' = fd[n] /\ pin[n] = NoMap /\ bits[fd[n]] = {}),
         \A k \in Names : meta'[k] = meta[k] \/ (k = n /\ pin[n] = NoMap),
         pin[n] = NoMap \/ mem[n] = meta[n],
         \A k \in Names : k \notin Loaded' /\ pin[k] # NoMap => pc' \in OrphanPcs
  PROVE  MapInv'
  <1>1. /\ n \in Names /\ fd[n] # NoMap /\ fd'[n] = NoMap /\ mem'[n] = "absent"
        /\ \A k \in Names : k # n => fd'[k] = fd[k] /\ mem'[k] = mem[k]
    BY Zenon DEF Forget, TypeOK, SetType, Loaded
  <1>2. Loaded' = Loaded \ {n}
    BY <1>1, Zenon DEF Loaded
  <1>3. \A k \in Names : Held(k)' \subseteq Held(k)
    BY <1>1, Zenon DEF Held
  <1>4. \A k \in Loaded' : OwnInv(k)'
    <2>1. ASSUME NEW k \in Names, k \in Loaded, k # n PROVE OwnInv(k)'
      <3>1. OwnInv(k)
        BY <2>1, Zenon DEF MapInv
      <3>2. fd'[k] = fd[k] /\ mem'[k] = mem[k] /\ pin' = pin /\ bits' = bits /\ par' = par
        BY <1>1, <2>1, Zenon
      <3> QED
        BY <3>1, <3>2, Zenon DEF OwnInv
    <2>2. \A k \in Loaded' : k \in Names /\ k \in Loaded /\ k # n
      BY <1>2, Zenon DEF Loaded
    <2> QED
      BY <2>1, <2>2, Zenon
  <1>5. \A k \in Names \ Loaded' : OrphanInv(k)'
    <2>1. OrphanInv(n)'
      BY <1>1, <1>2, ZenonT(60) DEF MapInv, OwnInv, OrphanInv
    <2>2. ASSUME NEW k \in Names \ Loaded, k # n PROVE OrphanInv(k)'
      BY <1>2, <2>2, ZenonT(60) DEF MapInv, OrphanInv
    <2> QED
      BY <1>1, <1>2, <2>1, <2>2, ZenonT(60)
  <1>6. NewInv'
    BY Zenon DEF NewInv
  <1>7. PoolInv'
    <2>1. CASE pool' = pool
      BY <1>3, <2>1, ZenonT(60) DEF MapInv, PoolInv
    <2>2. CASE pool' = fd[n] /\ pin[n] = NoMap /\ bits[fd[n]] = {}
      <3>1. fd[n] \in Held(n)
        BY <1>1 DEF Held
      <3>2. \A k \in Names : fd[n] \notin Held(k)'
        <4>1. ASSUME NEW k \in Names, k # n PROVE fd[n] \notin Held(k)'
          BY <1>1, <1>3, <3>1, <4>1, ZenonT(60) DEF MapInv
        <4>2. fd[n] \notin Held(n)'
          BY <1>1, <2>2 DEF Held
        <4> QED
          BY <4>1, <4>2, Zenon
      <3> QED
        BY <1>1, <2>2, <3>2, ZenonT(60) DEF PoolInv
    <2> QED
      BY <2>1, <2>2, Zenon
  <1>8. \A k, j \in Names : k # j => Held(k)' \cap Held(j)' = {}
    BY <1>3, Zenon DEF MapInv
  <1> QED
    BY <1>4, <1>5, <1>6, <1>7, <1>8, ZenonT(60) DEF MapInv

(* DROP and the end of the process close the map of a filter.              *)
LEMMA CloseMaps ==
  ASSUME TypeOK, ControlInv, MapInv, DropMeta \/ DropLog \/ (\E n \in Names : FreeFilter(n))
  PROVE  MapInv'
  <1>1. cur \in Names /\ meta \in [Names -> MetaStates] /\ mem \in [Names -> MetaStates]
    BY Zenon DEF TypeOK, ControlType, FileType, SetType
  <1>2. UNCHANGED <<pin, bits, par, newmap>> /\ pc \in {"drop_meta", "drop_log", "free"}
    BY Zenon DEF DropMeta, DropLog, FreeFilter, kernelVars, dirVars, loadVars
  <1>3. pc \notin PinnedPcs \cup NewPcs
    BY <1>2 DEF PinnedPcs, NewPcs, MakePcs
  <1>4. newmap = NoMap
    BY <1>3, NoneUnderWay, Zenon
  <1>5. ASSUME DropMeta \/ DropLog PROVE MapInv'
    <2>1. pc \in UnpinnedPcs /\ pc \notin OrphanPcs /\ pc \in DropPcs
      BY <1>5, Zenon DEF DropMeta, DropLog, UnpinnedPcs, OrphanPcs, DropPcs
    <2>2. cur \in Loaded /\ pin[cur] = NoMap
      BY <2>1, ZenonT(60) DEF MapInv, ControlInv, PcInv
    <2>3. \A k \in Names : k \notin Loaded \/ k = cur => pin[k] = NoMap
      BY <2>1, <2>2, NoOrphans, Zenon
    <2>4. \A k \in Names : meta'[k] = meta[k] \/ (k = cur /\ pin[cur] = NoMap)
      BY <1>1, <1>5, <2>2, Zenon DEF DropMeta, DropLog, dirVars
    <2>5. CASE Forget(cur) /\ pc' = "idle"
      <3>1. pc' \notin UnpinnedPcs
        BY <2>5 DEF UnpinnedPcs
      <3>2. pool' = pool \/ (pool' = fd[cur] /\ bits[fd[cur]] = {})
        <4>1. CASE DropLog
          BY <4>1, Zenon DEF DropLog
        <4>2. CASE DropMeta
          <5>1. ~HasData(mem[cur]) => mem[cur] = "empty"
            BY <1>1, <2>2 DEF MetaStates, HasData, ControlInv, SetInv
          <5>2. HasData(mem[cur]) => pool' = pool
            BY <4>2, Zenon DEF DropMeta
          <5>3. ~HasData(mem[cur]) => pool' = fd[cur]
            BY <4>2, Zenon DEF DropMeta
          <5> QED
            BY <2>2, <5>1, <5>2, <5>3, ZenonT(60) DEF MapInv, OwnInv
        <4> QED
          BY <1>5, <4>1, <4>2, Zenon
      <3>3. \A k \in Names : k \notin Loaded' => pin[k] = NoMap
        <4>1. \A k \in Names : k \notin Loaded' => k \notin Loaded \/ k = cur
          BY <2>5, Zenon DEF Forget, Loaded, TypeOK, SetType
        <4> QED
          BY <2>3, <4>1, Zenon
      <3> QED
        BY <1>2, <1>3, <1>4, <2>2, <2>4, <2>5, <3>1, <3>2, <3>3, ForgetMaps, ZenonT(60)
    <2>6. CASE DropMeta /\ HasData(mem[cur])
      <3>1. UNCHANGED <<fd, mem, pool>>
        BY <2>6, Zenon DEF DropMeta, memVars
      <3>2. cur' = cur
        BY <2>6, Zenon DEF DropMeta
      <3> QED
        BY <1>2, <1>3, <1>4, <2>2, <2>3, <2>4, <3>1, <3>2, MapFrame, ZenonT(60)
    <2> QED
      BY <1>5, <2>5, <2>6, ZenonT(60) DEF DropMeta, DropLog, Return
  <1>6. ASSUME NEW n \in Names, FreeFilter(n) PROVE MapInv'
    <2>1. n \in Loaded /\ pc = "free" /\ pc' = "free" /\ Forget(n) /\ UNCHANGED <<pool, meta>>
      BY <1>6, Zenon DEF FreeFilter, Goto, dirVars
    <2>2. pc' \notin UnpinnedPcs /\ pc' \in OrphanPcs
      BY <2>1, SMTT(30) DEF UnpinnedPcs, OrphanPcs
    <2>3. mem[n] = meta[n]
      BY <2>1 DEF ControlInv, SetInv
    <2> QED
      BY <1>2, <1>3, <1>4, <2>1, <2>2, <2>3, ForgetMaps, ZenonT(60)
  <1> QED
    BY <1>5, <1>6, ZenonT(60)

(* A digest goes into the map of its filter and into no other.             *)
LEMMA AddMaps == ASSUME TypeOK, ControlInv, MapInv, BpfAdd PROVE MapInv'
  <1>1. UNCHANGED <<pin, meta, par, fd, mem, pool, newmap, cur>> /\ pc = "bpf" /\ pc' \in {"idle", "stage"}
    BY Zenon DEF BpfAdd, Return, dirVars, loadVars
  <1>2. pc \notin PinnedPcs \cup OrphanPcs \cup NewPcs /\ pc' \notin UnpinnedPcs
    BY <1>1 DEF PinnedPcs, OrphanPcs, NewPcs, MakePcs, UnpinnedPcs
  <1>3. cur \in Loaded /\ mem[cur] # "empty" /\ newmap = NoMap
    <2>1. cur \in Loaded /\ HasData(mem[cur])
      BY <1>1, SMTT(30) DEF ControlInv, PcInv, AddPcs, DataPcs, EnsurePcs
    <2> QED
      BY <1>2, <2>1, NoneUnderWay, SMTT(30) DEF HasData
  <1>4. fd[cur] \in Held(cur) /\ cur \in Names
    BY <1>3 DEF Held, Loaded
  <1>5. \A m \in Maps : m # fd[cur] => bits'[m] = bits[m]
    BY Zenon DEF BpfAdd, TypeOK, KernelType
  <1>6. Loaded' = Loaded /\ \A k \in Names : Held(k)' = Held(k)
    BY <1>1, Zenon DEF Loaded, Held
  <1>7. \A k \in Loaded' : OwnInv(k)'
    <2>1. ASSUME NEW k \in Loaded, k # cur PROVE OwnInv(k)'
      <3>1. k \in Names /\ fd[k] \in Held(k) /\ fd[k] \in Maps
        BY DEF Held, Loaded, TypeOK, SetType
      <3>2. fd[k] # fd[cur]
        BY <1>4, <2>1, <3>1, ZenonT(60) DEF MapInv
      <3> QED
        BY <1>1, <1>2, <1>5, <3>1, <3>2, OwnFrame, ZenonT(60) DEF MapInv
    <2>2. ASSUME NEW k \in Loaded, k = cur PROVE OwnInv(k)'
      BY <1>1, <1>2, <1>3, <2>2, ZenonT(60) DEF MapInv, OwnInv
    <2> QED
      BY <1>6, <2>1, <2>2, Zenon
  <1>8. \A k \in Names \ Loaded' : OrphanInv(k)'
    BY <1>1, <1>2, <1>6, NoOrphans, ZenonT(60) DEF OrphanInv
  <1>9. NewInv'
    BY <1>1, <1>3, Zenon DEF NewInv
  <1>10. PoolInv'
    <2>1. pool # NoMap => pool \in Maps /\ pool # fd[cur]
      BY <1>4, ZenonT(60) DEF MapInv, PoolInv, TypeOK, ControlType
    <2> QED
      BY <1>1, <1>5, <1>6, <2>1, ZenonT(60) DEF MapInv, PoolInv
  <1>11. \A k, j \in Names : k # j => Held(k)' \cap Held(j)' = {}
    BY <1>6, Zenon DEF MapInv
  <1> QED
    BY <1>2, <1>7, <1>8, <1>9, <1>10, <1>11, ZenonT(60) DEF MapInv

(* The process ends, or the host goes down.                                *)
LEMMA EndMaps == ASSUME TypeOK, MapInv, Exit \/ HostCrash PROVE MapInv'
  <1>1. pc' = "down" /\ pool' = NoMap /\ newmap' = NoMap /\ par' = par
    <2>1. CASE HostCrash
      BY <2>1, Zenon DEF HostCrash, ProcessGone
    <2>2. CASE Exit
      <3>1. pc = "free" /\ newmap' = newmap
        BY <2>2, Zenon DEF Exit, loadVars
      <3>2. pc \notin NewPcs
        BY <3>1 DEF NewPcs, MakePcs
      <3> QED
        BY <2>2, <3>1, <3>2, NoneUnderWay, ZenonT(60) DEF Exit, Goto, dirVars
    <2> QED
      BY <2>1, <2>2, Zenon
  <1>2. pc' \in OrphanPcs /\ pc' \notin UnpinnedPcs
    BY <1>1 DEF OrphanPcs, UnpinnedPcs
  <1>3. \A n \in Names : fd'[n] = NoMap
    BY Zenon DEF Exit, HostCrash, ProcessGone, Loaded, memVars
  <1>4. \A n \in Names : pin'[n] = NoMap \/ (pin'[n] = pin[n] /\ meta' = meta /\ n \notin Loaded)
    BY ZenonT(60) DEF Exit, HostCrash, dirVars, Loaded
  <1>5. Loaded' = {}
    BY <1>3, Zenon DEF Loaded
  <1>6. \A n \in Names : Held(n)' \subseteq Held(n)
    BY <1>3, <1>4, Zenon DEF Held
  <1>7. \A n \in Names : OrphanInv(n)'
    BY <1>1, <1>2, <1>4, ZenonT(60) DEF MapInv, OrphanInv
  <1>8. NewInv' /\ PoolInv'
    BY <1>1, Zenon DEF NewInv, PoolInv
  <1>9. \A n, k \in Names : n # k => Held(n)' \cap Held(k)' = {}
    BY <1>6, ZenonT(60) DEF MapInv
  <1> QED
    BY <1>2, <1>5, <1>7, <1>8, <1>9, ZenonT(60) DEF MapInv

LEMMA InitMaps == ASSUME Init PROVE MapInv
  <1>1. /\ \A n \in Names : pin[n] = NoMap /\ fd[n] = NoMap
        /\ pool = NoMap /\ newmap = NoMap /\ pc = "down"
    BY Zenon DEF Init
  <1>2. pc \notin UnpinnedPcs
    BY <1>1 DEF UnpinnedPcs
  <1>3. Loaded = {} /\ \A n \in Names : Held(n) = {}
    BY <1>1 DEF Loaded, Held
  <1> QED
    BY <1>1, <1>2, <1>3, SMTT(30) DEF MapInv, OrphanInv, NewInv, PoolInv

LEMMA StutterMaps == ASSUME MapInv, UNCHANGED vars PROVE MapInv'
  <1>1. UNCHANGED <<pin, bits, meta, par, fd, mem, pool, newmap, pc, cur>>
    BY Zenon DEF vars, kernelVars, dirVars, memVars, loadVars
  <1>2. Loaded' = Loaded /\ \A n \in Names : Held(n)' = Held(n) /\ OwnInv(n)' = OwnInv(n) /\ OrphanInv(n)' = OrphanInv(n)
    BY <1>1, Zenon DEF Loaded, Held, OwnInv, OrphanInv
  <1>3. NewInv' /\ PoolInv'
    BY <1>1, <1>2, ZenonT(60) DEF MapInv, NewInv, PoolInv
  <1> QED
    BY <1>1, <1>2, <1>3, ZenonT(60) DEF MapInv, Loaded

(* The inductive invariant: every map has one owner, a filter or the pool  *)
(* or the CREATE or load that is under way, while no kill comes between    *)
(* two system calls and what is taken back is taken back.                  *)
THEOREM MapInvariant == ASSUME NotKilled, UndoWorks PROVE Spec => []MapInv
  <1>1. TypeOK /\ ControlInv /\ MapInv /\ [Next]_vars => MapInv'
    <2> SUFFICES ASSUME TypeOK, ControlInv, MapInv, [Next]_vars PROVE MapInv'
      OBVIOUS
    <2>1. ~Kill
      BY Zenon DEF Kill, May, NotKilled
    <2>2. CASE Daemon
      BY <2>2, EnsureMaps, FileStepMaps, PinMaps, UnpinMaps, GiveUpMaps, CreateMaps, EntryMaps,
         PublishMaps, CloseMaps, AddMaps, EndMaps, ZenonT(60)
         DEF Daemon, Create, Add, Drop, Load, Shutdown
    <2>3. CASE (\E n \in Names : SyncBegin(n)) \/ Environment
      BY <2>1, <2>3, EnsureMaps, FileStepMaps, UnpinMaps, GiveUpMaps, RemovedMaps, CreateBeginMaps,
         EndMaps, ZenonT(60)
         DEF Environment, Requests
    <2> QED
      BY <2>2, <2>3, StutterMaps, ZenonT(60) DEF Next
  <1> QED
    BY <1>1, InitMaps, ControlInvariant, PTL DEF Spec

(* No two filters of the set answer from one map.                          *)
THEOREM MapsNotShared == ASSUME NotKilled, UndoWorks PROVE Spec => []OwnMap
  <1>1. MapInv => OwnMap
    <2> SUFFICES ASSUME MapInv, NEW n \in Loaded, NEW k \in Loaded, fd[n] = fd[k], n # k PROVE FALSE
      BY Zenon DEF OwnMap
    <2>1. n \in Names /\ k \in Names /\ fd[n] \in Held(n) /\ fd[n] \in Held(k)
      BY DEF Loaded, Held
    <2> QED
      BY <2>1 DEF MapInv
  <1> QED
    BY <1>1, MapInvariant, PTL

(* What bloomd_take_empty_map hands to CREATE is empty and nobody's.       *)
THEOREM PoolUnused == ASSUME NotKilled, UndoWorks PROVE Spec => []PoolIsUnused
  <1>1. TypeOK /\ MapInv => PoolIsUnused
    <2> SUFFICES ASSUME TypeOK, MapInv, pool # NoMap PROVE bits[pool] = {} /\ pool \notin Range(pin) \cup Range(fd)
      BY Zenon DEF PoolIsUnused
    <2>1. bits[pool] = {} /\ \A n \in Names : pool \notin Held(n)
      BY Zenon DEF MapInv, PoolInv
    <2>2. \A n \in Names : pool # pin[n] /\ pool # fd[n]
      BY <2>1 DEF Held
    <2>3. DOMAIN pin = Names /\ DOMAIN fd = Names
      BY ZenonT(60) DEF TypeOK, KernelType, SetType
    <2> QED
      BY <2>1, <2>2, <2>3, Zenon DEF Range
  <1> QED
    BY <1>1, MapInvariant, TypeCorrect, PTL

(* The first ADD to a metadata-only filter finds its pin path free.        *)
THEOREM EmptyIsUnpinned == ASSUME NotKilled, UndoWorks PROVE Spec => []MetadataOnlyUnpinned
  <1>1. MapInv => MetadataOnlyUnpinned
    <2> SUFFICES ASSUME MapInv, pc = "idle", NEW n \in Loaded, mem[n] = "empty" PROVE pin[n] = NoMap
      BY Zenon DEF MetadataOnlyUnpinned
    <2>1. pc \notin PinnedPcs
      BY DEF PinnedPcs
    <2> QED
      BY <2>1, Zenon DEF MapInv, OwnInv
  <1> QED
    BY <1>1, MapInvariant, PTL

-----------------------------------------------------------------------------
(* Pins that stay.  A step of a handler that leaves the pins alone, and    *)
(* sets has_data only for a filter that is pinned.                         *)
StartPcs == {"load", "load_pin", "load_log", "orphans"}

LEMMA PinFrame ==
  ASSUME PinInv, UNCHANGED pin, pc \notin UnpinnedPcs, pc' \notin StartPcs, ~rebuilt',
         pc' \in {"create_log", "set_has_data"} => pin'[cur'] # NoMap,
         \A n \in Names : meta'[n] = "dirty" => meta[n] = "dirty" \/ pin[n] # NoMap,
         \A n \in Loaded' : HasData(mem'[n]) => (n \in Loaded /\ HasData(mem[n])) \/ pin[n] # NoMap
  PROVE  PinInv'
  <1>1. \A n \in Names : meta[n] = "dirty" \/ (n \in Loaded /\ HasData(mem[n])) => pin[n] # NoMap
    BY Zenon DEF PinInv, UnpinnedPcs
  <1>2. \A n \in Loaded' : n \in Names
    BY Zenon DEF Loaded
  <1>3. \A n \in Loaded' : HasData(mem'[n]) => pin'[n] # NoMap
    BY <1>1, <1>2, Zenon
  <1>4. \A n \in Names : meta'[n] = "dirty" => pin'[n] # NoMap
    BY <1>1, ZenonT(60)
  <1>5. pc' # "orphans" /\ pc' # "load_pin" /\ pc' # "load_log"
    BY DEF StartPcs
  <1> QED
    BY <1>3, <1>4, <1>5, ZenonT(60) DEF PinInv, StartPcs

(* Only the loading of an entry sets unpin_on_error.                       *)
LEMMA NotRebuilt == ASSUME PinInv, pc # "load_log" PROVE ~rebuilt
  BY Zenon DEF PinInv

LEMMA CreatePins ==
  ASSUME TypeOK, ControlInv, MapInv, PinInv,
         (\E n \in Names, p \in Params : CreateBegin(n, p)) \/ Create
  PROVE  PinInv'
  <1>1. /\ cur \in Names /\ pin \in [Names -> Maps \cup {NoMap}] /\ meta \in [Names -> MetaStates]
        /\ fd \in [Names -> Maps \cup {NoMap}] /\ mem \in [Names -> MetaStates]
    BY ZenonT(60) DEF TypeOK, ControlType, KernelType, FileType, SetType
  <1>2. pc \in {"idle", "create_meta", "create_add"} /\ rebuilt' = rebuilt
    BY Zenon
       DEF Create, CreateBegin, CreateMeta, CreateMetaFails, CreateAdd, CreateAddFails, Idle,
           loadVars
  <1>3. pc \notin UnpinnedPcs /\ pc # "load_log" /\ pc \notin OrphanPcs
    BY <1>2 DEF UnpinnedPcs, OrphanPcs
  <1>4. pc' \in {"idle", "create_meta", "create_add"}
    BY Zenon
       DEF Create, CreateBegin, CreateMeta, CreateMetaFails, CreateAdd, CreateAddFails, Goto, Return
  <1>5. pc' \notin StartPcs /\ pc' \notin {"create_log", "set_has_data"}
    BY <1>4 DEF StartPcs
  <1>6. UNCHANGED pin
    <2>1. CASE CreateAddFails
      <3>1. cur \notin Loaded
        BY <2>1 DEF CreateAddFails, ControlInv, PcInv, NewPcs, MakePcs
      <3>2. pin[cur] = NoMap
        BY <1>1, <1>3, <3>1, NoOrphans, Zenon
      <3>3. \A n \in Names : [pin EXCEPT ![cur] = NoMap][n] = pin[n]
        BY <1>1, <3>2, Zenon
      <3>4. [pin EXCEPT ![cur] = NoMap] = pin
        BY <1>1, <3>3
      <3> QED
        BY <2>1, <3>4, ZenonT(60) DEF CreateAddFails
    <2> QED
      BY <2>1, Zenon DEF Create, CreateBegin, CreateMeta, CreateMetaFails, CreateAdd, kernelVars
  <1>7. \A n \in Names : meta'[n] = "dirty" => meta[n] = "dirty"
    BY <1>1, Zenon
       DEF Create, CreateBegin, CreateMeta, CreateMetaFails, CreateAdd, CreateAddFails, MetaWrite,
           dirVars
  <1>8. \A n \in Loaded' : HasData(mem'[n]) => n \in Loaded /\ HasData(mem[n])
    <2>1. CASE CreateAdd
      <3>1. ~HasData("empty")
        BY DEF HasData
      <3>2. ASSUME NEW n \in Loaded', HasData(mem'[n]) PROVE n \in Loaded /\ HasData(mem[n])
        <4>1. n \in Names /\ n # cur
          BY <1>1, <2>1, <3>1, <3>2, ZenonT(60) DEF CreateAdd, Loaded
        <4> QED
          BY <1>1, <2>1, <3>2, <4>1, ZenonT(60) DEF CreateAdd, Loaded
      <3> QED
        BY <3>2, Zenon
    <2>2. CASE UNCHANGED memVars
      BY <2>2, ZenonT(60) DEF memVars, Loaded
    <2> QED
      BY <2>1, <2>2, Zenon DEF Create, CreateBegin, CreateMeta, CreateMetaFails, CreateAddFails
  <1> QED
    BY <1>2, <1>3, <1>5, <1>6, <1>7, <1>8, NotRebuilt, PinFrame, ZenonT(60)

(* The other steps that leave every pin alone.                             *)
LEMMA QuietPins ==
  ASSUME TypeOK, ControlInv, PinInv,
         (\E n \in Names, batch \in Batches : AddBegin(n, batch)) \/ EnsureLog \/ EnsureMeta \/ EnsureUndoLog
           \/ MarkDirty \/ StageDigest \/ StageWrite \/ StageFsync \/ BpfAdd \/ BpfAddFails \/ RollbackTruncate
           \/ RestoreClean \/ Sync \/ (\E n \in Names : SyncBegin(n)) \/ (\E n \in Names : DropBegin(n))
           \/ Stop \/ StopSynced \/ Listen \/ (\E n \in Names : LoadRefuse(n))
  PROVE  PinInv'
  <1>1. /\ cur \in Names /\ mem \in [Names -> MetaStates] /\ meta \in [Names -> MetaStates]
    BY ZenonT(60) DEF TypeOK, ControlType, SetType, FileType
  <1>2. UNCHANGED <<pin, fd, rebuilt>>
    BY ZenonT(60)
       DEF AddBegin, EnsureLog, EnsureMeta, EnsureUndoLog, MarkDirty, StageDigest, StageWrite,
           StageFsync, BpfAdd, BpfAddFails, RollbackTruncate, RestoreClean, Sync, SyncWrite,
           SyncFsync, SyncMeta, SyncBegin, DropBegin, Stop, StopSynced, Listen, LoadRefuse,
           UpdateMeta, kernelVars, memVars, loadVars
  <1>3. /\ pc \in {"idle", "create_log", "set_has_data", "undo_log", "mark", "stage", "write", "fsync", "bpf", "truncate",
                  "restore", "listen", "load"} \cup SyncPcs
    BY ZenonT(60)
       DEF AddBegin, EnsureLog, EnsureMeta, EnsureUndoLog, MarkDirty, StageDigest, StageWrite,
           StageFsync, BpfAdd, BpfAddFails, RollbackTruncate, RestoreClean, Sync, SyncWrite,
           SyncFsync, SyncMeta, SyncBegin, DropBegin, Stop, StopSynced, Listen, LoadRefuse, Idle,
           Entry, SyncPcs
  <1>4. pc \notin UnpinnedPcs /\ pc # "load_log"
    BY <1>3, SMTT(30) DEF UnpinnedPcs, SyncPcs
  <1>5. pc' \notin StartPcs /\ pc' # "create_log" /\ (pc' = "set_has_data" => EnsureLog)
    BY ZenonT(60)
       DEF AddBegin, AfterDurable, EnsureLog, EnsureMeta, EnsureUndoLog, MarkDirty, StageDigest,
           StageWrite, StageFsync, BpfAdd, BpfAddFails, RollbackTruncate, RestoreClean, Sync,
           SyncWrite, SyncFsync, SyncMeta, SyncBegin, DropBegin, Stop, StopSynced, Listen,
           LoadRefuse, Idle, Entry, Goto, Return, Abort, StartPcs
  <1>6. pc' \in {"create_log", "set_has_data"} => pin'[cur'] # NoMap
    <2>1. ASSUME EnsureLog PROVE pin[cur] # NoMap /\ cur' = cur
      BY <2>1, Zenon DEF EnsureLog, PinInv
    <2> QED
      BY <1>2, <1>5, <2>1, ZenonT(60)
  <1>7. CASE UNCHANGED <<mem, meta>>
    BY <1>2, <1>4, <1>5, <1>6, <1>7, NotRebuilt, PinFrame, ZenonT(60) DEF Loaded
  <1>8. CASE (EnsureMeta \/ MarkDirty \/ RestoreClean \/ SyncMeta) /\ \E s \in {"clean", "dirty"} : UpdateMeta(cur, s)
    <2>1. pc \in {"set_has_data", "mark", "restore", "sync_meta"} /\ (EnsureMeta => pc = "set_has_data")
      BY <1>8, Zenon DEF EnsureMeta, MarkDirty, RestoreClean, SyncMeta
    <2>2. cur \in Loaded /\ pin[cur] # NoMap
      <3>1. CASE pc = "set_has_data"
        BY <3>1 DEF ControlInv, PcInv, AddPcs, PinInv
      <3>2. CASE pc # "set_has_data"
        <4>1. cur \in Loaded /\ HasData(mem[cur])
          BY <2>1, <3>2, SMTT(30) DEF ControlInv, PcInv, AddPcs, SyncPcs, DataPcs, EnsurePcs
        <4> QED
          BY <1>4, <4>1, ZenonT(60) DEF PinInv
      <3> QED
        BY <3>1, <3>2, ZenonT(60)
    <2>3. \A n \in Names : n # cur => meta'[n] = meta[n] /\ mem'[n] = mem[n]
      BY <1>1, <1>8, Zenon DEF UpdateMeta, MetaWrite
    <2> QED
      BY <1>1, <1>2, <1>4, <1>5, <1>6, <2>2, <2>3, NotRebuilt, PinFrame, ZenonT(60) DEF Loaded
  <1> QED
    BY <1>7, <1>8, ZenonT(60)
       DEF AddBegin, EnsureLog, EnsureMeta, EnsureUndoLog, MarkDirty, StageDigest, StageWrite,
           StageFsync, BpfAdd, BpfAddFails, RollbackTruncate, RestoreClean, Sync, SyncWrite,
           SyncFsync, SyncMeta, SyncBegin, DropBegin, Stop, StopSynced, Listen, LoadRefuse, dirVars,
           memVars

LEMMA PinStep ==
  ASSUME pc' \notin StartPcs, ~rebuilt', pc' \in {"create_log", "set_has_data"} => pin'[cur'] # NoMap,
         \A n \in Names : meta'[n] = "dirty" => pin'[n] # NoMap \/ (pc' \in {"drop_meta", "drop_repin"} /\ n = cur'),
         \A n \in Loaded' : HasData(mem'[n]) => pin'[n] # NoMap \/ (pc' \in UnpinnedPcs /\ n = cur')
  PROVE  PinInv'
  <1>1. pc' # "orphans" /\ pc' # "load_pin" /\ pc' # "load_log"
    BY DEF StartPcs
  <1> QED
    BY <1>1, ZenonT(60) DEF PinInv, StartPcs

LEMMA EnsurePins == ASSUME TypeOK, ControlInv, PinInv, EnsurePin \/ EnsureUndoPin PROVE PinInv'
  <1>1. /\ cur \in Names /\ pin \in [Names -> Maps \cup {NoMap}]
    BY Zenon DEF TypeOK, ControlType, KernelType
  <1>2. pc \in {"pin", "undo_pin"} /\ UNCHANGED <<meta, mem, fd, rebuilt, cur>>
    BY Zenon DEF EnsurePin, EnsureUndoPin, dirVars, memVars, loadVars
  <1>3. cur \in Loaded /\ mem[cur] = "empty" /\ meta[cur] # "dirty" /\ fd[cur] # NoMap
    <2>1. cur \in Loaded /\ mem[cur] = "empty"
      BY <1>2, SMTT(30) DEF ControlInv, PcInv, AddPcs, EnsurePcs
    <2>2. meta[cur] = "empty"
      BY <1>2, <2>1, SMTT(30) DEF ControlInv, SetInv, DropPcs
    <2> QED
      BY <2>1, <2>2, SMTT(30) DEF Loaded
  <1>4. pc \notin UnpinnedPcs /\ pc # "load_log"
    BY <1>2 DEF UnpinnedPcs
  <1>5. \A n \in Names : n # cur => pin'[n] = pin[n]
    BY <1>1, Zenon DEF EnsurePin, EnsureUndoPin
  <1>6. pc' \in {"create_log", "idle"} /\ (pc' = "create_log" => pin'[cur] # NoMap)
    <2>1. CASE EnsurePin
      BY <1>1, <1>3, <2>1, ZenonT(60) DEF EnsurePin, Goto, Return
    <2>2. CASE EnsureUndoPin
      BY <2>2, Zenon DEF EnsureUndoPin, Return
    <2> QED
      BY <2>1, <2>2, Zenon
  <1>7. \A n \in Names : meta'[n] = "dirty" => pin'[n] # NoMap
    BY <1>2, <1>3, <1>4, <1>5, ZenonT(60) DEF PinInv, UnpinnedPcs
  <1>8. \A n \in Loaded' : HasData(mem'[n]) => pin'[n] # NoMap
    <2>1. Loaded' = Loaded /\ ~HasData(mem[cur]) /\ \A n \in Loaded : n \in Names
      BY <1>2, <1>3 DEF Loaded, HasData
    <2> QED
      BY <1>2, <1>4, <1>5, <2>1, ZenonT(60) DEF PinInv
  <1>9. pc' \notin StartPcs
    BY <1>6 DEF StartPcs
  <1> QED
    BY <1>2, <1>4, <1>6, <1>7, <1>8, <1>9, NotRebuilt, PinStep, ZenonT(60)

(* A drop takes the pin away first and the entry last; when the metadata   *)
(* cannot be removed in between, the map is pinned again.                  *)
LEMMA DropPins ==
  ASSUME TypeOK, ControlInv, PinInv, UndoWorks, DropUnpin \/ DropMeta \/ DropMetaFails \/ DropRepin \/ DropLog
  PROVE  PinInv'
  <1>1. /\ cur \in Names /\ pin \in [Names -> Maps \cup {NoMap}] /\ meta \in [Names -> MetaStates]
        /\ fd \in [Names -> Maps \cup {NoMap}] /\ mem \in [Names -> MetaStates]
    BY ZenonT(60) DEF TypeOK, ControlType, KernelType, FileType, SetType
  <1>2. pc \in DropPcs /\ UNCHANGED <<rebuilt, cur>>
    BY ZenonT(60) DEF DropUnpin, DropMeta, DropMetaFails, DropRepin, DropLog, DropPcs, loadVars
  <1>3. cur \in Loaded /\ fd[cur] # NoMap /\ pc # "load_log" /\ \A n \in Loaded : n \in Names
    BY <1>2, SMTT(30) DEF ControlInv, PcInv, DropPcs, Loaded
  <1>4. pc' \in {"idle", "drop_meta", "drop_log", "drop_repin"}
    BY Zenon DEF DropUnpin, DropMeta, DropMetaFails, DropRepin, DropLog, Goto, Return
  <1>5. pc' \notin StartPcs /\ pc' \notin {"create_log", "set_has_data"}
    BY <1>4 DEF StartPcs
  <1>6. \A n \in Names : n # cur => pin'[n] = pin[n] /\ meta'[n] = meta[n] /\ mem'[n] = mem[n] /\ fd'[n] = fd[n]
    BY <1>1, ZenonT(60)
       DEF DropUnpin, DropMeta, DropMetaFails, DropRepin, DropLog, Forget, kernelVars, dirVars,
           memVars
  <1>7. \A n \in Names : n # cur => (meta'[n] = "dirty" => pin'[n] # NoMap) /\ (n \in Loaded' /\ HasData(mem'[n]) => pin'[n] # NoMap)
    BY <1>6, Zenon DEF PinInv, Loaded
  <1>8. meta'[cur] = "dirty" => pin'[cur] # NoMap \/ pc' \in {"drop_meta", "drop_repin"}
    <2>1. CASE DropUnpin
      BY <1>1, <2>1, ZenonT(60) DEF DropUnpin, Goto, Return, dirVars, PinInv
    <2>2. CASE DropMeta
      BY <1>1, <2>2, ZenonT(60) DEF DropMeta
    <2>3. CASE DropMetaFails
      <3>1. meta[cur] = "dirty" => HasData(mem[cur]) \/ pin[cur] # NoMap
        BY <1>3, <2>3 DEF DropMetaFails, ControlInv, SetInv, HasData
      <3> QED
        BY <2>3, <3>1, ZenonT(60) DEF DropMetaFails, Goto, Return, dirVars, kernelVars, PinInv
    <2>4. CASE DropRepin
      BY <1>1, <1>3, <2>4, ZenonT(60) DEF DropRepin, May, UndoWorks
    <2>5. CASE DropLog
      BY <2>5 DEF DropLog, ControlInv, PcInv, dirVars
    <2> QED
      BY <2>1, <2>2, <2>3, <2>4, <2>5, ZenonT(60)
  <1>9. cur \in Loaded' /\ HasData(mem'[cur]) => pin'[cur] # NoMap \/ pc' \in UnpinnedPcs
    <2>1. {"drop_meta", "drop_log", "drop_repin"} \subseteq UnpinnedPcs
      BY DEF UnpinnedPcs
    <2>2. CASE DropUnpin
      <3>1. pc \notin UnpinnedPcs /\ UNCHANGED <<mem, fd>>
        BY <2>2 DEF DropUnpin, UnpinnedPcs, memVars
      <3> QED
        BY <1>3, <2>1, <2>2, <3>1, ZenonT(60) DEF DropUnpin, Goto, Return, PinInv
    <2>3. CASE DropMeta
      BY <1>1, <2>1, <2>3, ZenonT(60) DEF DropMeta, Forget, Goto, Loaded
    <2>4. CASE DropMetaFails
      BY <2>1, <2>4, Zenon DEF DropMetaFails, Goto, memVars
    <2>5. CASE DropRepin
      BY <1>1, <1>3, <2>5, Zenon DEF DropRepin, May, UndoWorks
    <2>6. CASE DropLog
      BY <1>1, <2>6, Zenon DEF DropLog, Forget, Loaded
    <2> QED
      BY <2>2, <2>3, <2>4, <2>5, <2>6, ZenonT(60)
  <1>10. \A n \in Loaded' : n \in Names
    BY Zenon DEF Loaded
  <1> QED
    BY <1>2, <1>3, <1>5, <1>7, <1>8, <1>9, <1>10, NotRebuilt, PinStep, ZenonT(60)

(* The end of the process, or of one filter, leaves the pins alone.        *)
LEMMA ClosePins == ASSUME TypeOK, ControlInv, PinInv, Exit \/ (\E n \in Names : FreeFilter(n)) PROVE PinInv'
  <1>1. /\ fd \in [Names -> Maps \cup {NoMap}] /\ mem \in [Names -> MetaStates]
    BY Zenon DEF TypeOK, SetType
  <1>2. pc = "free" /\ pc' \in {"free", "down"} /\ UNCHANGED <<pin, meta, rebuilt>>
    BY Zenon DEF Exit, FreeFilter, Goto, kernelVars, dirVars, loadVars
  <1>3. pc \notin UnpinnedPcs /\ pc # "load_log" /\ pc' \notin StartPcs /\ pc' \notin {"create_log", "set_has_data"}
    BY <1>2 DEF UnpinnedPcs, StartPcs
  <1>4. \A n \in Loaded' : n \in Loaded /\ mem'[n] = mem[n]
    <2>1. CASE Exit
      BY <2>1, Zenon DEF Exit, memVars, Loaded
    <2>2. ASSUME NEW k \in Names, FreeFilter(k), NEW n \in Loaded' PROVE n \in Loaded /\ mem'[n] = mem[n]
      <3>1. n \in Names /\ n # k
        BY <1>1, <2>2, ZenonT(60) DEF FreeFilter, Forget, Loaded
      <3> QED
        BY <1>1, <2>2, <3>1, Zenon DEF FreeFilter, Forget, Loaded
    <2> QED
      BY <2>1, <2>2, Zenon
  <1> QED
    BY <1>2, <1>3, <1>4, NotRebuilt, PinFrame, ZenonT(60)

(* A start has every entry that has metadata in its queue, and takes each  *)
(* one out by loading it, by removing its metadata, or by giving up.       *)
LEMMA StartPins == ASSUME TypeOK, ControlInv, PinInv, Start PROVE PinInv'
  <1>1. /\ pc = "down" /\ pc' = "load" /\ UNCHANGED <<pin, meta, mem, fd, rebuilt>>
        /\ queue' = {n \in Names : meta[n] # "absent"}
    BY ZenonT(60) DEF Start, Goto, kernelVars, dirVars, memVars, loadVars
  <1>2. Loaded' = {}
    BY <1>1, SMTT(30) DEF ControlInv, PcInv, Loaded
  <1>3. ~rebuilt
    BY <1>1, NotRebuilt, SMTT(30)
  <1>4. \A n \in Names : meta'[n] = "dirty" => pin'[n] # NoMap
    BY <1>1 DEF PinInv
  <1>5. \A n \in Names : meta'[n] = "absent" \/ n \in queue'
    BY <1>1, ZenonT(60)
  <1> QED
    BY <1>1, <1>2, <1>3, <1>4, <1>5, SMTT(30) DEF PinInv

LEMMA EntryPins ==
  ASSUME TypeOK, ControlInv, PinInv, UndoWorks, NEW k \in Names,
         LoadPinned(k) \/ LoadEmpty(k) \/ LoadReplay(k) \/ LoadStale(k) \/ LoadUnreadable(k)
  PROVE  PinInv'
  <1>1. meta \in [Names -> MetaStates]
    BY Zenon DEF TypeOK, FileType
  <1>2. /\ pc = "load" /\ cur' = k /\ queue' = queue \ {k} /\ UNCHANGED <<pin, mem, fd, rebuilt>>
        /\ pc' \in {"load", "load_pin", "load_log"}
    BY ZenonT(60)
       DEF LoadPinned, LoadEmpty, LoadReplay, LoadStale, LoadUnreadable, RecoverStale, Entry, Goto,
           kernelVars, memVars, loadVars
  <1>3. ~rebuilt' /\ Loaded' = Loaded /\ pc \notin UnpinnedPcs /\ pc \notin {"drop_meta", "drop_repin"}
    BY <1>2, NotRebuilt DEF Loaded, UnpinnedPcs
  <1>4. \A n \in Names : meta'[n] = meta[n] \/ (n = k /\ meta'[n] = "absent")
    BY <1>1, Zenon
       DEF LoadPinned, LoadEmpty, LoadReplay, LoadStale, LoadUnreadable, RecoverStale, May,
           UndoWorks, dirVars
  <1>5. /\ pc' = "load" => meta'[k] = "absent"
        /\ pc' = "load_pin" => meta'[k] = "clean"
        /\ pc' = "load_log" => meta'[k] = "empty" \/ pin'[k] # NoMap
    <2>1. CASE LoadStale(k) \/ LoadUnreadable(k)
      BY <1>1, <2>1, ZenonT(60) DEF LoadStale, LoadUnreadable, RecoverStale, Goto, May, UndoWorks
    <2>2. CASE LoadPinned(k) \/ LoadEmpty(k) \/ LoadReplay(k)
      BY <2>2 DEF LoadPinned, LoadEmpty, LoadReplay, Goto, dirVars, kernelVars
    <2> QED
      BY <2>1, <2>2, ZenonT(60)
  <1>6. \A n \in Names : meta'[n] = "dirty" => pin'[n] # NoMap
    <2>1. ASSUME NEW n \in Names, meta'[n] = "dirty" PROVE meta[n] = "dirty"
      BY <1>4, <2>1, SMTT(30)
    <2> QED
      BY <1>2, <1>3, <2>1, ZenonT(60) DEF PinInv
  <1>7. \A n \in Loaded' : HasData(mem'[n]) => pin'[n] # NoMap
    BY <1>2, <1>3, ZenonT(60) DEF PinInv
  <1>8. \A n \in Names : meta[n] = "absent" \/ n \in queue \cup Loaded
    BY <1>2, ZenonT(60) DEF PinInv
  <1>9. \A n \in Names : meta'[n] = "absent" \/ n \in queue' \cup Loaded' \/ (pc' \in {"load_pin", "load_log"} /\ n = cur')
    <2>1. ASSUME NEW n \in Names, n # k PROVE meta'[n] = "absent" \/ n \in queue' \cup Loaded'
      BY <1>2, <1>3, <1>4, <1>8, <2>1, SMTT(30)
    <2> QED
      BY <1>2, <1>5, <2>1, SMTT(30)
  <1>10. pc' = "load_log" /\ HasData(meta'[k]) => pin'[k] # NoMap
    BY <1>5 DEF HasData
  <1> QED
    BY <1>2, <1>3, <1>5, <1>6, <1>7, <1>9, <1>10, SMTT(30) DEF PinInv

LEMMA LoadPins ==
  ASSUME TypeOK, ControlInv, PinInv, UndoWorks, LoadPin \/ LoadPublish \/ LoadDone \/ LoadFails
  PROVE  PinInv'
  <1>1. /\ cur \in Names /\ pin \in [Names -> Maps \cup {NoMap}] /\ fd \in [Names -> Maps \cup {NoMap}]
        /\ mem \in [Names -> MetaStates] /\ Loaded \subseteq Names
    BY ZenonT(60) DEF TypeOK, ControlType, KernelType, SetType, Loaded
  <1>2. pc \in LoadPcs /\ cur' = cur /\ meta' = meta
    BY DEF LoadPin, LoadPublish, LoadDone, LoadFails, LoadPcs, procVars, dirVars
  <1>3. pc \notin UnpinnedPcs /\ pc \notin {"drop_meta", "drop_repin"}
    BY <1>2 DEF UnpinnedPcs, LoadPcs
  <1>4. /\ \A n \in Names : meta[n] = "dirty" => pin[n] # NoMap
        /\ \A n \in Loaded : HasData(mem[n]) => pin[n] # NoMap
    BY <1>3, ZenonT(60) DEF PinInv
  <1>5. CASE LoadPin
    <2>1. /\ pc = "load_pin" /\ pc' = "load_log" /\ UNCHANGED <<queue, mem, fd>>
          /\ pin' = [pin EXCEPT ![cur] = newmap]
      BY <1>5, ZenonT(60) DEF LoadPin, Goto, procVars, memVars
    <2>2. newmap # NoMap /\ meta[cur] = "clean"
      BY <2>1, SMTT(30) DEF ControlInv, PcInv, NewPcs, PinInv
    <2>3. \A n \in Names : pin[n] # NoMap \/ n = cur => pin'[n] # NoMap
      BY <1>1, <2>1, <2>2, ZenonT(60)
    <2>4. Loaded' = Loaded
      BY <2>1 DEF Loaded
    <2>5. \A n \in Loaded' : HasData(mem'[n]) => pin'[n] # NoMap
      BY <1>1, <1>4, <2>1, <2>3, <2>4, ZenonT(60)
    <2>6. \A n \in Names : meta[n] = "absent" \/ n \in queue \cup Loaded \/ n = cur
      BY <2>1, SMTT(30) DEF PinInv
    <2> QED
      BY <1>1, <1>2, <1>4, <2>1, <2>2, <2>3, <2>4, <2>5, <2>6, SMTT(30) DEF PinInv
  <1>6. CASE LoadPublish
    <2>1. /\ pc = "load_log" /\ pc' = "load" /\ UNCHANGED <<queue, pin>> /\ ~rebuilt'
          /\ fd' = [fd EXCEPT ![cur] = newmap] /\ mem' = [mem EXCEPT ![cur] = meta[cur]]
      BY <1>6, ZenonT(60) DEF LoadPublish, Goto, procVars, kernelVars
    <2>2. newmap # NoMap /\ (HasData(meta[cur]) => pin[cur] # NoMap)
      BY <2>1, SMTT(30) DEF ControlInv, PcInv, NewPcs, PinInv
    <2>3. \A n \in Names : n \in Loaded' <=> (n \in Loaded \/ n = cur)
      BY <1>1, <2>1, <2>2, ZenonT(60) DEF Loaded
    <2>4. \A n \in Names : mem'[n] = IF n = cur THEN meta[cur] ELSE mem[n]
      BY <1>1, <2>1, ZenonT(60)
    <2>5. \A n \in Loaded' : HasData(mem'[n]) => pin'[n] # NoMap
      <3>1. \A n \in Loaded' : n \in Names
        BY ZenonT(60) DEF Loaded
      <3> QED
        BY <1>4, <2>1, <2>2, <2>3, <2>4, <3>1, ZenonT(60)
    <2>6. \A n \in Names : meta[n] = "absent" \/ n \in queue \cup Loaded \/ n = cur
      BY <2>1, SMTT(30) DEF PinInv
    <2>7. \A n \in Names : meta'[n] = "absent" \/ n \in queue' \cup Loaded'
      BY <1>2, <2>1, <2>3, <2>6, SMTT(30)
    <2> QED
      BY <1>2, <1>4, <2>1, <2>5, <2>7, SMTT(30) DEF PinInv
  <1>7. CASE LoadDone
    <2>1. pc = "load" /\ queue = {} /\ pc' = "orphans" /\ UNCHANGED <<queue, pin, mem, fd, rebuilt>>
      BY <1>7, ZenonT(60) DEF LoadDone, Goto, procVars, kernelVars, memVars, loadVars
    <2>2. Loaded' = Loaded /\ ~rebuilt
      BY <2>1, NotRebuilt, SMTT(30) DEF Loaded
    <2>3. \A n \in Names : meta[n] = "absent" \/ n \in queue \cup Loaded
      BY <2>1 DEF PinInv
    <2> QED
      BY <1>2, <1>4, <2>1, <2>2, <2>3, SMTT(30) DEF PinInv
  <1>8. CASE LoadFails
    <2>1. pc' = "free" /\ ~rebuilt' /\ UNCHANGED <<mem, fd>>
      BY <1>8, Zenon DEF LoadFails, Goto, memVars
    <2>2. \A n \in Names : pin[n] # NoMap => pin'[n] # NoMap \/ (rebuilt /\ n = cur)
      BY <1>1, <1>8, ZenonT(60) DEF LoadFails
    <2>3. rebuilt => meta[cur] # "dirty" /\ cur \notin Loaded
      BY DEF PinInv, ControlInv, PcInv, NewPcs
    <2>4. \A n \in Names : meta'[n] = "dirty" => pin'[n] # NoMap
      BY <1>2, <1>4, <2>2, <2>3, ZenonT(60)
    <2>5. \A n \in Loaded' : HasData(mem'[n]) => pin'[n] # NoMap
      BY <1>1, <1>4, <2>1, <2>2, <2>3, ZenonT(60) DEF Loaded
    <2>6. pc' \notin StartPcs /\ pc' \notin {"create_log", "set_has_data"}
      BY <2>1 DEF StartPcs
    <2> QED
      BY <2>1, <2>4, <2>5, <2>6, PinStep, ZenonT(60)
  <1> QED
    BY <1>5, <1>6, <1>7, <1>8, ZenonT(60)

(* The pins a start removes are those of names that have no metadata.      *)
LEMMA OrphanPins == ASSUME TypeOK, PinInv, CleanupOrphanPins PROVE PinInv'
  <1>1. pc = "orphans" /\ pc' = "listen" /\ UNCHANGED <<meta, mem, fd, rebuilt>>
    BY Zenon DEF CleanupOrphanPins, Goto, dirVars, memVars, loadVars
  <1>2. \A n \in Loaded : n \in Names /\ pin'[n] = pin[n]
    BY ZenonT(60) DEF CleanupOrphanPins, Loaded
  <1>3. \A n \in Names : n \notin Loaded => meta[n] = "absent"
    BY <1>1, SMTT(30) DEF PinInv
  <1>4. \A n \in Names : meta'[n] = "dirty" => pin'[n] # NoMap
    <2>1. ASSUME NEW n \in Names, meta[n] = "dirty" PROVE n \in Loaded
      BY <1>3, <2>1, SMTT(30)
    <2> QED
      BY <1>1, <1>2, <2>1, SMTT(30) DEF PinInv
  <1>5. pc \notin UnpinnedPcs
    BY <1>1 DEF UnpinnedPcs
  <1>6. \A n \in Loaded' : HasData(mem'[n]) => pin'[n] # NoMap
    BY <1>1, <1>2, <1>5, ZenonT(60) DEF PinInv, Loaded
  <1>7. pc' \notin StartPcs /\ pc' \notin {"create_log", "set_has_data"} /\ ~rebuilt'
    BY <1>1, NotRebuilt DEF StartPcs
  <1> QED
    BY <1>4, <1>6, <1>7, PinStep, ZenonT(60)

(* In a system whose process is not killed, whose host stays up and whose  *)
(* pins nobody removes, the map of a filter whose log lags behind stays    *)
(* pinned, through every failed call.                                      *)
THEOREM PinInvariant == ASSUME NotKilled, UndoWorks, PinsStay PROVE Spec => []PinInv
  <1>1. ASSUME Init PROVE PinInv
    <2>1. pc = "down" /\ ~rebuilt /\ Loaded = {} /\ \A n \in Names : meta[n] = "absent"
      BY <1>1, Zenon DEF Init, Loaded
    <2> QED
      BY <2>1 DEF PinInv
  <1>2. TypeOK /\ ControlInv /\ MapInv /\ PinInv /\ [Next]_vars => PinInv'
    <2> SUFFICES ASSUME TypeOK, ControlInv, MapInv, PinInv, [Next]_vars PROVE PinInv'
      OBVIOUS
    <2>1. ~Kill /\ ~HostCrash /\ \A n \in Names : ~PinRemoved(n)
      BY Zenon DEF Kill, HostCrash, PinRemoved, May, NotKilled, PinsStay
    <2>2. CASE Daemon
      BY <2>2, CreatePins, QuietPins, EnsurePins, DropPins, ClosePins, EntryPins, LoadPins,
         OrphanPins, ZenonT(60)
         DEF Daemon, Add, Drop, Load, Shutdown
    <2>3. CASE (\E n \in Names : SyncBegin(n)) \/ Environment
      BY <2>1, <2>3, CreatePins, QuietPins, StartPins, ZenonT(60) DEF Environment, Requests
    <2>4. CASE UNCHANGED vars
      BY <2>4, ZenonT(60)
         DEF PinInv, Loaded, vars, kernelVars, dirVars, logVars, memVars, procVars, loadVars
    <2> QED
      BY <2>2, <2>3, <2>4, ZenonT(60) DEF Next
  <1> QED
    BY <1>1, <1>2, MapInvariant, ControlInvariant, PTL DEF Spec

(* A daemon that was never killed accepts, at its next start, every entry  *)
(* that it left in the data directory: bloomd_load_metadata_dir does not   *)
(* stop at a dirty filter without a map, or at a map of other parameters.  *)
THEOREM StartAccepts == ASSUME NotKilled, UndoWorks, PinsStay PROVE Spec => []NeverRefused
  <1>1. TypeOK /\ ControlInv /\ MapInv /\ PinInv => NeverRefused
    <2> SUFFICES ASSUME TypeOK, ControlInv, MapInv, PinInv, pc = "load", NEW n \in queue PROVE ~Refuses(n)
      BY ZenonT(60) DEF NeverRefused
    <2> n \in Names
      BY SMTT(30) DEF TypeOK, ControlType
    <2>1. n \notin Loaded /\ meta[n] # "absent"
      BY DEF ControlInv, PcInv, LoadPcs
    <2>2. pin[n] # NoMap => ParamOf[pin[n]] = par[n]
      BY <2>1, ZenonT(60) DEF MapInv, OrphanInv
    <2>3. meta[n] = "dirty" => pin[n] # NoMap
      BY DEF PinInv
    <2> QED
      BY <2>2, <2>3, Zenon DEF Refuses
  <1> QED
    BY <1>1, PinInvariant, MapInvariant, ControlInvariant, PTL

-----------------------------------------------------------------------------
(* The forced sync.  The points at which a log may lag behind its map and  *)
(* not be due: the digest is on its way, or the metadata follows next.     *)
LagPcs == {"stage", "bpf", "sync_meta"}

Lags(n) == mem[n] = "dirty" /\ ~hist[n]

LEMMA StopQuiet ==
  ASSUME StopInv, UNCHANGED <<fd, mem, hist, dirty>>, ~stopping', pc \notin LagPcs
  PROVE  StopInv'
  <1>1. \A n \in Loaded' : mem'[n] = "dirty" /\ ~hist'[n] => dirty'[n]
    BY Zenon DEF StopInv, Loaded, LagPcs
  <1> QED
    BY <1>1, Zenon DEF StopInv

LEMMA StopFrame ==
  ASSUME StopInv, ~stopping', cur' = cur,
         \A n \in Names : n # cur => fd'[n] = fd[n] /\ mem'[n] = mem[n] /\ hist'[n] = hist[n] /\ dirty'[n] = dirty[n],
         cur \in Loaded' /\ mem'[cur] = "dirty" /\ ~hist'[cur] => dirty'[cur] \/ pc' \in LagPcs
  PROVE  StopInv'
  <1>1. ASSUME NEW n \in Loaded', n # cur PROVE mem'[n] = "dirty" /\ ~hist'[n] => dirty'[n]
    <2>1. n \in Names /\ n \in Loaded
      BY <1>1, Zenon DEF Loaded
    <2> QED
      BY <1>1, <2>1, ZenonT(60) DEF StopInv
  <1> QED
    BY <1>1, ZenonT(60) DEF StopInv, LagPcs

(* Where the loop of main has ended, only the sync and the freeing go on.  *)
LEMMA NotStopping == ASSUME StopInv, pc \notin {"idle", "free"} \cup SyncPcs PROVE ~stopping
  BY ZenonT(60) DEF StopInv

(* No write fails when no call does.                                       *)
LEMMA NoFailures == ASSUME CallsWork, NEW f, NEW b PROVE WriteFailures(f, b) = {}
  <1>1. ~May("io") /\ ~May("partial")
    BY DEF CallsWork, May
  <1>2. {g \in {f} : b # <<>> /\ May("io")} = {}
    BY <1>1
  <1>3. {j \in 1..(Len(b) * RecUnits - 1) : May("partial")} = {}
    BY <1>1
  <1> QED
    BY <1>2, <1>3 DEF WriteFailures

LEMMA AlwaysHistory ==
  ASSUME TypeOK, ControlInv, NEW n \in Loaded, Lags(n)
  PROVE  mode = "periodic"
  <1>1. mode # "always"
    BY ZenonT(60) DEF ControlInv, SetInv, Lags
  <1>2. mode \in {"periodic", "always"}
    BY ConstantAssumption DEF TypeOK, ControlType
  <1> QED
    BY <1>1, <1>2

(* The handlers' steps that leave the filters of the set alone.            *)
LEMMA QuietStops ==
  ASSUME StopInv, CallsWork,
         (\E n \in Names, p \in Params : CreateBegin(n, p)) \/ CreateMeta \/ CreateMetaFails \/ CreateAddFails
           \/ (\E n \in Names, batch \in Batches : AddBegin(n, batch)) \/ EnsurePin \/ EnsureUndoLog \/ EnsureUndoPin
           \/ StageWrite \/ StageFsync \/ (\E n \in Names : DropBegin(n)) \/ DropUnpin \/ DropMetaFails \/ DropRepin
           \/ Start \/ LoadPin \/ LoadFails \/ LoadDone \/ CleanupOrphanPins \/ Listen
           \/ (\E n \in Names : LoadPinned(n) \/ LoadEmpty(n) \/ LoadReplay(n) \/ LoadStale(n) \/ LoadUnreadable(n)
                                  \/ LoadRefuse(n))
  PROVE  StopInv'
  <1>1. UNCHANGED <<fd, mem, hist, dirty, stopping>>
    BY ZenonT(60)
       DEF CreateBegin, CreateMeta, CreateMetaFails, CreateAddFails, AddBegin, EnsurePin,
           EnsureUndoLog, EnsureUndoPin, StageWrite, StageFsync, DropBegin, DropUnpin,
           DropMetaFails, DropRepin, Start, LoadPin, LoadFails, LoadDone, CleanupOrphanPins, Listen,
           LoadPinned, LoadEmpty, LoadReplay, LoadStale, LoadUnreadable, LoadRefuse, RecoverStale,
           Flush, FlushFails, memVars, procVars
  <1>2. \/ pc = "idle" /\ ~stopping
        \/ pc \in {"create_meta", "create_add", "pin", "undo_log", "undo_pin", "write", "fsync", "drop_unpin", "drop_meta",
                   "drop_repin", "down"} \cup LoadPcs
    BY ZenonT(60)
       DEF CreateBegin, CreateMeta, CreateMetaFails, CreateAddFails, AddBegin, EnsurePin,
           EnsureUndoLog, EnsureUndoPin, StageWrite, StageFsync, DropBegin, DropUnpin,
           DropMetaFails, DropRepin, Start, LoadPin, LoadFails, LoadDone, CleanupOrphanPins, Listen,
           LoadPinned, LoadEmpty, LoadReplay, LoadStale, LoadUnreadable, LoadRefuse, Entry, Idle,
           LoadPcs
  <1>3. pc \notin LagPcs /\ (pc \notin {"idle", "free"} \cup SyncPcs \/ ~stopping)
    BY <1>2 DEF LagPcs, LoadPcs, SyncPcs
  <1>4. ~stopping
    BY <1>3, NotStopping, ZenonT(60)
  <1> QED
    BY <1>1, <1>3, <1>4, StopQuiet, ZenonT(60)

(* The steps of CREATE, ADD, DROP and load that change a filter of the set.*)
LEMMA ChangeStops ==
  ASSUME TypeOK, ControlInv, ControlInv', StopInv, CallsWork,
         CreateAdd \/ EnsureLog \/ EnsureMeta \/ MarkDirty \/ StageDigest \/ BpfAdd \/ BpfAddFails \/ RollbackTruncate
           \/ RestoreClean \/ DropMeta \/ DropLog \/ LoadPublish
  PROVE  StopInv'
  <1>1. /\ cur \in Names /\ fd \in [Names -> Maps \cup {NoMap}] /\ mem \in [Names -> MetaStates]
        /\ hist \in [Names -> BOOLEAN] /\ dirty \in [Names -> BOOLEAN]
    BY ZenonT(60) DEF TypeOK, ControlType, SetType
  <1>2. ~May("io") /\ ~May("undo") /\ \A f, b : WriteFailures(f, b) = {}
    BY NoFailures, SMTT(30) DEF May, CallsWork
  <1>3. UNCHANGED <<stopping, cur>>
    BY ZenonT(60)
       DEF CreateAdd, EnsureLog, EnsureMeta, MarkDirty, StageDigest, BpfAdd, BpfAddFails,
           RollbackTruncate, RestoreClean, DropMeta, DropLog, LoadPublish, procVars
  <1>4. pc \in {"create_add", "create_log", "set_has_data", "mark", "stage", "bpf", "truncate", "restore", "drop_meta",
                "drop_log", "load_log"}
    BY ZenonT(60)
       DEF CreateAdd, EnsureLog, EnsureMeta, MarkDirty, StageDigest, BpfAdd, BpfAddFails,
           RollbackTruncate, RestoreClean, DropMeta, DropLog, LoadPublish
  <1>5. ~stopping'
    <2>1. pc \notin {"idle", "free"} \cup SyncPcs
      BY <1>4, SMTT(30) DEF SyncPcs
    <2> QED
      BY <1>3, <2>1, NotStopping, ZenonT(60)
  <1>6. \A n \in Names : n # cur => fd'[n] = fd[n] /\ mem'[n] = mem[n] /\ hist'[n] = hist[n] /\ dirty'[n] = dirty[n]
    BY <1>1, ZenonT(60)
       DEF CreateAdd, EnsureLog, EnsureMeta, MarkDirty, StageDigest, BpfAdd, BpfAddFails,
           RollbackTruncate, RestoreClean, DropMeta, DropLog, LoadPublish, UpdateMeta, Forget,
           memVars
  <1>7. cur \in Loaded' /\ mem'[cur] = "dirty" /\ ~hist'[cur] => dirty'[cur] \/ pc' \in LagPcs
    <2>1. CASE CreateAdd \/ RestoreClean \/ EnsureMeta
      <3>1. mem'[cur] # "dirty"
        <4>1. CASE CreateAdd
          BY <1>1, <4>1, SMTT(30) DEF CreateAdd
        <4>2. CASE RestoreClean \/ EnsureMeta
          BY <1>1, <1>2, <4>2, SMTT(30) DEF RestoreClean, EnsureMeta, UpdateMeta
        <4> QED
          BY <2>1, <4>1, <4>2, SMTT(30)
      <3> QED
        BY <3>1
    <2>2. CASE EnsureLog
      <3>1. mem'[cur] = "empty"
        BY <2>2, ZenonT(60) DEF EnsureLog, ControlInv, PcInv, EnsurePcs
      <3> QED
        BY <3>1, SMTT(30)
    <2>3. CASE MarkDirty
      <3>1. pc' = "stage"
        BY <1>2, <2>3, ZenonT(60) DEF MarkDirty
      <3> QED
        BY <3>1 DEF LagPcs
    <2>4. CASE StageDigest
      <3>1. pc' = IF mode = "always" THEN "write" ELSE "bpf"
        BY <1>2, <2>4, ZenonT(60) DEF StageDigest, FlushFails
      <3>2. mode' = mode
        BY <2>4, ZenonT(60) DEF StageDigest, procVars
      <3>3. mode = "always" => (cur \in Loaded' /\ mem'[cur] = "dirty" => hist'[cur])
        BY <1>3, <3>2, ZenonT(60) DEF ControlInv, SetInv
      <3>4. mode # "always" => pc' \in LagPcs
        BY <3>1 DEF LagPcs
      <3> QED
        BY <3>3, <3>4, ZenonT(60)
    <2>5. CASE BpfAdd
      <3>1. mode' = mode /\ dirty'[cur] = (mode = "periodic") /\ UNCHANGED <<fd, mem, hist>>
        BY <1>1, <2>5, ZenonT(60) DEF BpfAdd, procVars
      <3>2. ASSUME cur \in Loaded', mem'[cur] = "dirty", ~hist'[cur] PROVE mode = "periodic"
        BY <3>1, <3>2, AlwaysHistory, ZenonT(60) DEF Loaded, Lags
      <3> QED
        BY <3>1, <3>2, ZenonT(60)
    <2>6. CASE BpfAddFails
      BY <1>2, <2>6, ZenonT(60) DEF BpfAddFails
    <2>7. CASE RollbackTruncate
      <3>1. mode = "always" /\ mode' = mode
        BY <2>7, SMTT(30) DEF RollbackTruncate, procVars, ControlInv, AddInv
      <3> QED
        BY <1>3, <3>1, ZenonT(60) DEF ControlInv, SetInv
    <2>8. CASE DropMeta
      <3>1. CASE HasData(mem[cur])
        <4>1. UNCHANGED <<fd, mem, hist, dirty>>
          BY <2>8, <3>1, ZenonT(60) DEF DropMeta, memVars
        <4>2. pc \notin LagPcs
          BY <2>8 DEF DropMeta, LagPcs
        <4> QED
          BY <4>1, <4>2, ZenonT(60) DEF StopInv, Loaded, LagPcs
      <3>2. CASE ~HasData(mem[cur])
        BY <1>1, <2>8, <3>2, ZenonT(60) DEF DropMeta, Forget, Loaded
      <3> QED
        BY <3>1, <3>2, SMTT(30)
    <2>9. CASE DropLog
      BY <1>1, <2>9, ZenonT(60) DEF DropLog, Forget, Loaded
    <2>10. CASE LoadPublish
      BY <1>1, <2>10, ZenonT(60) DEF LoadPublish
    <2> QED
      BY <2>1, <2>2, <2>3, <2>4, <2>5, <2>6, <2>7, <2>8, <2>9, <2>10, ZenonT(60)
  <1> QED
    BY <1>3, <1>5, <1>6, <1>7, StopFrame, ZenonT(60)

(* One filter of the sync: it leaves the queue of the stop when it is      *)
(* taken up, and is clean, or was incomplete when loaded, when it is done. *)
LEMMA SyncStops ==
  ASSUME TypeOK, ControlInv, StopInv, CallsWork, Sync \/ (\E n \in Names : SyncBegin(n))
  PROVE  StopInv'
  <1>1. /\ cur \in Names /\ mem \in [Names -> MetaStates] /\ dirty \in [Names -> BOOLEAN]
    BY ZenonT(60) DEF TypeOK, ControlType, SetType
  <1>2. ~May("io") /\ \A f, b : WriteFailures(f, b) = {}
    BY NoFailures DEF May, CallsWork
  <1>3. UNCHANGED <<fd, hist, stopping>> /\ \A n \in Loaded : n \in Names
    BY ZenonT(60)
       DEF Sync, SyncWrite, SyncFsync, SyncMeta, SyncBegin, UpdateMeta, Flush, FlushFails, memVars,
           procVars, Loaded
  <1>4. Loaded' = Loaded
    BY <1>3 DEF Loaded
  <1>5. ASSUME NEW k \in Names, SyncBegin(k) PROVE StopInv'
    <2>1. /\ pc = "idle" /\ pc' = "sync_write" /\ cur' = k /\ UNCHANGED <<mem, dirty>>
          /\ IF stopping THEN k \in queue /\ queue' = queue \ {k} ELSE UNCHANGED queue
      BY <1>5, ZenonT(60) DEF SyncBegin, Goto, memVars
    <2>2. pc \notin LagPcs /\ pc' \in SyncPcs /\ pc' # "free" /\ pc \notin {"sync_write", "sync_fsync"}
      BY <2>1 DEF LagPcs, SyncPcs
    <2>3. \A n \in Loaded' : mem'[n] = "dirty" /\ ~hist'[n] => dirty'[n]
      BY <1>3, <1>4, <2>1, <2>2, ZenonT(60) DEF StopInv, LagPcs
    <2>4. stopping => \A n \in Names : dirty'[n] => n \in queue' \/ n = cur'
      BY <2>1, <2>2, ZenonT(60) DEF StopInv
    <2>5. pc' \in {"sync_write", "sync_fsync"}
      BY <2>1
    <2> QED
      BY <1>3, <2>2, <2>3, <2>4, <2>5, ZenonT(60) DEF StopInv
  <1>6. CASE SyncWrite
    <2>1. pc = "sync_write" /\ pc' = "sync_fsync" /\ UNCHANGED <<mem, dirty, queue, cur>>
      BY <1>2, <1>6, ZenonT(60) DEF SyncWrite, FlushFails, Goto, procVars
    <2>2. pc \notin LagPcs /\ pc' \in SyncPcs /\ pc' # "free"
      BY <2>1 DEF LagPcs, SyncPcs
    <2>3. \A n \in Loaded' : mem'[n] = "dirty" /\ ~hist'[n] => dirty'[n]
      BY <1>3, <1>4, <2>1, <2>2, ZenonT(60) DEF StopInv, LagPcs
    <2>4. stopping => \A n \in Names : dirty'[n] => n \in queue' \/ n = cur'
      BY <2>1, ZenonT(60) DEF StopInv
    <2>5. pc' \in {"sync_write", "sync_fsync"}
      BY <2>1
    <2> QED
      BY <1>3, <2>2, <2>3, <2>4, <2>5, ZenonT(60) DEF StopInv
  <1>7. CASE SyncFsync
    <2>1. /\ pc = "sync_fsync" /\ UNCHANGED <<mem, queue, cur>> /\ dirty' = [dirty EXCEPT ![cur] = FALSE]
          /\ pc' = IF mem[cur] = "dirty" /\ ~hist[cur] THEN "sync_meta" ELSE "idle"
      BY <1>2, <1>7, ZenonT(60) DEF SyncFsync, Goto, Return, procVars
    <2>2. pc \notin LagPcs /\ pc' \in {"idle", "free"} \cup SyncPcs /\ pc' # "free"
      BY <2>1 DEF LagPcs, SyncPcs
    <2>3. ~dirty'[cur] /\ \A n \in Names : n # cur => dirty'[n] = dirty[n]
      BY <1>1, <2>1, ZenonT(60)
    <2>4. \A n \in Loaded' : mem'[n] = "dirty" /\ ~hist'[n] => dirty'[n] \/ (pc' = "sync_meta" /\ n = cur')
      BY <1>3, <1>4, <2>1, <2>2, <2>3, ZenonT(60) DEF StopInv, LagPcs
    <2>5. stopping => \A n \in Names : dirty'[n] => n \in queue'
      BY <2>1, <2>3, ZenonT(60) DEF StopInv
    <2> QED
      BY <1>3, <2>2, <2>4, <2>5, ZenonT(60) DEF StopInv
  <1>8. CASE SyncMeta
    <2>1. pc = "sync_meta" /\ pc' = "idle" /\ UNCHANGED <<dirty, queue, cur>> /\ mem' = [mem EXCEPT ![cur] = "clean"]
      BY <1>2, <1>8, ZenonT(60) DEF SyncMeta, UpdateMeta, Return, procVars
    <2>2. mem'[cur] # "dirty" /\ \A n \in Names : n # cur => mem'[n] = mem[n]
      BY <1>1, <2>1
    <2>3. \A n \in Loaded' : mem'[n] = "dirty" /\ ~hist'[n] => dirty'[n]
      BY <1>3, <1>4, <2>1, <2>2, ZenonT(60) DEF StopInv
    <2>4. pc \notin {"sync_write", "sync_fsync"}
      BY <2>1
    <2>5. stopping => \A n \in Names : dirty'[n] => n \in queue'
      BY <2>1, <2>4, ZenonT(60) DEF StopInv
    <2>6. pc' \in {"idle", "free"} \cup SyncPcs /\ pc' # "free"
      BY <2>1
    <2> QED
      BY <1>3, <2>3, <2>5, <2>6, ZenonT(60) DEF StopInv
  <1> QED
    BY <1>5, <1>6, <1>7, <1>8, ZenonT(60) DEF Sync

LEMMA LastStops ==
  ASSUME TypeOK, ControlInv, StopInv, Stop \/ StopSynced \/ (\E n \in Names : FreeFilter(n) \/ PinRemoved(n))
  PROVE  StopInv'
  <1>1. /\ fd \in [Names -> Maps \cup {NoMap}] /\ mem \in [Names -> MetaStates]
        /\ hist \in [Names -> BOOLEAN] /\ dirty \in [Names -> BOOLEAN]
    BY Zenon DEF TypeOK, SetType
  <1>2. CASE Stop
    <2>1. pc = "idle" /\ pc' = pc /\ UNCHANGED <<fd, mem, hist, dirty>> /\ queue' = {n \in Names : dirty[n]}
      BY <1>2, ZenonT(60) DEF Stop, Idle, memVars
    <2>2. pc \notin LagPcs /\ pc' \in {"idle", "free"} \cup SyncPcs /\ pc' # "free"
      BY <2>1 DEF LagPcs, SyncPcs
    <2>3. \A n \in Loaded' : mem'[n] = "dirty" /\ ~hist'[n] => dirty'[n]
      BY <2>1, <2>2, ZenonT(60) DEF StopInv, LagPcs, Loaded
    <2>4. \A n \in Names : dirty'[n] => n \in queue'
      BY <2>1, Zenon
    <2> QED
      BY <2>2, <2>3, <2>4, ZenonT(60) DEF StopInv
  <1>3. CASE StopSynced
    <2>1. pc = "idle" /\ queue = {} /\ pc' = "free" /\ UNCHANGED <<fd, mem, hist, dirty, queue, stopping>>
      BY <1>3, ZenonT(60) DEF StopSynced, Goto, memVars, procVars
    <2>2. pc \notin LagPcs /\ pc' \in {"idle", "free"} \cup SyncPcs /\ pc \notin {"sync_write", "sync_fsync"}
      BY <2>1 DEF LagPcs
    <2>3. \A n \in Loaded' : mem'[n] = "dirty" /\ ~hist'[n] => dirty'[n]
      BY <2>1, <2>2, ZenonT(60) DEF StopInv, LagPcs, Loaded
    <2>4. stopping => \A n \in Names : dirty'[n] => n \in queue'
      BY <2>1, <2>2, ZenonT(60) DEF StopInv
    <2> QED
      BY <2>1, <2>2, <2>3, <2>4, ZenonT(60) DEF StopInv
  <1>4. ASSUME NEW k \in Names, FreeFilter(k) PROVE StopInv'
    <2>1. pc = "free" /\ pc' = "free" /\ UNCHANGED <<queue, stopping>> /\ Forget(k)
      BY <1>4, ZenonT(60) DEF FreeFilter, Goto, procVars
    <2>2. \A n \in Names : /\ n # k => mem'[n] = mem[n] /\ hist'[n] = hist[n] /\ dirty'[n] = dirty[n] /\ fd'[n] = fd[n]
                           /\ n = k => ~dirty'[n] /\ n \notin Loaded'
      BY <1>1, <2>1, ZenonT(60) DEF Forget, Loaded
    <2>3. pc \notin LagPcs /\ pc' \in {"idle", "free"} \cup SyncPcs /\ pc \notin {"sync_write", "sync_fsync"}
      BY <2>1 DEF LagPcs
    <2>4. \A n \in Loaded' : mem'[n] = "dirty" /\ ~hist'[n] => dirty'[n]
      BY <2>2, <2>3, ZenonT(60) DEF StopInv, LagPcs, Loaded
    <2>5. stopping => \A n \in Names : dirty'[n] => n \in queue'
      BY <2>1, <2>2, <2>3, ZenonT(60) DEF StopInv
    <2> QED
      BY <2>1, <2>3, <2>4, <2>5, ZenonT(60) DEF StopInv
  <1>5. ASSUME NEW k \in Names, PinRemoved(k) PROVE StopInv'
    BY <1>5, ZenonT(60) DEF PinRemoved, StopInv, Loaded, memVars, procVars
  <1> QED
    BY <1>2, <1>3, <1>4, <1>5, ZenonT(60)

LEMMA EndStops == ASSUME StopInv, Exit \/ Kill \/ HostCrash PROVE StopInv'
  <1>1. Loaded' = {} /\ ~stopping'
    BY DEF Exit, Kill, HostCrash, ProcessGone, Loaded, memVars
  <1> QED
    BY <1>1, ZenonT(60) DEF StopInv

(* Nothing is left out of the forced sync of a daemon that is told to      *)
(* stop: if its calls succeed, then when bloomd_filter_set_free runs every *)
(* log is complete and marked so, but for those it loaded incomplete.      *)
THEOREM StopIsComplete == ASSUME CallsWork PROVE Spec => []StopSyncsAll
  <1>1. ASSUME Init PROVE StopInv
    <2>1. Loaded = {} /\ ~stopping
      BY <1>1, Zenon DEF Init, Loaded
    <2> QED
      BY <2>1, Zenon DEF StopInv
  <1>2. TypeOK /\ ControlInv /\ (TypeOK /\ ControlInv)' /\ StopInv /\ [Next]_vars => StopInv'
    <2> SUFFICES ASSUME TypeOK, ControlInv, ControlInv', StopInv, [Next]_vars PROVE StopInv'
      BY Zenon
    <2>1. CASE Daemon
      BY <2>1, QuietStops, ChangeStops, SyncStops, LastStops, EndStops, ZenonT(60)
         DEF Daemon, Create, Add, Drop, Load, Shutdown
    <2>2. CASE (\E n \in Names : SyncBegin(n)) \/ Environment
      BY <2>2, QuietStops, SyncStops, LastStops, EndStops, ZenonT(60) DEF Environment, Requests
    <2>3. CASE UNCHANGED vars
      BY <2>3, ZenonT(60) DEF StopInv, Loaded, vars, memVars, procVars
    <2> QED
      BY <2>1, <2>2, <2>3, ZenonT(60) DEF Next
  <1>3. StopInv => StopSyncsAll
    <2> SUFFICES ASSUME StopInv, pc = "free", stopping, NEW n \in Loaded, mem[n] = "dirty" PROVE hist[n]
      BY Zenon DEF StopSyncsAll
    <2>1. pc \notin LagPcs /\ pc \notin {"sync_write", "sync_fsync"}
      BY DEF LagPcs
    <2>2. ~dirty[n]
      BY <2>1, Zenon DEF StopInv, Loaded
    <2> QED
      BY <2>1, <2>2, ZenonT(60) DEF StopInv, LagPcs
  <1> QED
    BY <1>1, <1>2, <1>3, ControlInvariant, PTL DEF Spec

=============================================================================
