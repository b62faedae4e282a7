-------------------------- MODULE FilterStoreRefine --------------------------
(***************************************************************************)
(* What can be seen of the store from outside, for every value of the      *)
(* constants.  Clients: FilterStore implements StoreSpec, since most       *)
(* system calls change nothing that a client can tell, and the others are  *)
(* one step of StoreSpec each.  And whoever runs bloominspect: acting on   *)
(* its report loses no digest, and trying a start again makes it no worse. *)
(***************************************************************************)
EXTENDS FilterStoreImpl, FilterStoreData, Inspect

-----------------------------------------------------------------------------
(* What a step does to the three parts of the refinement mapping.          *)

(* A step that leaves metadata, descriptors and the maps in use alone is   *)
(* not seen by clients.                                                    *)
LEMMA Unseen ==
  ASSUME UNCHANGED <<meta, fd, added>>, \A k \in Loaded : bits'[fd[k]] = bits[fd[k]]
  PROVE  UNCHANGED Store!vars
  <1>1. Exists' = Exists /\ Loaded' = Loaded /\ added' = added
    BY Zenon DEF Exists, Loaded
  <1>2. Found' = Found
    BY <1>1, Zenon DEF Found, Loaded
  <1> QED
    BY <1>1, <1>2, Zenon DEF Store!vars

(* The metadata of one filter is written or removed.                       *)
LEMMA ExistsAt ==
  ASSUME TypeOK, NEW n \in Names, NEW s \in MetaStates, meta' = [meta EXCEPT ![n] = s]
  PROVE  Exists' = [Exists EXCEPT ![n] = (s # "absent")]
  BY Zenon DEF Exists, TypeOK, FileType

(* A filter with metadata gets other metadata.                             *)
LEMMA ExistsStill ==
  ASSUME TypeOK, NEW n \in Names, NEW s \in MetaStates \ {"absent"}, meta[n] # "absent",
         meta' = [meta EXCEPT ![n] = s]
  PROVE  Exists' = Exists
  BY DEF Exists, TypeOK, FileType

(* Descriptors and maps stay: so does what is served and found.            *)
LEMMA FoundStill ==
  ASSUME UNCHANGED <<fd, bits>>
  PROVE  Loaded' = Loaded /\ Found' = Found
  BY Zenon DEF Found, Loaded

(* A filter leaves the set.                                                *)
LEMMA FoundNoMore ==
  ASSUME TypeOK, NEW n \in Names, Forget(n), UNCHANGED bits
  PROVE  Loaded' = Loaded \ {n} /\ Found' = [Found EXCEPT ![n] = {}]
  <1>1. fd' = [fd EXCEPT ![n] = NoMap] /\ fd \in [Names -> Maps \cup {NoMap}]
    BY Zenon DEF Forget, TypeOK, SetType
  <1>2. Loaded' = Loaded \ {n}
    BY <1>1, Zenon DEF Loaded
  <1>3. \A k \in Names : Found'[k] = [Found EXCEPT ![n] = {}][k]
    BY <1>1, <1>2 DEF Found
  <1> QED
    BY <1>2, <1>3, Zenon DEF Found

(* A filter joins the set with map m.                                      *)
LEMMA FoundNow ==
  ASSUME TypeOK, NEW n \in Names \ Loaded, NEW m \in Maps, fd' = [fd EXCEPT ![n] = m], UNCHANGED bits
  PROVE  Loaded' = Loaded \cup {n} /\ Found' = [Found EXCEPT ![n] = bits[m]]
  <1>1. fd \in [Names -> Maps \cup {NoMap}] /\ m # NoMap
    BY MapNotNone, Zenon DEF TypeOK, SetType
  <1>2. Loaded' = Loaded \cup {n}
    BY <1>1, Zenon DEF Loaded
  <1>3. \A k \in Names : Found'[k] = [Found EXCEPT ![n] = bits[m]][k]
    BY <1>1, <1>2 DEF Found
  <1> QED
    BY <1>2, <1>3, Zenon DEF Found

(* A new map is nobody's: what is found stays as it is.                    *)
LEMMA FreshUnseen ==
  ASSUME TypeOK, NEW p, NEW m \in Fresh(p), NEW s, bits' = [bits EXCEPT ![m] = s]
  PROVE  \A k \in Loaded : bits'[fd[k]] = bits[fd[k]]
  BY FreshBits, Zenon DEF Loaded

(* bloomd_update_filter_meta_state of a filter of the set.                 *)
LEMMA UpdateUnseen ==
  ASSUME TypeOK, ControlInv, NEW n \in Loaded, NEW s \in MetaStates \ {"absent"}, pc # "drop_log",
         UpdateMeta(n, s), UNCHANGED <<bits, added>>
  PROVE  UNCHANGED Store!vars
  <1>1. n \in Names /\ meta[n] # "absent"
    BY Zenon DEF ControlInv, SetInv, Loaded
  <1>2. Exists' = Exists
    BY <1>1, ExistsStill, Zenon DEF UpdateMeta, MetaWrite
  <1>3. Loaded' = Loaded /\ Found' = Found
    BY FoundStill, Zenon DEF UpdateMeta
  <1> QED
    BY <1>2, <1>3, Zenon DEF Store!vars

-----------------------------------------------------------------------------
(* Every step is one of StoreSpec, or one that clients do not see.         *)

StoreStep == Store!Next \/ UNCHANGED Store!vars

(* CREATE: the metadata makes the filter exist, bloomd_filter_set_add      *)
(* makes it answer, and the undo steps take back an empty filter.          *)
LEMMA CreateStep ==
  ASSUME TypeOK, IInv, ServesAll, (\E n \in Names, p \in Params : CreateBegin(n, p)) \/ Create
  PROVE  StoreStep
  <1>1. cur \in Names
    BY Zenon DEF TypeOK, ControlType
  <1>2. ASSUME NEW n \in Names, NEW p \in Params, CreateBegin(n, p) PROVE StoreStep
    <2>1. \A k \in Loaded : bits'[fd[k]] = bits[fd[k]]
      BY <1>2, FreshUnseen, Zenon DEF CreateBegin, TakeEmptyMap
    <2> QED
      BY <1>2, <2>1, Unseen, Zenon DEF CreateBegin, dirVars, memVars, StoreStep
  <1>3. ASSUME CreateMeta PROVE StoreStep
    <2>1. cur \notin Loaded
      BY <1>3, ZenonT(60) DEF CreateMeta, IInv, ControlInv, PcInv, NewPcs, MakePcs
    <2>2. added[cur] = {}
      BY <1>1, <1>3, <2>1, SMTT(30) DEF CreateMeta, ServesAll, LoadingPcs
    <2>3. added' = added
      BY <1>1, <1>3, <2>2, SMTT(30) DEF CreateMeta, TypeOK, SetType
    <2>4. Exists' = [Exists EXCEPT ![cur] = TRUE]
      <3>1. meta' = [meta EXCEPT ![cur] = "empty"] /\ "empty" \in MetaStates /\ "empty" # "absent"
        BY <1>3 DEF CreateMeta, MetaWrite, MetaStates
      <3>2. Exists' = [Exists EXCEPT ![cur] = ("empty" # "absent")]
        BY <1>1, <3>1, ExistsAt, ZenonT(60)
      <3>3. ("empty" # "absent") = TRUE
        OBVIOUS
      <3> QED
        BY <3>2, <3>3, Zenon
    <2>5. Loaded' = Loaded /\ Found' = Found
      BY <1>3, FoundStill, Zenon DEF CreateMeta, kernelVars, memVars
    <2>6. Store!Create(cur)
      BY <2>1, <2>2, <2>3, <2>4, <2>5, ZenonT(60) DEF Store!Create
    <2> QED
      BY <1>1, <2>6, Zenon DEF Store!Next, StoreStep
  <1>4. ASSUME CreateMetaFails PROVE StoreStep
    BY <1>4, Unseen, Zenon DEF CreateMetaFails, kernelVars, dirVars, memVars, StoreStep
  <1>5. ASSUME CreateAdd PROVE StoreStep
    <2>1. cur \notin Loaded /\ newmap \in Maps /\ meta[cur] = "empty" /\ added[cur] = {}
      BY <1>5, ZenonT(60)
         DEF CreateAdd, IInv, ControlInv, PcInv, NewPcs, MakePcs, DataInv, StepData, TypeOK,
             ControlType
    <2>2. Loaded' = Loaded \cup {cur} /\ Found' = [Found EXCEPT ![cur] = bits[newmap]]
      BY <1>1, <1>5, <2>1, FoundNow, ZenonT(60) DEF CreateAdd, kernelVars
    <2>3. Exists' = Exists /\ added' = added
      BY <1>5, Zenon DEF CreateAdd, dirVars, Exists
    <2>4. Exists[cur]
      BY <1>1, <2>1, Zenon DEF Exists
    <2>5. bits[newmap] \in SUBSET Digests
      BY <2>1, Zenon DEF TypeOK, KernelType
    <2>6. added[cur] \subseteq bits[newmap]
      BY <2>1, Zenon
    <2>7. Store!Serve(cur)
      BY <2>1, <2>2, <2>3, <2>4, <2>5, <2>6, ZenonT(60) DEF Store!Serve
    <2> QED
      BY <1>1, <2>7, ZenonT(60) DEF Store!Next, StoreStep
  <1>6. ASSUME CreateAddFails PROVE StoreStep
    <2>1. cur \notin Loaded /\ added[cur] = {}
      BY <1>6, ZenonT(60)
         DEF CreateAddFails, IInv, ControlInv, PcInv, NewPcs, MakePcs, DataInv, StepData
    <2>2. Loaded' = Loaded /\ Found' = Found /\ added' = added
      BY <1>6, FoundStill, Zenon DEF CreateAddFails, memVars
    <2>3. CASE UNCHANGED meta
      BY <1>6, <2>3, Unseen, Zenon DEF CreateAddFails, memVars, StoreStep
    <2>4. CASE meta' = [meta EXCEPT ![cur] = "absent"]
      <3>1. Exists' = [Exists EXCEPT ![cur] = ("absent" # "absent")]
        BY <1>1, <2>4, ExistsAt, Zenon DEF MetaStates
      <3>2. Exists' = [Exists EXCEPT ![cur] = FALSE]
        BY <3>1, Zenon
      <3>3. Store!Lose(cur)
        BY <2>1, <2>2, <3>2, Zenon DEF Store!Lose
      <3> QED
        BY <1>1, <3>3, Zenon DEF Store!Next, StoreStep
    <2> QED
      BY <1>6, <2>3, <2>4, ZenonT(60) DEF CreateAddFails
  <1> QED
    BY <1>2, <1>3, <1>4, <1>5, <1>6, ZenonT(60) DEF Create

(* ADD and MADD: one digest is added by bloomd_bpf_add_digest, in the map  *)
(* of its filter and so in every filter that uses this map.                *)
LEMMA AddStep ==
  ASSUME TypeOK, IInv, BpfAdd
  PROVE  StoreStep
  <1> DEFINE d == Head(items)
             found == {k \in Loaded : fd[k] = fd[cur]}
  <1>1. cur \in Loaded /\ cur \in Names /\ items # <<>> /\ meta[cur] # "absent"
    BY ZenonT(60)
       DEF BpfAdd, IInv, ControlInv, PcInv, AddInv, SetInv, DataPcs, AddPcs, EnsurePcs, ItemPcs,
           HasData, Loaded
  <1>2. d \in Digests
    BY ItemHead, Zenon DEF BpfAdd, ItemPcs, IInv
  <1>3. fd[cur] \in Maps
    BY <1>1, Zenon DEF Loaded, TypeOK, SetType
  <1>4. Loaded' = Loaded /\ Exists' = Exists
    BY Zenon DEF BpfAdd, Loaded, Exists, dirVars
  <1>5. Exists[cur]
    BY <1>1, Zenon DEF Exists
  <1>6. \A k \in Loaded : bits'[fd[k]] = IF fd[k] = fd[cur] THEN bits[fd[k]] \cup {d} ELSE bits[fd[k]]
    BY <1>3, Zenon DEF BpfAdd, TypeOK, KernelType, SetType, Loaded
  <1>7. Found' = [k \in Names |-> IF k \in found THEN Found[k] \cup {d} ELSE Found[k]]
    <2>1. fd' = fd
      BY Zenon DEF BpfAdd
    <2> QED
      BY <1>4, <1>6, <2>1, Zenon DEF Found
  <1>8. added' = [added EXCEPT ![cur] = @ \cup {d}]
    BY Zenon DEF BpfAdd
  <1>9. found \in SUBSET Loaded /\ cur \in found
    BY <1>1, Zenon
  <1>10. Store!Add(cur, d)
    BY <1>1, <1>4, <1>5, <1>7, <1>8, <1>9, ZenonT(60) DEF Store!Add
  <1> QED
    BY <1>1, <1>2, <1>10, ZenonT(60) DEF Store!Next, StoreStep

(* The other steps of ADD and MADD, and the sync of a log, change files    *)
(* and buffers only.                                                       *)
LEMMA HandlerStep ==
  ASSUME TypeOK, IInv,
         \/ \E n \in Names, batch \in Batches : AddBegin(n, batch)
         \/ \E n \in Names : SyncBegin(n)
         \/ (Add /\ ~BpfAdd) \/ Sync
  PROVE  StoreStep
  <1>1. pc \in AddPcs \cup SyncPcs => cur \in Loaded
    BY Zenon DEF IInv, ControlInv, PcInv
  <1>2. ASSUME NEW s \in MetaStates \ {"absent"}, pc \in AddPcs \cup SyncPcs,
               UpdateMeta(cur, s), UNCHANGED <<bits, added>>
        PROVE  StoreStep
    <2>1. pc # "drop_log"
      BY <1>2 DEF AddPcs, SyncPcs
    <2> QED
      BY <1>1, <1>2, <2>1, UpdateUnseen, Zenon DEF IInv, StoreStep
  <1>3. "clean" \in MetaStates \ {"absent"} /\ "dirty" \in MetaStates \ {"absent"}
    BY DEF MetaStates
  <1>4. ASSUME UNCHANGED <<meta, fd, added, bits>> PROVE StoreStep
    BY <1>4, Unseen, Zenon DEF StoreStep
  <1>5. ASSUME NEW n \in Names, NEW batch \in Batches, AddBegin(n, batch) PROVE StoreStep
    BY <1>4, <1>5, Zenon DEF AddBegin, kernelVars, dirVars, memVars
  <1>6. ASSUME NEW n \in Names, SyncBegin(n) PROVE StoreStep
    BY <1>4, <1>6, Zenon DEF SyncBegin, kernelVars, dirVars, memVars
  <1>7. ASSUME EnsurePin \/ EnsureLog \/ EnsureUndoLog \/ EnsureUndoPin PROVE StoreStep
    BY <1>4, <1>7, Zenon
       DEF EnsurePin, EnsureLog, EnsureUndoLog, EnsureUndoPin, kernelVars, dirVars, memVars
  <1>8. ASSUME EnsureMeta PROVE StoreStep
    BY <1>2, <1>3, <1>4, <1>8, Zenon DEF EnsureMeta, AddPcs, kernelVars, dirVars, memVars
  <1>9. ASSUME MarkDirty PROVE StoreStep
    BY <1>2, <1>3, <1>4, <1>9, ZenonT(60) DEF MarkDirty, AddPcs, kernelVars, dirVars, memVars
  <1>10. ASSUME StageDigest \/ StageWrite \/ StageFsync PROVE StoreStep
    BY <1>4, <1>10, Zenon DEF StageDigest, StageWrite, StageFsync, kernelVars, dirVars, memVars
  <1>11. ASSUME BpfAddFails \/ RollbackTruncate PROVE StoreStep
    BY <1>4, <1>11, Zenon DEF BpfAddFails, RollbackTruncate, kernelVars, dirVars
  <1>12. ASSUME RestoreClean PROVE StoreStep
    BY <1>2, <1>3, <1>4, <1>12, ZenonT(60) DEF RestoreClean, AddPcs, kernelVars, dirVars, memVars
  <1>13. ASSUME SyncWrite \/ SyncFsync PROVE StoreStep
    BY <1>4, <1>13, Zenon DEF SyncWrite, SyncFsync, kernelVars, dirVars
  <1>14. ASSUME SyncMeta PROVE StoreStep
    BY <1>2, <1>3, <1>4, <1>14, ZenonT(60) DEF SyncMeta, SyncPcs, kernelVars, dirVars, memVars
  <1> QED
    BY <1>5, <1>6, <1>7, <1>8, <1>9, <1>10, <1>11, <1>12, <1>13, <1>14, ZenonT(60) DEF Add, Sync

(* DROP: removing the metadata removes the filter, closing its descriptors *)
(* ends its service.                                                       *)
LEMMA DropStep ==
  ASSUME TypeOK, IInv, (\E n \in Names : DropBegin(n)) \/ Drop
  PROVE  StoreStep
  <1>1. cur \in Names /\ (pc \in DropPcs => cur \in Loaded)
    BY Zenon DEF TypeOK, ControlType, IInv, ControlInv, PcInv
  <1>2. ASSUME NEW n \in Names, DropBegin(n) PROVE StoreStep
    BY <1>2, Unseen, Zenon DEF DropBegin, kernelVars, dirVars, memVars, StoreStep
  <1>3. ASSUME DropUnpin \/ DropMetaFails \/ DropRepin PROVE StoreStep
    BY <1>3, Unseen, Zenon
       DEF DropUnpin, DropMetaFails, DropRepin, kernelVars, dirVars, memVars, StoreStep
  <1>4. ASSUME DropMeta PROVE StoreStep
    <2>1. cur \in Loaded
      BY <1>1, <1>4, Zenon DEF DropMeta, DropPcs
    <2>2. meta' = [meta EXCEPT ![cur] = "absent"] /\ added' = [added EXCEPT ![cur] = {}]
      BY <1>4, Zenon DEF DropMeta
    <2>3. Exists' = [Exists EXCEPT ![cur] = ("absent" # "absent")]
      BY <1>1, <2>2, ExistsAt, Zenon DEF MetaStates
    <2>4. Exists' = [Exists EXCEPT ![cur] = FALSE]
      BY <2>3, Zenon
    <2>5. \/ Loaded' = Loaded /\ Found' = Found
          \/ Loaded' = Loaded \ {cur} /\ Found' = [Found EXCEPT ![cur] = {}]
      BY <1>1, <1>4, FoundStill, FoundNoMore, ZenonT(60) DEF DropMeta, kernelVars, memVars
    <2>6. Store!Drop(cur)
      BY <2>1, <2>2, <2>4, <2>5, ZenonT(60) DEF Store!Drop
    <2> QED
      BY <1>1, <2>6, Zenon DEF Store!Next, StoreStep
  <1>5. ASSUME DropLog PROVE StoreStep
    <2>1. cur \in Loaded
      BY <1>1, <1>5, Zenon DEF DropLog, DropPcs
    <2>2. Loaded' = Loaded \ {cur} /\ Found' = [Found EXCEPT ![cur] = {}]
      BY <1>1, <1>5, FoundNoMore, Zenon DEF DropLog, kernelVars
    <2>3. Exists' = Exists /\ added' = added
      BY <1>5, Zenon DEF DropLog, dirVars, Exists
    <2>4. Store!Hide(cur)
      BY <2>1, <2>2, <2>3, Zenon DEF Store!Hide
    <2> QED
      BY <1>1, <2>4, Zenon DEF Store!Next, StoreStep
  <1> QED
    BY <1>2, <1>3, <1>4, <1>5, ZenonT(60) DEF Drop

(* A start serves what it loads, and gives up only what holds nothing.     *)
LEMMA LoadStep ==
  ASSUME TypeOK, IInv, ReadsWork, Start \/ Load
  PROVE  StoreStep
  <1>1. cur \in Names
    BY Zenon DEF TypeOK, ControlType
  <1>2. ASSUME UNCHANGED <<meta, fd, added, bits>> PROVE StoreStep
    BY <1>2, Unseen, Zenon DEF StoreStep
  <1>3. ASSUME Start PROVE StoreStep
    BY <1>2, <1>3, Zenon DEF Start, kernelVars, dirVars, memVars
  <1>4. ASSUME NEW n \in Names, LoadPinned(n) \/ LoadRefuse(n) PROVE StoreStep
    BY <1>2, <1>4, Zenon DEF LoadPinned, LoadRefuse, kernelVars, dirVars, memVars
  <1>5. ASSUME NEW n \in Names, LoadEmpty(n) \/ LoadReplay(n) PROVE StoreStep
    <2>1. \A k \in Loaded : bits'[fd[k]] = bits[fd[k]]
      BY <1>5, FreshUnseen, Zenon DEF LoadEmpty, LoadReplay
    <2> QED
      BY <1>5, <2>1, Unseen, Zenon DEF LoadEmpty, LoadReplay, dirVars, memVars, StoreStep
  <1>6. ASSUME NEW n \in Names, LoadStale(n) PROVE StoreStep
    <2>1. n \notin Loaded /\ added[n] = {}
      <3>1. n \notin Loaded
        BY <1>6, ZenonT(60) DEF LoadStale, Entry, LoadPcs, IInv, ControlInv, PcInv
      <3>2. added[n] \subseteq Recs(NoFile)
        BY <1>6, Zenon DEF LoadStale, IInv, DataInv, DiskData, Synced, Logged
      <3> QED
        BY <3>1, <3>2, FileFacts, ZenonT(60)
    <2>2. Loaded' = Loaded /\ Found' = Found /\ added' = added
      BY <1>6, FoundStill, Zenon DEF LoadStale, RecoverStale, kernelVars, memVars
    <2>3. CASE UNCHANGED meta
      BY <1>2, <1>6, <2>3, Zenon DEF LoadStale, RecoverStale, kernelVars, memVars
    <2>4. CASE meta' = [meta EXCEPT ![n] = "absent"]
      <3>1. Exists' = [Exists EXCEPT ![n] = ("absent" # "absent")]
        BY <2>4, ExistsAt, Zenon DEF MetaStates
      <3>2. Exists' = [Exists EXCEPT ![n] = FALSE]
        BY <3>1, Zenon
      <3>3. Store!Lose(n)
        BY <2>1, <2>2, <3>2, Zenon DEF Store!Lose
      <3> QED
        BY <3>3, Zenon DEF Store!Next, StoreStep
    <2> QED
      BY <1>6, <2>3, <2>4, Zenon DEF LoadStale, RecoverStale
  <1>7. ASSUME NEW n \in Names, LoadUnreadable(n) PROVE FALSE
    BY <1>7, Zenon DEF LoadUnreadable, ReadsWork, May
  <1>8. ASSUME LoadPin \/ LoadFails \/ LoadDone \/ CleanupOrphanPins \/ Listen PROVE StoreStep
    BY <1>2, <1>8, Zenon
       DEF LoadPin, LoadFails, LoadDone, CleanupOrphanPins, Listen, kernelVars, dirVars, memVars
  <1>9. ASSUME LoadPublish PROVE StoreStep
    <2>1. cur \notin Loaded /\ newmap \in Maps /\ meta[cur] # "absent" /\ added[cur] \subseteq bits[newmap]
      BY <1>9, ZenonT(60)
         DEF LoadPublish, IInv, ControlInv, PcInv, NewPcs, DataInv, StepData, TypeOK, ControlType
    <2>2. Loaded' = Loaded \cup {cur} /\ Found' = [Found EXCEPT ![cur] = bits[newmap]]
      BY <1>1, <1>9, <2>1, FoundNow, ZenonT(60) DEF LoadPublish, kernelVars
    <2>3. Exists' = Exists /\ added' = added
      BY <1>9, Zenon DEF LoadPublish, dirVars, Exists
    <2>4. Exists[cur]
      BY <1>1, <2>1, Zenon DEF Exists
    <2>5. bits[newmap] \in SUBSET Digests
      BY <2>1, Zenon DEF TypeOK, KernelType
    <2>6. Store!Serve(cur)
      BY <2>1, <2>2, <2>3, <2>4, <2>5, ZenonT(60) DEF Store!Serve
    <2> QED
      BY <1>1, <2>6, ZenonT(60) DEF Store!Next, StoreStep
  <1> QED
    BY <1>3, <1>4, <1>5, <1>6, <1>7, <1>8, <1>9, ZenonT(60) DEF Load

(* The end of the process or of the host ends all service.  What the host  *)
(* loses of the metadata is that of filters without digests.               *)
LEMMA EndStep ==
  ASSUME TypeOK, IInv, Stop \/ Shutdown \/ Kill \/ HostCrash \/ \E n \in Names : PinRemoved(n)
  PROVE  StoreStep
  <1>1. ASSUME Stop \/ StopSynced \/ \E n \in Names : PinRemoved(n) PROVE StoreStep
    BY <1>1, Unseen, Zenon DEF Stop, StopSynced, PinRemoved, kernelVars, dirVars, memVars, StoreStep
  <1>2. ASSUME NEW n \in Names, FreeFilter(n) PROVE StoreStep
    <2>1. Loaded' = Loaded \ {n} /\ Found' = [Found EXCEPT ![n] = {}]
      BY <1>2, FoundNoMore, Zenon DEF FreeFilter, kernelVars
    <2>2. Exists' = Exists /\ added' = added /\ n \in Loaded
      BY <1>2, Zenon DEF FreeFilter, dirVars, Exists
    <2>3. Store!Hide(n)
      BY <2>1, <2>2, Zenon DEF Store!Hide
    <2> QED
      BY <2>3, Zenon DEF Store!Next, StoreStep
  <1>3. ASSUME Exit PROVE StoreStep
    BY <1>3, Unseen, Zenon DEF Exit, dirVars, memVars, StoreStep
  <1>4. ASSUME ProcessGone, UNCHANGED added, \A n \in Names : added[n] # {} => meta'[n] = meta[n]
        PROVE  StoreStep
    <2>1. Loaded' = {}
      BY <1>4, Zenon DEF ProcessGone, Loaded
    <2>2. Found' = [n \in Names |-> {}]
      BY <2>1, Zenon DEF Found
    <2>3. Exists' \in [Names -> BOOLEAN] /\ \A n \in Names : added[n] # {} => Exists'[n] = Exists[n]
      BY <1>4 DEF Exists
    <2>4. Store!GoDown
      BY <1>4, <2>1, <2>2, <2>3, ZenonT(60) DEF Store!GoDown
    <2> QED
      BY <2>4, Zenon DEF Store!Next, StoreStep
  <1>5. ASSUME Kill PROVE StoreStep
    BY <1>4, <1>5, Zenon DEF Kill, dirVars
  <1>6. ASSUME HostCrash PROVE StoreStep
    <2>1. ASSUME NEW n \in Names, added[n] # {} PROVE meta'[n] = meta[n]
      <3>1. meta'[n] \in {meta[n], smeta[n]}
        BY <1>6, Zenon DEF HostCrash
      <3>2. meta[n] = smeta[n]
        BY <2>1, Zenon DEF IInv, DataInv, DiskData, HasData
      <3> QED
        BY <3>1, <3>2, Zenon
    <2> QED
      BY <1>4, <1>6, <2>1, ZenonT(60) DEF HostCrash
  <1> QED
    BY <1>1, <1>2, <1>3, <1>5, <1>6, ZenonT(60) DEF Shutdown

-----------------------------------------------------------------------------
(* ServesAll, which CREATE needs: the name that it takes hides no digests. *)

(* A handler of a daemon that has loaded everything: what it adds, it adds *)
(* to a filter of the set, and what it takes out of the set is empty.      *)
LEMMA ServesFrame ==
  ASSUME ServesAll, pc \notin {"down", "free"} \cup LoadingPcs,
         \A n \in Names : added'[n] \in {added[n], {}} \/ n \in Loaded',
         \A n \in Loaded : n \in Loaded' \/ added'[n] = {}
  PROVE  ServesAll'
  BY Zenon DEF ServesAll, LoadingPcs

(* The handlers of requests and the sync of the logs.                      *)
LEMMA HandlersServe ==
  ASSUME TypeOK, IInv, ServesAll,
         Requests \/ Create \/ Add \/ Sync \/ Drop \/ \E n \in Names : SyncBegin(n)
  PROVE  ServesAll'
  <1>1. cur \in Names /\ added \in [Names -> SUBSET Digests] /\ fd \in [Names -> Maps \cup {NoMap}]
    BY Zenon DEF TypeOK, ControlType, SetType
  <1>2. pc \notin {"down", "free"} \cup LoadingPcs
    <2>1. pc = "idle" \/ pc \in MakePcs \cup AddPcs \cup SyncPcs \cup DropPcs
      BY Zenon
         DEF Requests, Create, Add, Sync, Drop, SyncBegin, CreateBegin, AddBegin, DropBegin, Idle,
             CreateMeta, CreateMetaFails, CreateAdd, CreateAddFails, EnsurePin, EnsureLog,
             EnsureMeta, EnsureUndoLog, EnsureUndoPin, MarkDirty, StageDigest, StageWrite,
             StageFsync, BpfAdd, BpfAddFails, RollbackTruncate, RestoreClean, SyncWrite, SyncFsync,
             SyncMeta, DropUnpin, DropMeta, DropMetaFails, DropRepin, DropLog, MakePcs, AddPcs,
             SyncPcs, DropPcs
    <2> QED
      BY <2>1, SMTT(30) DEF MakePcs, AddPcs, SyncPcs, DropPcs, LoadingPcs
  <1>3. ASSUME UNCHANGED <<fd, added>> PROVE ServesAll'
    BY <1>2, <1>3, ServesFrame, Zenon DEF Loaded
  <1>4. ASSUME Requests PROVE ServesAll'
    BY <1>3, <1>4, Zenon DEF Requests, CreateBegin, AddBegin, DropBegin, memVars
  <1>5. ASSUME CreateMeta PROVE ServesAll'
    <2>1. fd' = fd /\ \A n \in Names : added'[n] \in {added[n], {}}
      BY <1>1, <1>5, Zenon DEF CreateMeta, memVars
    <2> QED
      BY <1>2, <2>1, ServesFrame, ZenonT(60) DEF Loaded
  <1>6. ASSUME CreateMetaFails \/ CreateAddFails PROVE ServesAll'
    BY <1>3, <1>6, Zenon DEF CreateMetaFails, CreateAddFails, memVars
  <1>7. ASSUME CreateAdd PROVE ServesAll'
    <2>1. newmap # NoMap
      BY <1>7, ZenonT(60) DEF CreateAdd, IInv, ControlInv, PcInv, NewPcs, MakePcs
    <2>2. added' = added /\ \A n \in Loaded : n \in Loaded'
      BY <1>1, <1>7, <2>1, Zenon DEF CreateAdd, Loaded
    <2> QED
      BY <1>2, <2>2, ServesFrame, ZenonT(60)
  <1>8. ASSUME Add PROVE ServesAll'
    <2>1. CASE BpfAdd
      <3>1. fd' = fd /\ cur \in Loaded /\ \A n \in Names : n # cur => added'[n] = added[n]
        BY <1>1, <2>1, ZenonT(60) DEF BpfAdd, AddPcs, IInv, ControlInv, PcInv
      <3> QED
        BY <1>2, <3>1, ServesFrame, ZenonT(60) DEF Loaded
    <2>2. CASE ~BpfAdd
      BY <1>3, <1>8, <2>2, ZenonT(60)
         DEF Add, EnsurePin, EnsureLog, EnsureMeta, EnsureUndoLog, EnsureUndoPin, MarkDirty,
             StageDigest, StageWrite, StageFsync, BpfAddFails, RollbackTruncate, RestoreClean,
             UpdateMeta, memVars
    <2> QED
      BY <2>1, <2>2, Zenon
  <1>9. ASSUME Sync \/ \E n \in Names : SyncBegin(n) PROVE ServesAll'
    BY <1>3, <1>9, Zenon DEF Sync, SyncBegin, SyncWrite, SyncFsync, SyncMeta, UpdateMeta, memVars
  <1>10. ASSUME DropUnpin \/ DropMetaFails \/ DropRepin PROVE ServesAll'
    BY <1>3, <1>10, Zenon DEF DropUnpin, DropMetaFails, DropRepin, memVars
  <1>11. ASSUME DropMeta PROVE ServesAll'
    <2>1. added'[cur] = {} /\ \A n \in Names : n # cur => added'[n] = added[n] /\ fd'[n] = fd[n]
      BY <1>1, <1>11, Zenon DEF DropMeta, Forget, memVars
    <2> QED
      BY <1>2, <2>1, ServesFrame, Zenon DEF Loaded
  <1>12. ASSUME DropLog PROVE ServesAll'
    <2>1. meta[cur] = "absent"
      BY <1>12, ZenonT(60) DEF DropLog, IInv, ControlInv, PcInv
    <2>2. added[cur] = {} /\ added' = added
      BY <1>1, <1>12, <2>1, SMTT(30) DEF DropLog, IInv, DataInv, DiskData, HasData
    <2>3. \A n \in Names : n # cur => fd'[n] = fd[n]
      BY <1>1, <1>12, Zenon DEF DropLog, Forget
    <2> QED
      BY <1>2, <2>2, <2>3, ServesFrame, ZenonT(60) DEF Loaded
  <1> QED
    BY <1>4, <1>5, <1>6, <1>7, <1>8, <1>9, <1>10, <1>11, <1>12, ZenonT(60) DEF Create, Drop

(* A start: an entry leaves the queue only to be published, or when it     *)
(* holds nothing.                                                          *)
LEMMA LoadsServe ==
  ASSUME TypeOK, IInv, ServesAll, ReadsWork, Start \/ Load
  PROVE  ServesAll'
  <1>1. cur \in Names /\ fd \in [Names -> Maps \cup {NoMap}]
    BY Zenon DEF TypeOK, ControlType, SetType
  <1>2. ASSUME Start PROVE ServesAll'
    <2>1. pc' = "load" /\ queue' = {n \in Names : meta[n] # "absent"} /\ added' = added
      BY <1>2, Zenon DEF Start, Goto
    <2>2. \A n \in Names : added[n] # {} => meta[n] # "absent"
      BY Zenon DEF IInv, DataInv, DiskData, HasData
    <2> QED
      BY <2>1, <2>2, Zenon DEF ServesAll, LoadingPcs
  <1>3. ASSUME NEW n \in Names, LoadPinned(n) \/ LoadEmpty(n) \/ LoadReplay(n) PROVE ServesAll'
    <2>1. /\ pc = "load" /\ pc' \in {"load_pin", "load_log"} /\ cur' = n /\ queue' = queue \ {n}
          /\ added' = added /\ Loaded' = Loaded
      BY <1>3, Zenon DEF LoadPinned, LoadEmpty, LoadReplay, Entry, Goto, memVars, Loaded
    <2> QED
      BY <2>1 DEF ServesAll, LoadingPcs
  <1>4. ASSUME NEW n \in Names, LoadStale(n) PROVE ServesAll'
    <2>1. /\ pc = "load" /\ pc' = "load" /\ queue' = queue \ {n}
          /\ added' = added /\ Loaded' = Loaded
      BY <1>4, Zenon DEF LoadStale, RecoverStale, Entry, Goto, memVars, Loaded
    <2>2. added[n] \subseteq Recs(NoFile)
      BY <1>4, Zenon DEF LoadStale, IInv, DataInv, DiskData, Synced, Logged
    <2>3. added[n] = {}
      BY <2>2, FileFacts, Zenon
    <2> QED
      BY <2>1, <2>3 DEF ServesAll, LoadingPcs
  <1>5. ASSUME NEW n \in Names, LoadUnreadable(n) PROVE FALSE
    BY <1>5, Zenon DEF LoadUnreadable, ReadsWork, May
  <1>6. ASSUME (\E n \in Names : LoadRefuse(n)) \/ LoadFails PROVE ServesAll'
    <2>1. pc' = "free"
      BY <1>6, Zenon DEF LoadRefuse, LoadFails, Goto
    <2> QED
      BY <2>1, Zenon DEF ServesAll
  <1>7. ASSUME LoadPin PROVE ServesAll'
    <2>1. /\ pc = "load_pin" /\ pc' = "load_log" /\ queue' = queue /\ cur' = cur
          /\ added' = added /\ Loaded' = Loaded
      BY <1>7, Zenon DEF LoadPin, Goto, procVars, memVars, Loaded
    <2> QED
      BY <2>1 DEF ServesAll, LoadingPcs
  <1>8. ASSUME LoadPublish PROVE ServesAll'
    <2>1. newmap # NoMap
      BY <1>8, ZenonT(60) DEF LoadPublish, IInv, ControlInv, PcInv, NewPcs
    <2>2. /\ pc = "load_log" /\ pc' = "load" /\ queue' = queue /\ added' = added
          /\ \A n \in Names : n \in Loaded \/ n = cur => n \in Loaded'
      BY <1>1, <1>8, <2>1, ZenonT(60) DEF LoadPublish, Goto, procVars, Loaded
    <2> QED
      BY <1>1, <2>2, SMTT(30) DEF ServesAll, LoadingPcs
  <1>9. ASSUME LoadDone PROVE ServesAll'
    <2>1. pc = "load" /\ queue = {} /\ added' = added /\ Loaded' = Loaded
      BY <1>9, Zenon DEF LoadDone, memVars, Loaded
    <2> QED
      BY <2>1 DEF ServesAll
  <1>10. ASSUME CleanupOrphanPins \/ Listen PROVE ServesAll'
    <2>1. pc \in {"orphans", "listen"} /\ added' = added /\ fd' = fd
      BY <1>10, Zenon DEF CleanupOrphanPins, Listen, memVars
    <2>2. pc \notin {"down", "free"} \cup LoadingPcs
      BY <2>1 DEF LoadingPcs
    <2> QED
      BY <2>1, <2>2, ServesFrame, ZenonT(60) DEF Loaded
  <1> QED
    BY <1>2, <1>3, <1>4, <1>5, <1>6, <1>7, <1>8, <1>9, <1>10, ZenonT(60) DEF Load

(* The end of the process, and pins that somebody removes.                 *)
LEMMA EndServes ==
  ASSUME ServesAll, Stop \/ Shutdown \/ Kill \/ HostCrash \/ \E n \in Names : PinRemoved(n)
  PROVE  ServesAll'
  <1>1. ASSUME Stop PROVE ServesAll'
    <2>1. pc \notin {"down", "free"} \cup LoadingPcs /\ added' = added /\ fd' = fd
      BY <1>1 DEF Stop, Idle, memVars, LoadingPcs
    <2> QED
      BY <2>1, ServesFrame, ZenonT(60) DEF Loaded
  <1>2. ASSUME Shutdown \/ Kill \/ HostCrash PROVE ServesAll'
    <2>1. pc' \in {"free", "down"}
      BY <1>2, ZenonT(60)
         DEF Shutdown, StopSynced, FreeFilter, Exit, Kill, HostCrash, ProcessGone, Goto
    <2> QED
      BY <2>1, ZenonT(60) DEF ServesAll
  <1>3. ASSUME \E n \in Names : PinRemoved(n) PROVE ServesAll'
    BY <1>3, Zenon DEF PinRemoved, memVars, procVars, ServesAll, Loaded
  <1> QED
    BY <1>1, <1>2, <1>3, ZenonT(60)

(* Every step keeps ServesAll and is a step of StoreSpec.                  *)
LEMMA StepRefines ==
  ASSUME TypeOK, IInv, ServesAll, ReadsWork, [Next]_vars
  PROVE  ServesAll' /\ [Store!Next]_(Store!vars)
  <1>1. ASSUME Next PROVE StoreStep
    BY <1>1, CreateStep, AddStep, HandlerStep, DropStep, LoadStep, EndStep, ZenonT(60)
       DEF Next, Daemon, Environment, Requests, Add
  <1>2. ASSUME Next PROVE ServesAll'
    BY <1>2, HandlersServe, LoadsServe, EndServes, ZenonT(60) DEF Next, Daemon, Environment
  <1>3. ASSUME UNCHANGED vars PROVE ServesAll' /\ UNCHANGED Store!vars
    <2>1. UNCHANGED Store!vars
      BY <1>3, Unseen, Zenon DEF vars, kernelVars, dirVars, memVars
    <2>2. ServesAll'
      BY <1>3, Zenon DEF vars, memVars, procVars, ServesAll, Loaded
    <2> QED
      BY <2>1, <2>2, ZenonT(60)
  <1> QED
    BY <1>1, <1>2, <1>3, ZenonT(60) DEF StoreStep

(* A start, however it went, leaves no digests behind in a filter that is  *)
(* not served, so no later CREATE takes their name.                        *)
THEOREM NoneLeftBehind == ASSUME WholeWrites, DirSynced, ReadsWork PROVE Spec => []ServesAll
  <1>1. Init => ServesAll
    BY Zenon DEF Init, ServesAll
  <1>2. TypeOK /\ IInv /\ ServesAll /\ [Next]_vars => ServesAll'
    BY StepRefines, Zenon
  <1> QED
    BY <1>1, <1>2, DataInvariant, PTL DEF Spec

(* bloomd implements StoreSpec, with failing calls, kills, host crashes    *)
(* and vanishing pins, as long as writes are whole, directory fsyncs work  *)
(* and metadata can be read.                                               *)
THEOREM StoreImplemented == ASSUME WholeWrites, DirSynced, ReadsWork PROVE Spec => ImplementsStore
  <1>1. Init => Store!Init
    <2> SUFFICES ASSUME Init PROVE Store!Init
      OBVIOUS
    <2>1. Loaded = {} /\ Exists = [n \in Names |-> FALSE]
      BY Zenon DEF Init, Loaded, Exists
    <2>2. Found = [n \in Names |-> {}]
      BY <2>1, Zenon DEF Found
    <2> QED
      BY <2>1, <2>2, ZenonT(60) DEF Init, Store!Init
  <1>2. TypeOK /\ IInv /\ ServesAll /\ [Next]_vars => [Store!Next]_(Store!vars)
    BY StepRefines, Zenon
  <1> QED
    BY <1>1, <1>2, DataInvariant, NoneLeftBehind, PTL DEF Spec, ImplementsStore, Store!Spec

-----------------------------------------------------------------------------
(* Where the files are.  A step that neither makes nor removes the log of  *)
(* n, and has data, a pin or a digest for n only where there is a log.     *)
LEMMA FileFrame ==
  ASSUME FileInv, NEW n \in Names, log[n] = NoFile <=> log'[n] = NoFile,
         slog[n] # NoFile => slog'[n] # NoFile,
         added'[n] # {} => added[n] # {} \/ log[n] # NoFile,
         HasData(meta'[n]) => HasData(meta[n]) \/ (log[n] # NoFile /\ slog'[n] # NoFile),
         HasData(meta'[n]) /\ pin'[n] # NoMap => (HasData(meta[n]) /\ pin[n] # NoMap) \/ log[n] # NoFile
  PROVE  FileData(n)'
  BY Zenon DEF FileInv, FileData

LEMMA NoFileData ==
  ASSUME NEW n \in Names, added'[n] = {}, ~HasData(meta'[n])
  PROVE  FileData(n)'
  BY Zenon DEF FileData

(* A write leaves a file where there was one.                              *)
LEMMA WriteKeepsFile ==
  ASSUME TypeOK, WholeWrites, NEW n \in Names, log[n] \in LogFile,
         \/ log' = [log EXCEPT ![n] = Written(log[n], buf[n])]
         \/ \E f \in WriteFailures(log[n], buf[n]) : log' = [log EXCEPT ![n] = f]
         \/ log' = log
  PROVE  log'[n] # NoFile /\ \A k \in Names : k # n => log'[k] = log[k]
  <1>1. log \in [Names -> LogFile \cup {NoFile}] /\ buf[n] \in Seq(Digests)
    BY ZenonT(60) DEF TypeOK, FileType, BufType
  <1>2. Written(log[n], buf[n]) # NoFile /\ log[n] # NoFile
    BY <1>1, FileFacts DEF Written, LogFile, Range
  <1>3. \A f \in WriteFailures(log[n], buf[n]) : f = log[n]
    BY WholeWrite, Zenon
  <1> QED
    BY <1>1, <1>2, <1>3, ZenonT(60)

(* The steps that leave the files, the pins and what was added alone.      *)
LEMMA QuietFiles ==
  ASSUME FileInv, UNCHANGED <<log, slog, meta, pin, added>>,
         pc' \in {"load_pin", "load_log"} /\ HasData(meta'[cur']) => log'[cur'] # NoFile
  PROVE  FileInv'
  BY Zenon DEF FileInv, FileData

LEMMA IdleFiles ==
  ASSUME FileInv, NEW k \in Names,
         (\E p \in Params : CreateBegin(k, p)) \/ CreateMetaFails \/ CreateAdd \/ (\E batch \in Batches : AddBegin(k, batch))
           \/ BpfAddFails \/ SyncBegin(k) \/ DropBegin(k) \/ DropMetaFails \/ Start \/ LoadDone \/ Listen \/ LoadRefuse(k)
           \/ Stop \/ StopSynced \/ Exit \/ Kill \/ LoadPinned(k) \/ LoadEmpty(k)
  PROVE  FileInv'
  <1>1. UNCHANGED <<log, slog, meta, pin, added>>
    BY ZenonT(60)
       DEF CreateBegin, CreateMetaFails, CreateAdd, AddBegin, BpfAddFails, SyncBegin, DropBegin,
           DropMetaFails, Start, LoadDone, Listen, LoadRefuse, Stop, StopSynced, Exit, Kill,
           LoadPinned, LoadEmpty, kernelVars, dirVars, logVars
  <1>2. CASE LoadPinned(k)
    <2>1. cur' = k /\ pin[k] # NoMap
      BY <1>2, Zenon DEF LoadPinned, Entry
    <2> QED
      BY <1>1, <2>1, QuietFiles, ZenonT(60) DEF FileInv, FileData
  <1>3. CASE LoadEmpty(k)
    <2>1. cur' = k /\ ~HasData(meta[k])
      BY <1>3 DEF LoadEmpty, Entry, HasData
    <2> QED
      BY <1>1, <2>1, QuietFiles, ZenonT(60)
  <1>4. CASE ~LoadPinned(k) /\ ~LoadEmpty(k)
    <2>1. pc' \notin {"load_pin", "load_log"}
      BY <1>4, ZenonT(60)
         DEF CreateBegin, CreateMetaFails, CreateAdd, AddBegin, AfterDurable, BpfAddFails,
             SyncBegin, DropBegin, DropMetaFails, Start, LoadDone, Listen, LoadRefuse, Stop,
             StopSynced, Exit, Kill, ProcessGone, Abort, Goto, Return, Idle
    <2> QED
      BY <1>1, <2>1, QuietFiles, ZenonT(60)
  <1> QED
    BY <1>2, <1>3, <1>4, ZenonT(60)

(* The steps that write, roll back or sync a log, and the add itself: the  *)
(* filter has data, so it has a log, and the log remains.                  *)
LEMMA LogFiles ==
  ASSUME TypeOK, ControlInv, FileInv, WholeWrites,
         StageDigest \/ StageWrite \/ StageFsync \/ BpfAdd \/ RollbackTruncate \/ SyncWrite \/ SyncFsync
  PROVE  FileInv'
  <1>1. /\ cur \in Names /\ log \in [Names -> LogFile \cup {NoFile}] /\ slog \in [Names -> LogFile \cup {NoFile}]
        /\ added \in [Names -> SUBSET Digests] /\ stage.file \in LogFile \cup {NoFile}
    BY ZenonT(60) DEF TypeOK, ControlType, FileType, SetType, ItemType
  <1>2. pc \in {"stage", "write", "fsync", "bpf", "truncate", "sync_write", "sync_fsync"}
    BY Zenon DEF StageDigest, StageWrite, StageFsync, BpfAdd, RollbackTruncate, SyncWrite, SyncFsync
  <1>3. log[cur] \in LogFile /\ log[cur] # NoFile
    <2>1. pc \in DataPcs
      BY <1>2 DEF DataPcs, AddPcs, EnsurePcs, SyncPcs
    <2> QED
      BY <2>1, DataCur, FileFacts, ZenonT(60)
  <1>4. UNCHANGED <<meta, pin>>
    BY Zenon
       DEF StageDigest, StageWrite, StageFsync, BpfAdd, RollbackTruncate, SyncWrite, SyncFsync,
           kernelVars, dirVars
  <1>5. log'[cur] # NoFile /\ \A n \in Names : n # cur => log'[n] = log[n]
    <2>1. CASE StageDigest \/ StageWrite \/ SyncWrite
      <3>1. \/ log' = [log EXCEPT ![cur] = Written(log[cur], buf[cur])]
            \/ \E f \in WriteFailures(log[cur], buf[cur]) : log' = [log EXCEPT ![cur] = f]
            \/ log' = log
        BY <2>1, ZenonT(60) DEF StageDigest, StageWrite, SyncWrite, Flush, FlushFails
      <3> QED
        BY <1>1, <1>3, <3>1, WriteKeepsFile, ZenonT(60)
    <2>2. CASE StageFsync \/ BpfAdd \/ SyncFsync
      BY <1>3, <2>2, ZenonT(60) DEF StageFsync, BpfAdd, SyncFsync, logVars
    <2>3. CASE RollbackTruncate
      <3>1. stage.file # NoFile
        BY <2>3 DEF RollbackTruncate, ControlInv, AddInv, StagedPcs
      <3> QED
        BY <1>1, <1>3, <2>3, <3>1, ZenonT(60) DEF RollbackTruncate, logVars
    <2> QED
      BY <2>1, <2>2, <2>3, ZenonT(60)
  <1>6. \A n \in Names : slog[n] # NoFile => slog'[n] # NoFile
    <2>1. CASE StageFsync \/ SyncFsync
      BY <1>1, <1>3, <2>1, ZenonT(60) DEF StageFsync, SyncFsync, Fsync
    <2>2. CASE RollbackTruncate
      <3>1. stage.file # NoFile
        BY <2>2 DEF RollbackTruncate, ControlInv, AddInv, StagedPcs
      <3> QED
        BY <1>1, <2>2, <3>1, ZenonT(60) DEF RollbackTruncate, logVars
    <2> QED
      BY <2>1, <2>2, ZenonT(60) DEF StageDigest, StageWrite, BpfAdd, SyncWrite, logVars
  <1>7. \A n \in Names : n # cur => added'[n] = added[n]
    BY <1>1, ZenonT(60)
       DEF StageDigest, StageWrite, StageFsync, BpfAdd, RollbackTruncate, SyncWrite, SyncFsync
  <1>8. \A n \in Names : FileData(n)'
    BY <1>3, <1>4, <1>5, <1>6, <1>7, FileFrame, ZenonT(60)
  <1>9. pc' \notin {"load_pin", "load_log"}
    BY ZenonT(60)
       DEF StageDigest, StageWrite, StageFsync, BpfAdd, RollbackTruncate, SyncWrite, SyncFsync,
           Abort, Goto, Return
  <1> QED
    BY <1>8, <1>9, ZenonT(60) DEF FileInv

(* The metadata of one filter is written, and the directory synced.        *)
LEMMA MetaWriteFiles ==
  ASSUME TypeOK, DirSynced, NEW n \in Names, NEW s, MetaWrite(n, s), log' = log
  PROVE  \A k \in Names : /\ log'[k] # NoFile => slog'[k] # NoFile
                          /\ k # n => meta'[k] = meta[k]
  <1>1. slog' = SyncedDir(log, slog) /\ meta' = [meta EXCEPT ![n] = s]
    BY Zenon DEF MetaWrite, DirSynced, May
  <1>2. \A k \in Names : log[k] # NoFile => slog'[k] # NoFile
    BY <1>1, FileFacts, ZenonT(60) DEF SyncedDir
  <1>3. \A k \in Names : k # n => meta'[k] = meta[k]
    BY <1>1, ZenonT(60) DEF TypeOK, FileType
  <1> QED
    BY <1>2, <1>3, Zenon

LEMMA MetaFiles ==
  ASSUME TypeOK, ControlInv, FileInv, DirSynced, EnsureMeta \/ MarkDirty \/ RestoreClean \/ SyncMeta \/ CreateMeta
  PROVE  FileInv'
  <1>1. cur \in Names /\ added \in [Names -> SUBSET Digests] /\ meta \in [Names -> MetaStates]
    BY Zenon DEF TypeOK, ControlType, SetType, FileType
  <1>2. pc' \notin {"load_pin", "load_log"}
    BY Zenon
       DEF EnsureMeta, AfterDurable, MarkDirty, RestoreClean, SyncMeta, CreateMeta, Goto, Return
  <1>3. UNCHANGED <<pin, log>>
    BY Zenon
       DEF EnsureMeta, MarkDirty, RestoreClean, SyncMeta, CreateMeta, UpdateMeta, kernelVars,
           logVars
  <1>4. CASE CreateMeta
    <2>1. MetaWrite(cur, "empty") /\ added' = [added EXCEPT ![cur] = {}] /\ meta' = [meta EXCEPT ![cur] = "empty"]
      BY <1>4, Zenon DEF CreateMeta, MetaWrite
    <2>2. added'[cur] = {} /\ meta'[cur] = "empty" /\ \A n \in Names : n # cur => added'[n] = added[n]
      BY <1>1, <2>1, Zenon
    <2>3. \A k \in Names : /\ log'[k] # NoFile => slog'[k] # NoFile
                           /\ k # cur => meta'[k] = meta[k]
      BY <1>1, <1>3, <2>1, MetaWriteFiles, ZenonT(60)
    <2>4. ~HasData("empty")
      BY DEF HasData
    <2>5. \A n \in Names : FileData(n)'
      BY <1>3, <2>2, <2>3, <2>4, ZenonT(60) DEF FileInv, FileData
    <2> QED
      BY <1>2, <2>5, ZenonT(60) DEF FileInv
  <1>5. CASE ~CreateMeta
    <2>1. added' = added /\ pc \in {"set_has_data", "mark", "restore", "sync_meta"}
      BY <1>5, Zenon DEF EnsureMeta, MarkDirty, RestoreClean, SyncMeta
    <2>2. log[cur] # NoFile
      <3>1. CASE pc = "set_has_data"
        BY <3>1, FileFacts, SMTT(30) DEF ControlInv, AddInv
      <3>2. CASE pc # "set_has_data"
        <4>1. pc \in DataPcs
          BY <2>1, <3>2 DEF DataPcs, AddPcs, EnsurePcs, SyncPcs
        <4> QED
          BY <4>1, DataCur, FileFacts, ZenonT(60)
      <3> QED
        BY <3>1, <3>2, ZenonT(60)
    <2>3. CASE UNCHANGED <<dirVars, logVars, memVars>>
      BY <1>2, <1>3, <2>1, <2>3, QuietFiles, ZenonT(60) DEF dirVars, logVars
    <2>4. ASSUME NEW s, MetaWrite(cur, s) PROVE FileInv'
      <3>1. \A k \in Names : /\ log'[k] # NoFile => slog'[k] # NoFile
                             /\ k # cur => meta'[k] = meta[k]
        BY <1>1, <1>3, <2>4, MetaWriteFiles, ZenonT(60)
      <3>2. \A n \in Names : FileData(n)'
        BY <1>3, <2>1, <2>2, <3>1, ZenonT(60) DEF FileInv, FileData
      <3> QED
        BY <1>2, <3>2, Zenon DEF FileInv
    <2> QED
      BY <1>5, <2>3, <2>4, ZenonT(60) DEF EnsureMeta, MarkDirty, RestoreClean, SyncMeta, UpdateMeta
  <1> QED
    BY <1>4, <1>5, ZenonT(60)

(* The steps that take a pin away, or give the map back its pin.           *)
LEMMA PinFiles ==
  ASSUME TypeOK, ControlInv, FileInv,
         EnsurePin \/ EnsureUndoPin \/ DropUnpin \/ DropRepin \/ LoadPin \/ LoadFails \/ CleanupOrphanPins
           \/ (\E n \in Names : PinRemoved(n))
  PROVE  FileInv'
  <1>1. cur \in Names /\ pin \in [Names -> Maps \cup {NoMap}]
    BY Zenon DEF TypeOK, ControlType, KernelType
  <1>2. UNCHANGED <<log, slog, meta, added>>
    BY Zenon
       DEF EnsurePin, EnsureUndoPin, DropUnpin, DropRepin, LoadPin, LoadFails, CleanupOrphanPins,
           PinRemoved, dirVars, logVars
  <1>3. cur' = cur
    BY Zenon
       DEF EnsurePin, EnsureUndoPin, DropUnpin, DropRepin, LoadPin, LoadFails, CleanupOrphanPins,
           PinRemoved, procVars
  <1>4. \A n \in Names : pin'[n] # NoMap /\ HasData(meta[n]) => pin[n] # NoMap \/ log[n] # NoFile
    <2>1. CASE EnsureUndoPin \/ DropUnpin \/ LoadFails \/ CleanupOrphanPins \/ (\E n \in Names : PinRemoved(n))
      BY <1>1, <2>1, ZenonT(60)
         DEF EnsureUndoPin, DropUnpin, LoadFails, CleanupOrphanPins, PinRemoved
    <2>2. CASE EnsurePin
      <3>1. meta[cur] = "empty"
        <4>1. cur \in Loaded /\ mem[cur] = "empty" /\ pc # "drop_log"
          BY <2>2 DEF EnsurePin, ControlInv, PcInv, AddPcs, EnsurePcs
        <4> QED
          BY <4>1, ZenonT(60) DEF ControlInv, SetInv
      <3>2. ~HasData(meta[cur])
        BY <3>1 DEF HasData
      <3> QED
        BY <1>1, <2>2, <3>2, ZenonT(60) DEF EnsurePin
    <2>3. CASE DropRepin
      <3>1. pc \in DataPcs
        BY <2>3 DEF DropRepin, DataPcs, DropPcs
      <3>2. log[cur] # NoFile
        BY <3>1, DataCur, FileFacts, ZenonT(60)
      <3> QED
        BY <1>1, <2>3, <3>2, ZenonT(60) DEF DropRepin
    <2>4. CASE LoadPin
      <3>1. HasData(meta[cur]) => log[cur] # NoFile
        BY <2>4, ZenonT(60) DEF LoadPin, FileInv
      <3> QED
        BY <1>1, <2>4, <3>1, ZenonT(60) DEF LoadPin
    <2> QED
      BY <2>1, <2>2, <2>3, <2>4, ZenonT(60)
  <1>5. \A n \in Names : FileData(n)'
    BY <1>2, <1>4, ZenonT(60) DEF FileInv, FileData
  <1>6. pc' \in {"load_pin", "load_log"} => pc \in {"load_pin", "load_log"}
    BY ZenonT(60)
       DEF EnsurePin, EnsureUndoPin, DropUnpin, DropRepin, LoadPin, LoadFails, CleanupOrphanPins,
           PinRemoved, Goto, Return
  <1> QED
    BY <1>2, <1>3, <1>5, <1>6, ZenonT(60) DEF FileInv

(* Where a log is created or removed by a request there are no digests.    *)
LEMMA CreateFiles ==
  ASSUME TypeOK, ControlInv, DataInv, FileInv, EnsureLog \/ EnsureUndoLog \/ CreateAddFails \/ DropMeta \/ DropLog
  PROVE  FileInv'
  <1>1. /\ cur \in Names /\ log \in [Names -> LogFile \cup {NoFile}] /\ slog \in [Names -> LogFile \cup {NoFile}]
        /\ meta \in [Names -> MetaStates] /\ pin \in [Names -> Maps \cup {NoMap}] /\ added \in [Names -> SUBSET Digests]
    BY ZenonT(60) DEF TypeOK, ControlType, FileType, KernelType, SetType
  <1>2. pc \in {"create_log", "undo_log", "create_add", "drop_meta", "drop_log"}
    BY Zenon DEF EnsureLog, EnsureUndoLog, CreateAddFails, DropMeta, DropLog
  <1>3. ~DropMeta => meta[cur] \in {"empty", "absent"}
    <2>1. CASE EnsureLog \/ EnsureUndoLog
      <3>1. pc \in EnsurePcs
        BY <2>1, SMTT(30) DEF EnsureLog, EnsureUndoLog, EnsurePcs
      <3> QED
        BY <3>1, EnsureCur, ZenonT(60)
    <2>2. CASE CreateAddFails \/ DropLog
      BY <2>2, SMTT(30) DEF CreateAddFails, DropLog, ControlInv, PcInv
    <2> QED
      BY <2>1, <2>2, Zenon
  <1>4. ~HasData("empty") /\ ~HasData("absent")
    BY DEF HasData
  <1>5. ~HasData(meta'[cur]) /\ added'[cur] = {}
    <2>1. CASE DropMeta
      BY <1>1, <1>4, <2>1, ZenonT(60) DEF DropMeta
    <2>2. CASE ~DropMeta
      <3>1. ~HasData(meta[cur]) /\ added[cur] = {}
        BY <1>1, <1>3, <1>4, <2>2, ZenonT(60) DEF DataInv, DiskData
      <3>2. added' = added /\ (meta' = meta \/ meta'[cur] = "absent")
        BY <1>1, <2>2, ZenonT(60) DEF EnsureLog, EnsureUndoLog, CreateAddFails, DropLog, dirVars
      <3> QED
        BY <1>4, <3>1, <3>2, ZenonT(60)
    <2> QED
      BY <2>1, <2>2, Zenon
  <1>6. \A n \in Names : n # cur => /\ log'[n] = log[n] /\ slog'[n] = slog[n] /\ meta'[n] = meta[n]
                                    /\ pin'[n] = pin[n] /\ added'[n] = added[n]
    BY <1>1, ZenonT(60)
       DEF EnsureLog, EnsureUndoLog, CreateAddFails, DropMeta, DropLog, kernelVars, dirVars, logVars
  <1>7. \A n \in Names : FileData(n)'
    BY <1>1, <1>5, <1>6, NoFileData, ZenonT(60) DEF FileInv, FileData
  <1>8. pc' \notin {"load_pin", "load_log"}
    BY Zenon DEF EnsureLog, EnsureUndoLog, CreateAddFails, DropMeta, DropLog, Goto, Return
  <1> QED
    BY <1>7, <1>8, ZenonT(60) DEF FileInv

(* A start removes no metadata that stands for digests, and finds the log  *)
(* of every filter that has data.                                          *)
LEMMA StartFiles ==
  ASSUME TypeOK, ControlInv, DataInv, FileInv, ReadsWork, NEW k \in Names,
         LoadReplay(k) \/ LoadStale(k) \/ LoadUnreadable(k) \/ LoadPublish
  PROVE  FileInv'
  <1>1. cur \in Names /\ log \in [Names -> LogFile \cup {NoFile}] /\ meta \in [Names -> MetaStates]
    BY Zenon DEF TypeOK, ControlType, FileType
  <1>2. ~LoadUnreadable(k)
    BY Zenon DEF LoadUnreadable, May, ReadsWork
  <1>3. UNCHANGED <<slog, pin, added>>
    BY <1>2, Zenon DEF LoadReplay, LoadStale, LoadPublish, RecoverStale, kernelVars, logVars
  <1>4. CASE LoadReplay(k)
    <2>1. log' = [log EXCEPT ![k].off = 0] /\ log[k] # NoFile /\ meta' = meta /\ cur' = k
      BY <1>4, Zenon DEF LoadReplay, Entry, dirVars
    <2>2. log'[k] # NoFile /\ \A n \in Names : n # k => log'[n] = log[n]
      <3>1. log[k] \in LogFile
        BY <1>1, <2>1
      <3>2. [log[k] EXCEPT !.off = 0] \in LogFile
        BY <3>1, ConstantAssumption DEF LogFile
      <3>3. log'[k] = [log[k] EXCEPT !.off = 0] /\ \A n \in Names : n # k => log'[n] = log[n]
        BY <1>1, <2>1, Zenon
      <3> QED
        BY <3>2, <3>3, FileFacts, ZenonT(60)
    <2>3. \A n \in Names : FileData(n)'
      BY <1>3, <2>1, <2>2, ZenonT(60) DEF FileInv, FileData
    <2> QED
      BY <2>1, <2>2, <2>3, ZenonT(60) DEF FileInv
  <1>5. CASE LoadStale(k)
    <2>1. UNCHANGED log /\ \A n \in Names : HasData(meta'[n]) => HasData(meta[n])
      BY <1>1, <1>5 DEF LoadStale, RecoverStale, HasData, logVars
    <2>2. pc' = "load"
      BY <1>5, Zenon DEF LoadStale, RecoverStale, Goto
    <2>3. \A n \in Names : FileData(n)'
      BY <1>3, <2>1, ZenonT(60) DEF FileInv, FileData
    <2>4. pc' \notin {"load_pin", "load_log"}
      BY <2>2, SMTT(30)
    <2> QED
      BY <2>3, <2>4, ZenonT(60) DEF FileInv
  <1>6. CASE LoadPublish
    <2>1. /\ pc = "load_log" /\ pc' = "load" /\ meta' = meta
          /\ log' = [log EXCEPT ![cur] = IF HasData(meta[cur]) /\ log[cur] = NoFile THEN EmptyFile ELSE log[cur]]
      BY <1>6, Zenon DEF LoadPublish, Goto, dirVars
    <2>2. HasData(meta[cur]) => log[cur] # NoFile
      BY <2>1, ZenonT(60) DEF FileInv
    <2>3. \A n \in Names : log'[n] = log[n]
      BY <1>1, <2>1, <2>2, ZenonT(60)
    <2>4. \A n \in Names : FileData(n)'
      BY <1>3, <2>1, <2>3, ZenonT(60) DEF FileInv, FileData
    <2>5. pc' \notin {"load_pin", "load_log"}
      BY <2>1
    <2> QED
      BY <2>4, <2>5, Zenon DEF FileInv
  <1> QED
    BY <1>2, <1>4, <1>5, <1>6, ZenonT(60)

(* The end of one filter, and of the host: what was durable comes back.    *)
LEMMA EndFiles ==
  ASSUME TypeOK, ControlInv, DataInv, FileInv, WholeWrites, (\E n \in Names : FreeFilter(n)) \/ HostCrash
  PROVE  FileInv'
  <1>1. log \in [Names -> LogFile \cup {NoFile}] /\ slog \in [Names -> LogFile \cup {NoFile}]
    BY Zenon DEF TypeOK, FileType
  <1>2. pc' \notin {"load_pin", "load_log"}
    BY Zenon DEF FreeFilter, HostCrash, ProcessGone, Goto
  <1>3. ASSUME NEW k \in Names, FreeFilter(k) PROVE FileInv'
    <2>1. UNCHANGED <<meta, pin, added>>
      BY <1>3, Zenon DEF FreeFilter, kernelVars, dirVars
    <2>2. CASE HasData(mem[k])
      <3>1. log[k] \in LogFile /\ log[k] # NoFile
        BY <1>1, <1>3, <2>2, FileFacts, SMTT(30) DEF FreeFilter, ControlInv, SetInv
      <3>2. \/ log' = [log EXCEPT ![k] = Written(log[k], buf[k])]
            \/ \E f \in WriteFailures(log[k], buf[k]) : log' = [log EXCEPT ![k] = f]
            \/ log' = log
        BY <1>3, <2>2, ZenonT(60) DEF FreeFilter
      <3>3. log'[k] # NoFile /\ \A n \in Names : n # k => log'[n] = log[n]
        BY <3>1, <3>2, WriteKeepsFile, ZenonT(60)
      <3>4. slog' = slog \/ slog' = [slog EXCEPT ![k] = log'[k]]
        BY <1>3, <2>2, ZenonT(60) DEF FreeFilter
      <3>5. \A n \in Names : slog[n] # NoFile => slog'[n] # NoFile
        BY <1>1, <3>3, <3>4, ZenonT(60)
      <3>6. \A n \in Names : FileData(n)'
        BY <2>1, <3>1, <3>3, <3>5, FileFrame, ZenonT(60)
      <3> QED
        BY <1>2, <3>6, ZenonT(60) DEF FileInv
    <2>3. CASE ~HasData(mem[k])
      BY <1>2, <1>3, <2>1, <2>3, QuietFiles, ZenonT(60) DEF FreeFilter, logVars
    <2> QED
      BY <2>2, <2>3, ZenonT(60)
  <1>4. CASE HostCrash
    <2>1. ASSUME NEW n \in Names PROVE FileData(n)'
      <3>1. /\ pin'[n] = NoMap /\ slog'[n] = log'[n] /\ added'[n] = added[n] /\ Survives(log[n], slog[n], log'[n])
        BY <1>4, ZenonT(60) DEF HostCrash
      <3>2. added[n] # {} => log[n] # NoFile /\ slog[n] # NoFile
        BY Zenon DEF DataInv, DiskData, FileInv, FileData
      <3>3. added[n] # {} => log'[n] # NoFile
        BY <3>1, <3>2, ZenonT(60) DEF Survives
      <3> QED
        BY <3>1, <3>3, Zenon DEF FileData
    <2> QED
      BY <1>2, <2>1, Zenon DEF FileInv
  <1> QED
    BY <1>3, <1>4, ZenonT(60)

(* Every filter that has data on disk and a pin, or a digest, has its log, *)
(* and one that has data and a log has it durably.                         *)
THEOREM FilesInvariant == ASSUME WholeWrites, DirSynced, ReadsWork PROVE Spec => []FileInv
  <1>1. ASSUME Init PROVE FileInv
    <2>1. pc = "down" /\ \A n \in Names : added[n] = {} /\ meta[n] = "absent"
      BY <1>1, ZenonT(60) DEF Init
    <2>2. ~HasData("absent") /\ pc \notin {"load_pin", "load_log"}
      BY <2>1 DEF HasData
    <2> QED
      BY <2>1, <2>2, ZenonT(60) DEF FileInv, FileData
  <1>2. TypeOK /\ IInv /\ FileInv /\ [Next]_vars => FileInv'
    <2> SUFFICES ASSUME TypeOK, ControlInv, DataInv, FileInv, [Next]_vars PROVE FileInv'
      BY Zenon DEF IInv
    <2>1. cur \in Names
      BY Zenon DEF TypeOK, ControlType
    <2>2. CASE Create \/ Add \/ Sync \/ Drop
      BY <2>1, <2>2, IdleFiles, LogFiles, MetaFiles, PinFiles, CreateFiles, ZenonT(60)
         DEF Create, Add, Sync, Drop
    <2>3. CASE Load \/ Shutdown
      BY <2>1, <2>3, IdleFiles, PinFiles, StartFiles, EndFiles, ZenonT(60) DEF Load, Shutdown
    <2>4. CASE (\E n \in Names : SyncBegin(n)) \/ Environment
      BY <2>1, <2>4, IdleFiles, PinFiles, EndFiles, ZenonT(60) DEF Environment, Requests
    <2>5. CASE UNCHANGED vars
      BY <2>5, ZenonT(60) DEF FileInv, FileData, vars, kernelVars, dirVars, logVars
    <2> QED
      BY <2>2, <2>3, <2>4, <2>5, ZenonT(60) DEF Next, Daemon
  <1> QED
    BY <1>1, <1>2, DataInvariant, PTL DEF Spec

-----------------------------------------------------------------------------
(* What a start leaves out, and what it takes back.                        *)
StartingPcs == {"load", "load_pin", "load_log", "orphans"}

LEMMA NothingRebuilt == ASSUME StartInv, pc # "load_log" PROVE ~rebuilt
  BY Zenon DEF StartInv

(* The other handlers and the end of the process are not part of a start.  *)
LEMMA OutsideStart ==
  ASSUME StartInv,
         Requests \/ Create \/ Add \/ Sync \/ Drop \/ (\E n \in Names : SyncBegin(n))
           \/ Stop \/ Shutdown \/ Kill \/ HostCrash
  PROVE  StartInv'
  <1>1. ASSUME pc' \notin StartingPcs, ~rebuilt' PROVE StartInv'
    <2>1. pc' # "orphans" /\ pc' # "load_pin" /\ pc' # "load_log"
      BY <1>1 DEF StartingPcs
    <2> QED
      BY <1>1, <2>1, ZenonT(60) DEF StartInv, StartingPcs
  <1>2. CASE Requests \/ Create \/ Sync \/ Drop \/ (\E n \in Names : SyncBegin(n)) \/ Stop \/ Shutdown
    <2>1. pc # "load_log" /\ UNCHANGED rebuilt
      BY <1>2, ZenonT(60)
         DEF Requests, Create, Sync, Drop, SyncBegin, Stop, Shutdown, CreateBegin, AddBegin,
             DropBegin, CreateMeta, CreateMetaFails, CreateAdd, CreateAddFails, SyncWrite, SyncFsync,
             SyncMeta, DropUnpin, DropMeta, DropMetaFails, DropRepin, DropLog, StopSynced,
             FreeFilter, Exit, Idle, loadVars
    <2>2. pc' \notin StartingPcs
      BY <1>2, ZenonT(60)
         DEF Requests, Create, Sync, Drop, SyncBegin, Stop, Shutdown, CreateBegin, AddBegin,
             AfterDurable, DropBegin, CreateMeta, CreateMetaFails, CreateAdd, CreateAddFails,
             SyncWrite, SyncFsync, SyncMeta, DropUnpin, DropMeta, DropMetaFails, DropRepin, DropLog,
             StopSynced, FreeFilter, Exit, Idle, Goto, Return, StartingPcs
    <2> QED
      BY <1>1, <2>1, <2>2, NothingRebuilt, ZenonT(60)
  <1>3. CASE Add
    <2>1. pc # "load_log" /\ UNCHANGED rebuilt
      BY <1>3, ZenonT(60)
         DEF Add, EnsurePin, EnsureLog, EnsureMeta, EnsureUndoLog, EnsureUndoPin, MarkDirty,
             StageDigest, StageWrite, StageFsync, BpfAdd, BpfAddFails, RollbackTruncate,
             RestoreClean, loadVars
    <2>2. pc' \notin StartingPcs
      BY <1>3, ZenonT(60)
         DEF Add, EnsurePin, EnsureLog, EnsureMeta, EnsureUndoLog, EnsureUndoPin, MarkDirty,
             StageDigest, StageWrite, StageFsync, BpfAdd, BpfAddFails, RollbackTruncate,
             RestoreClean, AfterDurable, Abort, Goto, Return, StartingPcs
    <2> QED
      BY <1>1, <2>1, <2>2, NothingRebuilt, ZenonT(60)
  <1>4. CASE Kill \/ HostCrash
    BY <1>1, <1>4, ZenonT(60) DEF Kill, HostCrash, ProcessGone, StartingPcs
  <1> QED
    BY <1>2, <1>3, <1>4, ZenonT(60)

(* An entry of the directory is taken up, or set aside for want of a pin.  *)
LEMMA EntryStarts ==
  ASSUME TypeOK, StartInv, ReadsWork, NEW k \in Names,
         LoadPinned(k) \/ LoadEmpty(k) \/ LoadReplay(k) \/ LoadStale(k) \/ LoadUnreadable(k)
  PROVE  StartInv'
  <1>1. meta \in [Names -> MetaStates]
    BY Zenon DEF TypeOK, FileType
  <1>2. ~LoadUnreadable(k)
    BY Zenon DEF LoadUnreadable, May, ReadsWork
  <1>3. /\ pc = "load" /\ cur' = k /\ queue' = queue \ {k} /\ UNCHANGED <<pin, par, fd, rebuilt>>
        /\ pc' \in {"load", "load_pin", "load_log"}
    BY <1>2, ZenonT(60)
       DEF LoadPinned, LoadEmpty, LoadReplay, LoadStale, RecoverStale, Entry, Goto, kernelVars,
           dirVars, memVars, loadVars
  <1>4. ~rebuilt' /\ Loaded' = Loaded
    BY <1>3, NothingRebuilt DEF Loaded
  <1>5. \A n \in Names : meta'[n] = meta[n] \/ meta'[n] = "absent"
    BY <1>1, <1>2, Zenon DEF LoadPinned, LoadEmpty, LoadReplay, LoadStale, RecoverStale, dirVars
  <1>6. /\ pc' = "load" => pin'[k] = NoMap
        /\ pc' = "load_pin" => meta'[k] = "clean"
        /\ pc' \in {"load_pin", "load_log"} => ParamOf[newmap'] = par'[k]
    <2>1. CASE LoadStale(k)
      BY <1>3, <2>1 DEF LoadStale, RecoverStale, Goto
    <2>2. CASE LoadPinned(k) \/ LoadEmpty(k) \/ LoadReplay(k)
      BY <1>3, <2>2 DEF LoadPinned, LoadEmpty, LoadReplay, Goto, Fresh, dirVars
    <2> QED
      BY <1>2, <2>1, <2>2, ZenonT(60)
  <1>7. ASSUME NEW n \in Names
        PROVE  \/ meta'[n] = "absent" \/ pin'[n] = NoMap \/ n \in queue' \cup Loaded'
               \/ pc' \in {"load_pin", "load_log"} /\ n = cur'
    <2>1. meta[n] = "absent" \/ pin[n] = NoMap \/ n \in queue \cup Loaded
      BY <1>3 DEF StartInv
    <2> QED
      BY <1>3, <1>4, <1>5, <1>6, <2>1, SMTT(30)
  <1> QED
    BY <1>3, <1>4, <1>6, <1>7, SMTT(30) DEF StartInv

(* The rest of a start.                                                    *)
LEMMA StartSteps ==
  ASSUME TypeOK, ControlInv, StartInv,
         Start \/ LoadPin \/ LoadPublish \/ LoadDone \/ LoadFails \/ CleanupOrphanPins \/ Listen
           \/ \E n \in Names : LoadRefuse(n) \/ PinRemoved(n)
  PROVE  StartInv'
  <1>1. cur \in Names /\ pin \in [Names -> Maps \cup {NoMap}] /\ fd \in [Names -> Maps \cup {NoMap}]
    BY ZenonT(60) DEF TypeOK, ControlType, KernelType, SetType
  <1>2. CASE Start
    <2>1. pc = "down" /\ pc' = "load" /\ queue' = {n \in Names : meta[n] # "absent"} /\ UNCHANGED <<meta, rebuilt>>
      BY <1>2, Zenon DEF Start, Goto, dirVars, loadVars
    <2>2. ~rebuilt
      BY <2>1, NothingRebuilt
    <2> QED
      BY <2>1, <2>2, SMTT(30) DEF StartInv
  <1>3. CASE LoadPin
    <2>1. /\ pc = "load_pin" /\ pc' = "load_log" /\ UNCHANGED <<queue, meta, par, cur, fd, newmap>>
          /\ pin' = [pin EXCEPT ![cur] = newmap]
      BY <1>3, Zenon DEF LoadPin, Goto, dirVars, memVars, procVars
    <2>2. Loaded' = Loaded /\ \A n \in Names : n # cur => pin'[n] = pin[n]
      BY <1>1, <2>1, Zenon DEF Loaded
    <2>3. meta[cur] = "clean" /\ ParamOf[newmap] = par[cur]
      BY <2>1, SMTT(30) DEF StartInv
    <2>4. \A n \in Names : meta'[n] = "absent" \/ pin'[n] = NoMap \/ n \in queue' \cup Loaded' \/ n = cur'
      <3>1. \A n \in Names : meta[n] = "absent" \/ pin[n] = NoMap \/ n \in queue \cup Loaded \/ n = cur
        BY <2>1, SMTT(30) DEF StartInv
      <3> QED
        BY <2>1, <2>2, <3>1, ZenonT(60)
    <2> QED
      BY <2>1, <2>3, <2>4, SMTT(30) DEF StartInv
  <1>4. CASE LoadPublish
    <2>1. pc = "load_log" /\ pc' = "load" /\ UNCHANGED <<queue, meta, pin>> /\ ~rebuilt' /\ fd' = [fd EXCEPT ![cur] = newmap]
      BY <1>4, ZenonT(60) DEF LoadPublish, Goto, procVars, kernelVars, dirVars
    <2>2. newmap # NoMap
      BY <2>1, SMTT(30) DEF ControlInv, PcInv, NewPcs
    <2>3. \A n \in Names : n \in Loaded' <=> (n \in Loaded \/ n = cur)
      BY <1>1, <2>1, <2>2, ZenonT(60) DEF Loaded
    <2>4. \A n \in Names : meta[n] = "absent" \/ pin[n] = NoMap \/ n \in queue \cup Loaded \/ n = cur
      BY <2>1, SMTT(30) DEF StartInv
    <2> QED
      BY <2>1, <2>3, <2>4, SMTT(30) DEF StartInv
  <1>5. CASE LoadDone
    <2>1. pc = "load" /\ queue = {} /\ pc' = "orphans" /\ UNCHANGED <<queue, meta, pin, fd, rebuilt>>
      BY <1>5, ZenonT(60) DEF LoadDone, Goto, procVars, kernelVars, dirVars, memVars, loadVars
    <2>2. Loaded' = Loaded /\ ~rebuilt
      BY <2>1, NothingRebuilt, SMTT(30) DEF Loaded
    <2> QED
      BY <2>1, <2>2, SMTT(30) DEF StartInv
  <1>6. CASE LoadFails \/ CleanupOrphanPins \/ Listen \/ \E n \in Names : LoadRefuse(n)
    <2>1. pc' \in {"free", "listen", "idle"}
      BY <1>6, ZenonT(60) DEF LoadFails, CleanupOrphanPins, Listen, LoadRefuse, Goto, Return
    <2>2. rebuilt' => LoadFails \/ (rebuilt /\ pc # "load_log")
      BY <1>6, ZenonT(60) DEF LoadFails, CleanupOrphanPins, Listen, LoadRefuse, Entry, loadVars
    <2>3. ~rebuilt'
      BY <2>2, NothingRebuilt, ZenonT(60) DEF LoadFails
    <2> QED
      BY <2>1, <2>3, SMTT(30) DEF StartInv
  <1>7. ASSUME NEW k \in Names, PinRemoved(k) PROVE StartInv'
    <2>1. UNCHANGED <<pc, queue, cur, meta, par, fd, newmap, rebuilt>> /\ pin' = [pin EXCEPT ![k] = NoMap]
      BY <1>7, ZenonT(60) DEF PinRemoved, dirVars, memVars, procVars, loadVars
    <2>2. Loaded' = Loaded /\ \A n \in Names : pin[n] = NoMap => pin'[n] = NoMap
      BY <1>1, <2>1, ZenonT(60) DEF Loaded
    <2> QED
      BY <2>1, <2>2, ZenonT(60) DEF StartInv
  <1> QED
    BY <1>2, <1>3, <1>4, <1>5, <1>6, <1>7, ZenonT(60)

LEMMA StartInvStep ==
  ASSUME TypeOK, ControlInv, StartInv, ReadsWork, [Next]_vars
  PROVE  StartInv'
  <1>1. CASE Next
    BY <1>1, OutsideStart, EntryStarts, StartSteps, ZenonT(60) DEF Next, Daemon, Environment, Load
  <1>2. CASE UNCHANGED vars
    BY <1>2, ZenonT(60) DEF StartInv, Loaded, vars, kernelVars, dirVars, memVars, procVars, loadVars
  <1> QED
    BY <1>1, <1>2, Zenon

-----------------------------------------------------------------------------
(* The report of bloominspect.                                             *)
LEMMA Verdicts ==
  ASSUME NEW n \in Names
  PROVE  /\ HasData(meta[n]) =>
              /\ pin[n] # NoMap /\ ~PinMatches(n) => Verdict(n) = "bad_pin"
              /\ pin[n] # NoMap /\ PinMatches(n) => Verdict(n) = IF log[n] # NoFile THEN "ok" ELSE "missing_log"
              /\ pin[n] = NoMap /\ log[n] # NoFile =>
                   Verdict(n) = IF meta[n] = "clean" THEN "rebuildable" ELSE "unsafe_rebuild"
              /\ pin[n] = NoMap /\ log[n] = NoFile => Verdict(n) = "stale_meta"
         /\ ~HasData(meta[n]) =>
              /\ pin[n] # NoMap => Verdict(n) = IF PinMatches(n) THEN "ok" ELSE "bad_pin"
              /\ pin[n] = NoMap /\ log[n] = NoFile => Verdict(n) = "ok"
              /\ pin[n] = NoMap /\ log[n] # NoFile =>
                   Verdict(n) = IF meta[n] = "empty" THEN "rebuildable" ELSE "unsafe_rebuild"
  <1>1. ASSUME HasData(meta[n]) PROVE Verdict(n) = VerdictData(n) /\ (LogClean(meta[n]) <=> meta[n] = "clean")
    BY <1>1 DEF Verdict, HasData, LogClean
  <1>2. ASSUME ~HasData(meta[n]) PROVE Verdict(n) = VerdictEmpty(n) /\ (LogClean(meta[n]) <=> meta[n] = "empty")
    BY <1>2 DEF Verdict, HasData, LogClean
  <1>3. /\ pin[n] # NoMap /\ ~PinMatches(n) => VerdictData(n) = "bad_pin"
        /\ pin[n] # NoMap /\ PinMatches(n) => VerdictData(n) = IF log[n] # NoFile THEN "ok" ELSE "missing_log"
        /\ pin[n] = NoMap /\ log[n] # NoFile => VerdictData(n) = Rebuild(n)
        /\ pin[n] = NoMap /\ log[n] = NoFile => VerdictData(n) = "stale_meta"
    BY ZenonT(60) DEF VerdictData
  <1>4. CASE HasData(meta[n])
    BY <1>1, <1>3, <1>4, ZenonT(60) DEF Rebuild
  <1>5. CASE ~HasData(meta[n])
    BY <1>2, <1>5, ZenonT(60) DEF VerdictEmpty, Rebuild
  <1> QED
    BY <1>4, <1>5, ZenonT(60)

(* What has to be on disk, and in bpffs, of a sound filter.                *)
SoundAt(s, p, q, f) ==
  /\ s # "absent"
  /\ p # NoMap => ParamOf[p] = q
  /\ p = NoMap /\ HasData(s) => s = "clean" /\ f # NoFile

LEMMA SoundIs ==
  ASSUME NEW n \in Names
  PROVE  meta[n] \in MetaStates => (Sound(n) <=> SoundAt(meta[n], pin[n], par[n], log[n]))
  <1> SUFFICES ASSUME meta[n] \in MetaStates, meta[n] # "absent"
               PROVE  Verdict(n) \in {"ok", "rebuildable", "missing_log"} <=> SoundAt(meta[n], pin[n], par[n], log[n])
    BY ZenonT(60) DEF Sound, SoundAt
  <1>1. ~HasData(meta[n]) => meta[n] = "empty"
    BY DEF MetaStates, HasData
  <1>2. CASE pin[n] # NoMap
    BY <1>2, Verdicts, SMTT(30) DEF SoundAt, PinMatches
  <1>3. CASE pin[n] = NoMap
    BY <1>1, <1>3, Verdicts, SMTT(30) DEF SoundAt
  <1> QED
    BY <1>2, <1>3

LEMMA SoundNext ==
  ASSUME NEW CONSTANT n \in Names
  PROVE  (meta[n] \in MetaStates => (Sound(n) <=> SoundAt(meta[n], pin[n], par[n], log[n])))'
  <1>1. meta[n] \in MetaStates => (Sound(n) <=> SoundAt(meta[n], pin[n], par[n], log[n]))
    BY SoundIs
  <1> QED
    BY <1>1, PTL

(* Each step of a start and of the end of the process.                     *)
LEMMA SoundStep ==
  ASSUME TypeOK, TypeOK', IInv, FileInv, StartInv, ReadsWork, WholeWrites, NEW CONSTANT n \in Names, Sound(n),
         Load \/ Shutdown \/ Kill
  PROVE  Sound(n)'
  <1>1. /\ cur \in Names /\ pin \in [Names -> Maps \cup {NoMap}] /\ meta \in [Names -> MetaStates]
        /\ log \in [Names -> LogFile \cup {NoFile}] /\ meta'[n] \in MetaStates
    BY ZenonT(60) DEF TypeOK, ControlType, KernelType, FileType
  <1>2. SoundAt(meta[n], pin[n], par[n], log[n])
    BY <1>1, SoundIs, Zenon
  <1> SUFFICES SoundAt(meta'[n], pin'[n], par'[n], log'[n])
    BY <1>1, SoundNext, Zenon
  <1>3. ASSUME UNCHANGED <<meta, pin, par>>, log[n] # NoFile => log'[n] # NoFile
        PROVE  SoundAt(meta'[n], pin'[n], par'[n], log'[n])
    BY <1>2, <1>3, ZenonT(60) DEF SoundAt
  <1>4. CASE StopSynced \/ Exit \/ Kill \/ LoadDone \/ Listen
               \/ \E k \in Names : LoadPinned(k) \/ LoadEmpty(k) \/ LoadRefuse(k)
    <2>1. UNCHANGED <<meta, pin, par, log>>
      BY <1>4, ZenonT(60)
         DEF StopSynced, Exit, Kill, LoadDone, Listen, LoadPinned, LoadEmpty, LoadRefuse, kernelVars,
             dirVars, logVars
    <2> QED
      BY <1>3, <2>1, ZenonT(60)
  <1>5. ASSUME NEW k \in Names, LoadReplay(k) PROVE SoundAt(meta'[n], pin'[n], par'[n], log'[n])
    <2>1. UNCHANGED <<meta, pin, par>> /\ log' = [log EXCEPT ![k].off = 0] /\ log[k] # NoFile
      BY <1>5, Zenon DEF LoadReplay, dirVars
    <2>2. log'[k] # NoFile
      <3>1. log[k] \in LogFile
        BY <1>1, <2>1
      <3>2. [log[k] EXCEPT !.off = 0] \in LogFile
        BY <3>1, ConstantAssumption DEF LogFile
      <3> QED
        BY <1>1, <2>1, <3>2, FileFacts, ZenonT(60)
    <2>3. n # k => log'[n] = log[n]
      BY <1>1, <2>1, Zenon
    <2> QED
      BY <1>3, <2>1, <2>2, <2>3, ZenonT(60)
  <1>6. ASSUME NEW k \in Names, LoadStale(k) PROVE SoundAt(meta'[n], pin'[n], par'[n], log'[n])
    <2>1. UNCHANGED <<pin, par, log>> /\ (meta'[n] = meta[n] \/ n = k)
      BY <1>1, <1>6, ZenonT(60) DEF LoadStale, RecoverStale, kernelVars, logVars
    <2>2. pin[k] = NoMap /\ meta[k] = "clean" /\ log[k] = NoFile
      BY <1>6, Zenon DEF LoadStale
    <2>3. n # k
      BY <1>2, <2>2 DEF SoundAt, HasData
    <2> QED
      BY <1>2, <2>1, <2>3, ZenonT(60)
  <1>7. CASE LoadPin
    <2>1. UNCHANGED <<meta, par, log>> /\ pin' = [pin EXCEPT ![cur] = newmap] /\ pc = "load_pin"
      BY <1>7, Zenon DEF LoadPin, dirVars, logVars
    <2>2. newmap # NoMap /\ ParamOf[newmap] = par[cur]
      BY <2>1, SMTT(30) DEF StartInv, IInv, ControlInv, PcInv, NewPcs
    <2>3. pin'[n] = IF n = cur THEN newmap ELSE pin[n]
      BY <1>1, <2>1, Zenon
    <2> QED
      BY <1>2, <2>1, <2>2, <2>3, ZenonT(60) DEF SoundAt
  <1>8. CASE LoadPublish
    <2>1. UNCHANGED <<meta, pin, par>>
      BY <1>8, Zenon DEF LoadPublish, kernelVars, dirVars
    <2>2. log' = [log EXCEPT ![cur] = IF HasData(meta[cur]) /\ log[cur] = NoFile THEN EmptyFile ELSE log[cur]]
      BY <1>8, Zenon DEF LoadPublish
    <2>3. log'[n] = log[n] \/ log[n] = NoFile
      BY <1>1, <2>2, ZenonT(60)
    <2> QED
      BY <1>3, <2>1, <2>3, ZenonT(60)
  <1>9. CASE LoadFails
    <2>1. UNCHANGED <<meta, par, log>> /\ (pin' = pin \/ (rebuilt /\ pin' = [pin EXCEPT ![cur] = NoMap]))
      BY <1>9, ZenonT(60) DEF LoadFails, dirVars, logVars
    <2>2. rebuilt => meta[cur] = "clean" /\ log[cur] # NoFile
      BY SMTT(30) DEF StartInv, FileInv, HasData
    <2>3. pin'[n] = pin[n] \/ (rebuilt /\ n = cur /\ pin'[n] = NoMap)
      BY <1>1, <2>1, ZenonT(60)
    <2> QED
      BY <1>2, <2>1, <2>2, <2>3, ZenonT(60) DEF SoundAt
  <1>10. CASE CleanupOrphanPins
    <2>1. UNCHANGED <<meta, par, log>> /\ pc = "orphans"
      BY <1>10, Zenon DEF CleanupOrphanPins, dirVars, logVars
    <2>2. pin'[n] = pin[n] \/ (n \notin Loaded /\ pin'[n] = NoMap)
      BY <1>10, ZenonT(60) DEF CleanupOrphanPins
    <2>3. meta[n] = "absent" \/ pin[n] = NoMap \/ n \in Loaded
      BY <2>1, SMTT(30) DEF StartInv
    <2>4. pin'[n] = pin[n]
      BY <1>2, <2>2, <2>3, ZenonT(60) DEF SoundAt
    <2> QED
      BY <1>2, <2>1, <2>4, ZenonT(60)
  <1>11. ASSUME NEW k \in Names, FreeFilter(k) PROVE SoundAt(meta'[n], pin'[n], par'[n], log'[n])
    <2>1. UNCHANGED <<meta, pin, par>> /\ k \in Loaded
      BY <1>11, Zenon DEF FreeFilter, kernelVars, dirVars
    <2>2. CASE HasData(mem[k])
      <3>1. log[k] \in LogFile /\ log[k] # NoFile
        BY <1>1, <2>1, <2>2, FileFacts, SMTT(30) DEF IInv, ControlInv, SetInv
      <3>2. \/ log' = [log EXCEPT ![k] = Written(log[k], buf[k])]
            \/ \E f \in WriteFailures(log[k], buf[k]) : log' = [log EXCEPT ![k] = f]
            \/ log' = log
        BY <1>11, <2>2, ZenonT(60) DEF FreeFilter
      <3>3. log'[k] # NoFile /\ \A j \in Names : j # k => log'[j] = log[j]
        BY <1>1, <3>1, <3>2, WriteKeepsFile, ZenonT(60)
      <3> QED
        BY <1>3, <2>1, <3>3, ZenonT(60)
    <2>3. CASE ~HasData(mem[k])
      BY <1>3, <1>11, <2>1, <2>3, ZenonT(60) DEF FreeFilter, logVars
    <2> QED
      BY <2>2, <2>3, ZenonT(60)
  <1>12. \A k \in Names : ~LoadUnreadable(k)
    BY Zenon DEF LoadUnreadable, May, ReadsWork
  <1> QED
    BY <1>4, <1>5, <1>6, <1>7, <1>8, <1>9, <1>10, <1>11, <1>12, ZenonT(60) DEF Load, Shutdown

(* However often bloomd is started, and wherever a start fails or is       *)
(* killed, a filter that bloominspect reports as loadable stays so, until  *)
(* a request, a crash of the host or a removed pin changes it.             *)
THEOREM StartsAreHarmless == ASSUME WholeWrites, DirSynced, ReadsWork PROVE Spec => SoundStaysSound
  <1>1. ASSUME Init PROVE StartInv
    <2>1. pc = "down" /\ ~rebuilt
      BY <1>1, ZenonT(60) DEF Init
    <2> QED
      BY <2>1 DEF StartInv
  <1>2. TypeOK /\ IInv /\ StartInv /\ [Next]_vars => StartInv'
    BY StartInvStep, Zenon DEF IInv
  <1>3. TypeOK /\ TypeOK' /\ IInv /\ FileInv /\ StartInv =>
          [Load \/ Shutdown \/ Kill => \A n \in Names : Sound(n) => Sound(n)']_vars
    BY SoundStep, Zenon
  <1> QED
    BY <1>1, <1>2, <1>3, DataInvariant, FilesInvariant, PTL DEF Spec, SoundStaysSound

(* Whoever acts on the report of bloominspect loses no digest.             *)
THEOREM ReportIsSafe == ASSUME WholeWrites, DirSynced, ReadsWork PROVE Spec => []VerdictKeepsDigests
  <1>1. TypeOK /\ IInv /\ FileInv => VerdictKeepsDigests
    <2> SUFFICES ASSUME TypeOK, IInv, FileInv, NEW n \in Names
                 PROVE  /\ meta[n] # "absent" =>
                             /\ Verdict(n) = "rebuildable" => added[n] \subseteq Recs(log[n])
                             /\ Verdict(n) = "stale_meta" => added[n] = {}
                             /\ Verdict(n) \in {"ok", "missing_log"} =>
                                  added[n] \subseteq (IF pin[n] = NoMap THEN {} ELSE bits[pin[n]])
                        /\ n \in OrphanPins => added[n] = {}
      BY Zenon DEF VerdictKeepsDigests
    <2>1. DiskData(n) /\ (log[n] = NoFile => added[n] = {}) /\ (~HasData(meta[n]) => added[n] = {})
      BY ZenonT(60) DEF IInv, DataInv, DiskData, FileInv, FileData
    <2>2. meta[n] \in MetaStates
      BY Zenon DEF TypeOK, FileType
    <2>3. meta[n] # "absent" /\ Verdict(n) = "rebuildable" => added[n] \subseteq Recs(log[n])
      <3>1. ASSUME Verdict(n) = "rebuildable" PROVE meta[n] # "dirty"
        BY <3>1, Verdicts
      <3>2. CASE meta[n] = "clean"
        BY <2>1, <3>2, ZenonT(60) DEF DiskData, Synced, Logged
      <3>3. CASE meta[n] # "clean" /\ meta[n] # "dirty"
        <4>1. ~HasData(meta[n])
          BY <3>3 DEF HasData
        <4> QED
          BY <2>1, <4>1
      <3> QED
        BY <3>1, <3>2, <3>3, ZenonT(60)
    <2>4. Verdict(n) = "stale_meta" => added[n] = {}
      <3>1. ASSUME Verdict(n) = "stale_meta" PROVE log[n] = NoFile
        BY <3>1, Verdicts, SMTT(30)
      <3> QED
        BY <2>1, <3>1, SMTT(30)
    <2>5. Verdict(n) \in {"ok", "missing_log"} => added[n] \subseteq (IF pin[n] = NoMap THEN {} ELSE bits[pin[n]])
      <3>1. CASE pin[n] # NoMap
        BY <2>1, <3>1, ZenonT(60) DEF DiskData
      <3>2. CASE pin[n] = NoMap
        <4>1. Verdict(n) \in {"ok", "missing_log"} => log[n] = NoFile
          BY <3>2, Verdicts
        <4> QED
          BY <2>1, <3>2, <4>1, SMTT(30)
      <3> QED
        BY <3>1, <3>2
    <2>6. n \in OrphanPins => added[n] = {}
      BY <2>1, Zenon DEF OrphanPins
    <2> QED
      BY <2>3, <2>4, <2>5, <2>6, ZenonT(60)
  <1> QED
    BY <1>1, DataInvariant, FilesInvariant, PTL
=============================================================================
