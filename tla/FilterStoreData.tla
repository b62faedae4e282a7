-------------------------- MODULE FilterStoreData ---------------------------
(***************************************************************************)
(* No digest that was added is lost.  DataInv, which says where the        *)
(* digests of a filter are, is kept by every action of FilterStore when    *)
(* writes are whole, renames are synced and metadata can be read; what the *)
(* runs check follows from it.                                             *)
(***************************************************************************)
EXTENDS FilterStoreControl

-----------------------------------------------------------------------------
(* What writes, flushes, syncs and replays do to digests, and CREATE and   *)
(* the first half of ADD: bloomd_ensure_filter_durable and                 *)
(* bloomd_mark_filter_log_dirty.                                           *)

(* A missing and an empty log hold no digests and end at a record          *)
(* boundary.                                                               *)
LEMMA FileFacts ==
  /\ EmptyFile \in LogFile /\ EmptyFile # NoFile /\ NoFile \notin LogFile
  /\ Recs(NoFile) = {} /\ Recs(EmptyFile) = {}
  /\ Aligned(NoFile) /\ Aligned(EmptyFile)
  <1>1. EmptyFile \in LogFile /\ EmptyFile # NoFile /\ NoFile \notin LogFile
    BY ConstantAssumption, NoFileAssumption DEF EmptyFile, LogFile
  <1> QED
    BY <1>1, Zenon DEF Recs, Aligned, EmptyFile

(* bloomd_write_all at a record boundary adds the digests of the buffer;   *)
(* anywhere else it adds nothing that a replay finds.                      *)
LEMMA WrittenData ==
  ASSUME NEW f \in LogFile, NEW b \in Seq(Digests)
  PROVE  /\ Recs(f) \subseteq Recs(Written(f, b))
         /\ Aligned(f) => Recs(Written(f, b)) = Recs(f) \cup Range(b) /\ Aligned(Written(f, b))
  <1>1. Written(f, b) \in LogFile /\ f # NoFile /\ Written(f, b) # NoFile
    BY FileFacts DEF Written, LogFile, Range
  <1> QED
    BY <1>1 DEF Recs, Aligned, Written

(* A failing write that is all or nothing has written nothing.             *)
LEMMA WholeWrite ==
  ASSUME WholeWrites, NEW f, NEW b
  PROVE  \A g \in WriteFailures(f, b) : g = f
  BY Zenon DEF WriteFailures, WholeWrites, May

(* The metadata of one filter is written and the directory synced: no      *)
(* digest of any log is lost.                                              *)
LEMMA MetaWriteData ==
  ASSUME TypeOK, DirSynced, NEW n \in Names, NEW s, MetaWrite(n, s)
  PROVE  /\ meta' = [meta EXCEPT ![n] = s] /\ smeta' = meta'
         /\ \A k \in Names : log[k] # NoFile => Recs(slog'[k]) = Recs(slog[k])
  BY FileFacts, Zenon DEF MetaWrite, DirSynced, May, SyncedDir

(* The digests of a buffer, one digest at a time.                          *)
LEMMA RangeFacts ==
  /\ Range(<<>>) = {}
  /\ \A d \in Digests : Range(<<d>>) = {d}
  /\ \A b \in Seq(Digests), d \in Digests : Range(Append(b, d)) = Range(b) \cup {d}
  /\ \A b \in Seq(Digests) : b # <<>> => Head(b) \in Range(b)
  <1>1. Range(<<>>) = {}
    BY DEF Range
  <1>2. \A d \in Digests : Range(<<d>>) = {d}
    BY DEF Range
  <1>3. ASSUME NEW b \in Seq(Digests), NEW d \in Digests PROVE Range(Append(b, d)) = Range(b) \cup {d}
    <2>1. /\ DOMAIN b = 1..Len(b) /\ DOMAIN Append(b, d) = 1..(Len(b) + 1) /\ Len(b) \in Nat
          /\ \A i \in 1..Len(b) : Append(b, d)[i] = b[i]
          /\ Append(b, d)[Len(b) + 1] = d
      OBVIOUS
    <2>2. \A i \in 1..Len(b) : i \in 1..(Len(b) + 1)
      BY <2>1
    <2>3. Len(b) + 1 \in 1..(Len(b) + 1)
      BY <2>1
    <2>4. Range(Append(b, d)) \subseteq Range(b) \cup {d}
      BY DEF Range
    <2>5. Range(b) \subseteq Range(Append(b, d))
      BY <2>1, <2>2, Zenon DEF Range
    <2>6. d \in Range(Append(b, d))
      BY <2>1, <2>3, Zenon DEF Range
    <2> QED
      BY <2>4, <2>5, <2>6, Zenon
  <1>4. \A b \in Seq(Digests) : b # <<>> => Head(b) \in Range(b)
    BY DEF Range
  <1> QED
    BY <1>1, <1>2, <1>3, <1>4, Zenon

(* A map that bloomd_bpf_create_map returns is nobody else's.              *)
LEMMA FreshBits ==
  ASSUME TypeOK, NEW p, NEW m \in Fresh(p), NEW s, bits' = [bits EXCEPT ![m] = s]
  PROVE  /\ m \in Maps /\ bits'[m] = s
         /\ \A k \in Names : pin[k] # NoMap => bits'[pin[k]] = bits[pin[k]]
         /\ \A k \in Names : fd[k] # NoMap => bits'[fd[k]] = bits[fd[k]]
  <1>1. m \in Maps /\ \A k \in Names : pin[k] # m /\ fd[k] # m
    BY Zenon DEF Fresh, Live, Range, TypeOK, KernelType, SetType
  <1> QED
    BY <1>1 DEF TypeOK, KernelType

(* A filter whose files and maps only grow keeps what it is owed.          *)
LEMMA DiskFrame ==
  ASSUME NEW k, DiskData(k),
         added'[k] = added[k], meta'[k] = meta[k], smeta'[k] = smeta[k],
         Recs(log[k]) \subseteq Recs(log'[k]), Recs(slog[k]) \subseteq Recs(slog'[k]),
         Aligned(log[k]) => Aligned(log'[k]),
         pin'[k] \in {pin[k], NoMap},
         pin[k] # NoMap => bits[pin[k]] \subseteq bits'[pin[k]]
  PROVE  DiskData(k)'
  BY Zenon DEF DiskData, Synced, Logged

(* The same for SetData.                                                   *)
LEMMA SetFrame ==
  ASSUME NEW k, SetData(k),
         added'[k] = added[k], fd'[k] = fd[k], mem'[k] = mem[k], hist'[k] = hist[k],
         bits[fd[k]] \subseteq bits'[fd[k]],
         Aligned(log[k]) => Aligned(log'[k]),
         Recs(log[k]) \cup Range(buf[k]) \subseteq Recs(log'[k]) \cup Range(buf'[k])
  PROVE  SetData(k)'
  BY Zenon DEF SetData

(* A filter without data is owed nothing.                                  *)
LEMMA NoDiskData ==
  ASSUME NEW k, added'[k] = {}, ~HasData(meta'[k]), meta'[k] \in {smeta'[k], "absent"}
  PROVE  DiskData(k)'
  BY Zenon DEF DiskData, HasData

(* A filter without digests is owed nothing by the set.                    *)
LEMMA NoSetData ==
  ASSUME NEW k, added'[k] = {}, ~HasData(mem'[k])
  PROVE  SetData(k)'
  BY Zenon DEF SetData

(* Outside an ADD between its stage and its commit, AddData says nothing.  *)
LEMMA NotStaged ==
  ASSUME ~marked', pc' \notin StagedPcs
  PROVE  AddData'
  BY Zenon DEF AddData, StagedPcs

(* Writing out a buffer, or failing to, takes nothing from any log.        *)
LEMMA FlushLog ==
  ASSUME TypeOK, WholeWrites, NEW n \in Names, log[n] \in LogFile,
         \/ log' = [log EXCEPT ![n] = Written(log[n], buf[n])]
         \/ \E f \in WriteFailures(log[n], buf[n]) : log' = [log EXCEPT ![n] = f]
         \/ log' = log
  PROVE  \A k \in Names : /\ Recs(log[k]) \subseteq Recs(log'[k])
                          /\ Aligned(log[k]) => Aligned(log'[k])
                          /\ k # n => log'[k] = log[k]
  <1>1. CASE log' = [log EXCEPT ![n] = Written(log[n], buf[n])]
    <2>1. Recs(log[n]) \subseteq Recs(Written(log[n], buf[n])) /\ (Aligned(log[n]) => Aligned(Written(log[n], buf[n])))
      BY WrittenData, Zenon DEF TypeOK, BufType
    <2> QED
      BY <1>1, <2>1
  <1>2. CASE log' = log
    BY <1>2, Zenon
  <1>3. CASE \E f \in WriteFailures(log[n], buf[n]) : log' = [log EXCEPT ![n] = f]
    <2>1. \A f \in WriteFailures(log[n], buf[n]) : f = log[n]
      BY WholeWrite, Zenon
    <2>2. log' = [log EXCEPT ![n] = log[n]]
      BY <1>3, <2>1, Zenon
    <2> QED
      BY <2>2
  <1> QED
    BY <1>1, <1>2, <1>3, ZenonT(60)

(* While bloomd_ensure_filter_durable runs, its filter has no data.        *)
LEMMA EnsureCur ==
  ASSUME TypeOK, ControlInv, DataInv, pc \in EnsurePcs
  PROVE  cur \in Names /\ cur \in Loaded /\ mem[cur] = "empty" /\ meta[cur] = "empty" /\ added[cur] = {}
  <1>1. cur \in Names /\ cur \in Loaded /\ mem[cur] = "empty"
    BY Zenon DEF TypeOK, ControlType, ControlInv, PcInv, EnsurePcs, AddPcs
  <1>2. meta[cur] = "empty"
    BY <1>1, Zenon DEF ControlInv, SetInv, EnsurePcs
  <1> QED
    BY <1>1, <1>2, ZenonT(60) DEF DataInv, DiskData, HasData

(* bloomd_update_filter_meta_state may write log_clean=1 when the log on   *)
(* disk is complete, and log_clean=0 at any time.                          *)
LEMMA UpdateDisk ==
  ASSUME TypeOK, DataInv, DirSynced, NEW n \in Names, NEW s \in {"clean", "dirty"},
         UpdateMeta(n, s), UNCHANGED <<kernelVars, added>>,
         log[n] # NoFile, Aligned(log[n]), s = "clean" => Synced(n)
  PROVE  \A k \in Names : DiskData(k)'
  <1>1. /\ meta' = [meta EXCEPT ![n] = s] /\ smeta' = meta' /\ log' = log
        /\ \A k \in Names : log[k] # NoFile => Recs(slog'[k]) = Recs(slog[k])
    BY MetaWriteData, Zenon DEF UpdateMeta
  <1>2. ASSUME NEW k \in Names, Synced(k) PROVE Synced(k)'
    <2>1. CASE log[k] = NoFile
      BY <1>2, <2>1, FileFacts, Zenon DEF Synced, Logged
    <2>2. CASE log[k] # NoFile
      BY <1>1, <1>2, <2>2, ZenonT(60) DEF Synced, Logged
    <2> QED
      BY <2>1, <2>2, Zenon
  <1>3. DiskData(n)'
    BY <1>1, <1>2 DEF DataInv, DiskData, kernelVars, HasData
  <1>4. ASSUME NEW k \in Names, k # n PROVE DiskData(k)'
    <2>1. meta'[k] = meta[k] /\ smeta'[k] = meta[k]
      BY <1>1, <1>4
    <2> QED
      BY <1>1, <1>2, <2>1, ZenonT(60) DEF DataInv, DiskData, kernelVars
  <1> QED
    BY <1>3, <1>4, Zenon

(* It changes nothing a filter of the set with data is owed.               *)
LEMMA UpdateSet ==
  ASSUME TypeOK, DataInv, HasData(mem[cur]), NEW s \in {"clean", "dirty"},
         UpdateMeta(cur, s), UNCHANGED <<kernelVars, added>>
  PROVE  \A k \in Loaded' : SetData(k)'
  <1>1. ASSUME NEW k \in Loaded PROVE SetData(k)'
    <2>1. k \in Names /\ SetData(k)
      BY Zenon DEF Loaded, DataInv
    <2>2. HasData(mem'[k]) => HasData(mem[k])
      BY <2>1, Zenon DEF UpdateMeta, TypeOK, SetType
    <2> QED
      BY <2>1, <2>2, Zenon DEF UpdateMeta, kernelVars, SetData
  <1> QED
    BY <1>1, Zenon DEF UpdateMeta, Loaded

(* A flush keeps what the filter set owes.                                 *)
LEMMA FlushSet ==
  ASSUME TypeOK, DataInv, WholeWrites, NEW n \in Loaded, HasData(mem[n]), log[n] \in LogFile, buf[n] \in Seq(Digests),
         Flush(n) \/ FlushFails(n), UNCHANGED <<kernelVars, fd, mem, hist, added>>
  PROVE  \A k \in Loaded : SetData(k)'
  <1>1. n \in Names
    BY Zenon DEF Loaded
  <1>2. \A k \in Names : (Aligned(log[k]) => Aligned(log'[k])) /\ (k # n => log'[k] = log[k])
    BY <1>1, FlushLog, Zenon DEF Flush, FlushFails
  <1>3. \A k \in Names : k # n => buf'[k] = buf[k]
    BY Zenon DEF Flush, FlushFails, TypeOK, BufType
  <1>4. Recs(log[n]) \cup Range(buf[n]) \subseteq Recs(log'[n]) \cup Range(buf'[n])
    <2>1. CASE Flush(n)
      <3>1. Recs(Written(log[n], buf[n])) = Recs(log[n]) \cup Range(buf[n])
        BY WrittenData, Zenon DEF DataInv, SetData
      <3> QED
        BY <1>1, <2>1, <3>1, ZenonT(60) DEF Flush, TypeOK, FileType
    <2>2. CASE FlushFails(n)
      <3>1. Recs(log[n]) \subseteq Recs(log'[n])
        BY <1>1, <2>2, FlushLog, Zenon DEF FlushFails
      <3> QED
        BY <2>2, <3>1, Zenon DEF FlushFails
    <2> QED
      BY <2>1, <2>2, Zenon
  <1> QED
    BY <1>2, <1>3, <1>4, SetFrame, ZenonT(60) DEF DataInv, kernelVars, Loaded

(* An fsync of the log can only make a promise on disk truer.              *)
LEMMA FsyncDisk ==
  ASSUME TypeOK, DataInv, NEW n \in Names, Fsync(n), UNCHANGED <<kernelVars, dirVars, log, added>>
  PROVE  \A k \in Names : DiskData(k)'
  <1>1. slog'[n] = log[n] /\ \A k \in Names : k # n => slog'[k] = slog[k]
    BY Zenon DEF Fsync, TypeOK, FileType
  <1>2. DiskData(n)'
    BY <1>1, Zenon DEF DataInv, DiskData, Synced, Logged, kernelVars, dirVars
  <1>3. \A k \in Names : k # n => DiskData(k)'
    BY <1>1, DiskFrame, Zenon DEF DataInv, kernelVars, dirVars
  <1> QED
    BY <1>2, <1>3, Zenon

(* The maps that are pinned outlive the process.                           *)
LEMMA ReclaimBits ==
  ASSUME TypeOK, Reclaim
  PROVE  \A k \in Names : pin[k] # NoMap => bits'[pin[k]] = bits[pin[k]]
  BY Zenon DEF Reclaim, Range, TypeOK, KernelType

(* Cutting the partial tail off a log loses no record.                     *)
LEMMA ReplayLog ==
  ASSUME TypeOK, NEW n \in Names, log[n] # NoFile, log' = [log EXCEPT ![n].off = 0]
  PROVE  /\ Aligned(log'[n])
         /\ \A k \in Names : Recs(log'[k]) = Recs(log[k]) /\ (Aligned(log[k]) => Aligned(log'[k]))
  <1>1. log[n] \in LogFile
    BY Zenon DEF TypeOK, FileType
  <1>2. log'[n] = [log[n] EXCEPT !.off = 0] /\ \A k \in Names : k # n => log'[k] = log[k]
    BY Zenon DEF TypeOK, FileType
  <1>3. log'[n].recs = log[n].recs /\ log'[n].off = 0 /\ log'[n] \in LogFile
    BY <1>1, <1>2, ConstantAssumption DEF LogFile
  <1>4. log'[n] # NoFile
    BY <1>3, FileFacts, Zenon
  <1> QED
    BY <1>3, <1>4 DEF Recs, Aligned

(* CREATE starts without digests, in a map without digests.                *)
LEMMA CreateData ==
  ASSUME TypeOK, ControlInv, DataInv, WholeWrites, DirSynced
  PROVE  (\E n \in Names, p \in Params : CreateBegin(n, p)) \/ Create
           => DataInv'
  <1>1. ASSUME NEW n \in Names, NEW p \in Params, CreateBegin(n, p) PROVE DataInv'
    <2>1. \A k \in Names : DiskData(k)'
      <3>1. \A k \in Names : pin[k] # NoMap => bits'[pin[k]] = bits[pin[k]]
        BY <1>1, FreshBits, Zenon DEF CreateBegin, TakeEmptyMap
      <3> QED
        BY <1>1, <3>1, DiskFrame, Zenon DEF CreateBegin, dirVars, logVars, DataInv
    <2>2. \A k \in Loaded' : SetData(k)'
      <3>1. \A k \in Names : fd[k] # NoMap => bits'[fd[k]] = bits[fd[k]]
        BY <1>1, FreshBits, Zenon DEF CreateBegin, TakeEmptyMap
      <3> QED
        BY <1>1, <3>1, SetFrame, ZenonT(60) DEF CreateBegin, logVars, memVars, DataInv, Loaded
    <2>3. AddData'
      BY <1>1, ZenonT(60)
         DEF CreateBegin, Goto, itemVars, Idle, ControlInv, AddInv, AddData, StagedPcs
    <2>4. StepData'
      BY <1>1, SMTT(30) DEF CreateBegin, Goto, StepData
    <2> QED
      BY <2>1, <2>2, <2>3, <2>4, ZenonT(60) DEF DataInv
  <1>2. ASSUME CreateMeta PROVE DataInv'
    <2>1. \A k \in Names : DiskData(k)'
      <3>1. cur \in Names /\ ~HasData("empty")
        BY Zenon DEF TypeOK, ControlType, HasData
      <3>2. /\ meta' = [meta EXCEPT ![cur] = "empty"] /\ smeta' = meta'
            /\ \A k \in Names : log[k] # NoFile => Recs(slog'[k]) = Recs(slog[k])
        BY <1>2, <3>1, MetaWriteData, Zenon DEF CreateMeta
      <3>3. ASSUME NEW k \in Names, k = cur PROVE DiskData(k)'
        <4>1. added'[k] = {} /\ meta'[k] = "empty" /\ smeta'[k] = "empty"
          BY <1>2, <3>2, <3>3, ZenonT(60) DEF CreateMeta, TypeOK, SetType, FileType
        <4> QED
          BY <3>1, <4>1, NoDiskData, ZenonT(60)
      <3>4. ASSUME NEW k \in Names, k # cur PROVE DiskData(k)'
        <4>1. meta'[k] = meta[k] /\ smeta'[k] = meta[k] /\ added'[k] = added[k]
          BY <1>2, <3>2, <3>4, ZenonT(60) DEF CreateMeta, TypeOK, SetType, FileType
        <4>2. meta[k] = "clean" => added[k] \subseteq Recs(slog'[k])
          BY <3>2, FileFacts, ZenonT(60) DEF DataInv, DiskData, Synced, Logged
        <4> QED
          BY <1>2, <4>1, <4>2, ZenonT(60)
             DEF CreateMeta, kernelVars, DataInv, DiskData, Synced, Logged
      <3> QED
        BY <3>3, <3>4, Zenon
    <2>2. \A k \in Loaded' : SetData(k)'
      BY <1>2 DEF CreateMeta, kernelVars, memVars, DataInv, SetData, Loaded
    <2>3. AddData'
      BY <1>2, ZenonT(60) DEF CreateMeta, Goto, itemVars, ControlInv, AddInv, AddData, StagedPcs
    <2>4. StepData'
      BY <1>2, ZenonT(60) DEF CreateMeta, Goto, StepData, TypeOK, SetType, ControlType
    <2> QED
      BY <2>1, <2>2, <2>3, <2>4, ZenonT(60) DEF DataInv
  <1>3. ASSUME CreateMetaFails PROVE DataInv'
    <2>1. \A k \in Names : DiskData(k)'
      BY <1>3, Zenon
         DEF CreateMetaFails, kernelVars, dirVars, logVars, DataInv, DiskData, Synced, Logged
    <2>2. \A k \in Loaded' : SetData(k)'
      BY <1>3, Zenon DEF CreateMetaFails, kernelVars, logVars, memVars, DataInv, SetData, Loaded
    <2>3. AddData'
      BY <1>3, Zenon DEF CreateMetaFails, Return, AddData, StagedPcs
    <2>4. StepData'
      BY <1>3, ZenonT(60) DEF CreateMetaFails, Return, StepData
    <2> QED
      BY <2>1, <2>2, <2>3, <2>4, Zenon DEF DataInv
  <1>4. ASSUME CreateAdd PROVE DataInv'
    <2>1. \A k \in Names : DiskData(k)'
      BY <1>4, ZenonT(60)
         DEF CreateAdd, kernelVars, dirVars, logVars, DataInv, DiskData, Synced, Logged
    <2>2. \A k \in Loaded' : SetData(k)'
      BY <1>4, ZenonT(60)
         DEF CreateAdd, kernelVars, logVars, DataInv, SetData, StepData, TypeOK, SetType, Loaded,
             HasData
    <2>3. AddData'
      BY <1>4, Zenon DEF CreateAdd, Return, AddData, StagedPcs
    <2>4. StepData'
      BY <1>4, ZenonT(60) DEF CreateAdd, Return, StepData
    <2> QED
      BY <2>1, <2>2, <2>3, <2>4, Zenon DEF DataInv
  <1>5. ASSUME CreateAddFails PROVE DataInv'
    <2>1. \A k \in Names : DiskData(k)'
      <3>1. cur \in Names /\ meta[cur] = "empty" /\ added[cur] = {}
        BY <1>5, ZenonT(60)
           DEF CreateAddFails, TypeOK, ControlType, ControlInv, PcInv, DataInv, StepData
      <3>2. ASSUME NEW k \in Names, k = cur PROVE DiskData(k)'
        <4>1. added'[k] = {} /\ meta'[k] \in {meta[k], "absent"} /\ smeta'[k] = smeta[k]
          BY <1>5, <3>1, <3>2, ZenonT(60) DEF CreateAddFails, TypeOK, FileType
        <4> QED
          BY <3>1, <3>2, <4>1, NoDiskData, ZenonT(60) DEF DataInv, DiskData, HasData
      <3>3. ASSUME NEW k \in Names, k # cur PROVE DiskData(k)'
        <4>1. meta'[k] = meta[k] /\ log'[k] = log[k] /\ pin'[k] = pin[k]
          BY <1>5, <3>3, ZenonT(60) DEF CreateAddFails, TypeOK, FileType, KernelType
        <4> QED
          BY <1>5, <4>1, DiskFrame, ZenonT(60) DEF CreateAddFails, DataInv
      <3> QED
        BY <3>2, <3>3, Zenon
    <2>2. \A k \in Loaded' : SetData(k)'
      <3>1. ASSUME NEW k \in Loaded PROVE SetData(k)'
        <4>1. k \in Names /\ k # cur
          BY <1>5, ZenonT(60) DEF CreateAddFails, ControlInv, PcInv, NewPcs, MakePcs, Loaded
        <4>2. log'[k] = log[k]
          BY <1>5, <4>1, ZenonT(60) DEF CreateAddFails, TypeOK, FileType
        <4> QED
          BY <1>5, <4>2, SetFrame, ZenonT(60) DEF CreateAddFails, memVars, DataInv
      <3> QED
        BY <1>5, <3>1, Zenon DEF CreateAddFails, memVars, Loaded
    <2>3. AddData'
      BY <1>5, Zenon DEF CreateAddFails, Return, AddData, StagedPcs
    <2>4. StepData'
      BY <1>5, Zenon DEF CreateAddFails, Return, StepData
    <2> QED
      BY <2>1, <2>2, <2>3, <2>4, Zenon DEF DataInv
  <1> QED
    BY <1>1, <1>2, <1>3, <1>4, <1>5, ZenonT(60) DEF Create

(* bloomd_ensure_filter_durable and bloomd_mark_filter_log_dirty lose no   *)
(* digest.                                                                 *)
LEMMA EnsureData ==
  ASSUME TypeOK, ControlInv, DataInv, WholeWrites, DirSynced
  PROVE  (\E n \in Names, batch \in Batches : AddBegin(n, batch)) \/ EnsurePin \/ EnsureLog \/ EnsureMeta
           \/ EnsureUndoLog \/ EnsureUndoPin \/ MarkDirty
           => DataInv'
  <1>1. ASSUME NEW n \in Names, NEW batch \in Batches, AddBegin(n, batch) PROVE DataInv'
    <2>1. \A k \in Names : DiskData(k)'
      BY <1>1, Zenon DEF AddBegin, kernelVars, dirVars, logVars, DataInv, DiskData, Synced, Logged
    <2>2. \A k \in Loaded' : SetData(k)'
      BY <1>1, Zenon DEF AddBegin, kernelVars, logVars, memVars, DataInv, SetData, Loaded
    <2>3. AddData'
      BY <1>1, Zenon DEF AddBegin, AfterDurable, Idle, ControlInv, AddInv, AddData, StagedPcs
    <2>4. StepData'
      BY <1>1, ZenonT(60) DEF AddBegin, AfterDurable, StepData
    <2> QED
      BY <2>1, <2>2, <2>3, <2>4, Zenon DEF DataInv
  <1>2. ASSUME EnsurePin PROVE DataInv'
    <2>1. \A k \in Names : DiskData(k)'
      <3>1. cur \in Names /\ meta[cur] = "empty" /\ added[cur] = {}
        BY <1>2, EnsureCur, Zenon DEF EnsurePin, EnsurePcs
      <3>2. ASSUME NEW k \in Names, k = cur PROVE DiskData(k)'
        BY <1>2, <3>1, <3>2, NoDiskData, ZenonT(60)
           DEF EnsurePin, dirVars, DataInv, DiskData, HasData
      <3>3. ASSUME NEW k \in Names, k # cur PROVE DiskData(k)'
        <4>1. pin'[k] = pin[k]
          BY <1>2, <3>3, Zenon DEF EnsurePin, TypeOK, KernelType
        <4> QED
          BY <1>2, <4>1, DiskFrame, Zenon DEF EnsurePin, dirVars, logVars, DataInv
      <3> QED
        BY <3>2, <3>3, Zenon
    <2>2. \A k \in Loaded' : SetData(k)'
      <3>1. UNCHANGED <<bits, log, fd, mem, hist, buf, added>>
        BY <1>2, Zenon DEF EnsurePin, logVars, memVars
      <3> QED
        BY <3>1, Zenon DEF DataInv, SetData, Loaded
    <2>3. AddData'
      <3>1. pc' \notin StagedPcs
        BY <1>2, Zenon DEF EnsurePin, Goto, Return, StagedPcs
      <3>2. ~marked'
        BY <1>2, Zenon DEF EnsurePin, Goto, Return, itemVars, ControlInv, AddInv
      <3> QED
        BY <3>1, <3>2, NotStaged, Zenon
    <2>4. StepData'
      BY <1>2, ZenonT(60) DEF EnsurePin, Return, NoStage, Goto, StepData
    <2> QED
      BY <2>1, <2>2, <2>3, <2>4, Zenon DEF DataInv
  <1>3. ASSUME EnsureLog PROVE DataInv'
    <2>1. \A k \in Names : DiskData(k)'
      <3>1. cur \in Names /\ meta[cur] = "empty" /\ added[cur] = {}
        BY <1>3, EnsureCur, Zenon DEF EnsureLog, EnsurePcs
      <3>2. ASSUME NEW k \in Names, k = cur PROVE DiskData(k)'
        BY <1>3, <3>1, <3>2, Zenon DEF EnsureLog, dirVars, DataInv, DiskData, HasData
      <3>3. ASSUME NEW k \in Names, k # cur PROVE DiskData(k)'
        <4>1. log'[k] = log[k] /\ slog'[k] = slog[k]
          BY <1>3, <3>3, Zenon DEF EnsureLog, logVars, TypeOK, FileType
        <4> QED
          BY <1>3, <4>1, DiskFrame, Zenon DEF EnsureLog, kernelVars, dirVars, DataInv
      <3> QED
        BY <3>2, <3>3, Zenon
    <2>2. \A k \in Loaded' : SetData(k)'
      <3>1. cur \in Names /\ mem[cur] = "empty" /\ added[cur] = {}
        BY <1>3, EnsureCur, Zenon DEF EnsureLog, EnsurePcs
      <3>2. ASSUME NEW k \in Names, k = cur PROVE SetData(k)'
        BY <1>3, <3>1, <3>2, NoSetData, Zenon DEF EnsureLog, HasData
      <3>3. ASSUME NEW k \in Loaded, k # cur PROVE SetData(k)'
        <4>1. log'[k] = log[k] /\ buf'[k] = buf[k]
          BY <1>3, <3>3, ZenonT(60) DEF EnsureLog, logVars, TypeOK, FileType, BufType, Loaded
        <4> QED
          BY <1>3, <4>1, SetFrame, Zenon DEF EnsureLog, kernelVars, DataInv
      <3> QED
        BY <1>3, <3>2, <3>3, Zenon DEF EnsureLog, Loaded
    <2>3. AddData'
      BY <1>3 DEF EnsureLog, Goto, itemVars, ControlInv, AddInv, AddData, StagedPcs
    <2>4. StepData'
      BY <1>3, ZenonT(60) DEF EnsureLog, Goto, StepData
    <2> QED
      BY <2>1, <2>2, <2>3, <2>4, Zenon DEF DataInv
  <1>4. ASSUME EnsureMeta PROVE DataInv'
    <2>1. \A k \in Names : DiskData(k)'
      <3>1. CASE UNCHANGED <<dirVars, logVars, memVars>>
        BY <1>4, <3>1, DiskFrame, ZenonT(60) DEF EnsureMeta, kernelVars, dirVars, logVars, DataInv
      <3>2. CASE UpdateMeta(cur, "clean")
        <4>1. cur \in Names /\ added[cur] = {} /\ log[cur] = EmptyFile
          BY <1>4, EnsureCur, Zenon DEF EnsureMeta, EnsurePcs, ControlInv, AddInv
        <4>2. log[cur] # NoFile /\ Aligned(log[cur]) /\ Synced(cur)
          BY <4>1, FileFacts, Zenon DEF Synced, Logged
        <4> QED
          BY <1>4, <3>2, <4>1, <4>2, UpdateDisk, ZenonT(60) DEF EnsureMeta
      <3> QED
        BY <1>4, <3>1, <3>2, Zenon DEF EnsureMeta
    <2>2. \A k \in Loaded' : SetData(k)'
      <3>1. CASE UNCHANGED <<dirVars, logVars, memVars>>
        BY <1>4, <3>1, Zenon DEF EnsureMeta, kernelVars, logVars, memVars, DataInv, SetData, Loaded
      <3>2. CASE UpdateMeta(cur, "clean")
        <4>1. cur \in Names /\ added[cur] = {} /\ Aligned(log[cur])
          BY <1>4, EnsureCur, FileFacts, ZenonT(60) DEF EnsureMeta, EnsurePcs, ControlInv, AddInv
        <4>2. ASSUME NEW k \in Names, k = cur PROVE SetData(k)'
          BY <1>4, <3>2, <4>1, <4>2, ZenonT(60) DEF EnsureMeta, UpdateMeta, SetData
        <4>3. ASSUME NEW k \in Loaded, k # cur PROVE SetData(k)'
          <5>1. mem'[k] = mem[k]
            BY <3>2, <4>3, ZenonT(60) DEF UpdateMeta, TypeOK, SetType, Loaded
          <5> QED
            BY <1>4, <3>2, <5>1, SetFrame, ZenonT(60)
               DEF EnsureMeta, UpdateMeta, kernelVars, DataInv
        <4> QED
          BY <1>4, <3>2, <4>2, <4>3, ZenonT(60) DEF EnsureMeta, UpdateMeta, Loaded
      <3> QED
        BY <1>4, <3>1, <3>2, Zenon DEF EnsureMeta
    <2>3. AddData'
      <3>1. pc' \notin StagedPcs
        BY <1>4, Zenon DEF EnsureMeta, Goto, AfterDurable, StagedPcs
      <3>2. ~marked'
        BY <1>4, Zenon DEF EnsureMeta, Goto, AfterDurable, itemVars, ControlInv, AddInv
      <3> QED
        BY <3>1, <3>2, NotStaged, Zenon
    <2>4. StepData'
      <3>1. pc' \in {"mark", "stage", "undo_log"}
        BY <1>4, ZenonT(60) DEF EnsureMeta, Goto, AfterDurable
      <3> QED
        BY <3>1, Zenon DEF StepData
    <2> QED
      BY <2>1, <2>2, <2>3, <2>4, Zenon DEF DataInv
  <1>5. ASSUME EnsureUndoLog PROVE DataInv'
    <2>1. \A k \in Names : DiskData(k)'
      <3>1. cur \in Names /\ meta[cur] = "empty" /\ added[cur] = {}
        BY <1>5, EnsureCur, Zenon DEF EnsureUndoLog, EnsurePcs
      <3>2. ASSUME NEW k \in Names, k = cur PROVE DiskData(k)'
        BY <1>5, <3>1, <3>2, Zenon DEF EnsureUndoLog, dirVars, DataInv, DiskData, HasData
      <3>3. ASSUME NEW k \in Names, k # cur PROVE DiskData(k)'
        <4>1. log'[k] = log[k] /\ slog'[k] = slog[k]
          BY <1>5, <3>3, Zenon DEF EnsureUndoLog, TypeOK, FileType
        <4> QED
          BY <1>5, <4>1, DiskFrame, Zenon DEF EnsureUndoLog, kernelVars, dirVars, DataInv
      <3> QED
        BY <3>2, <3>3, Zenon
    <2>2. \A k \in Loaded' : SetData(k)'
      <3>1. cur \in Names /\ mem[cur] = "empty" /\ added[cur] = {}
        BY <1>5, EnsureCur, Zenon DEF EnsureUndoLog, EnsurePcs
      <3>2. ASSUME NEW k \in Names, k = cur PROVE SetData(k)'
        BY <1>5, <3>1, <3>2, NoSetData, Zenon DEF EnsureUndoLog, memVars, HasData
      <3>3. ASSUME NEW k \in Loaded, k # cur PROVE SetData(k)'
        <4>1. log'[k] = log[k]
          BY <1>5, <3>3, ZenonT(60) DEF EnsureUndoLog, TypeOK, FileType, Loaded
        <4> QED
          BY <1>5, <4>1, SetFrame, Zenon DEF EnsureUndoLog, kernelVars, memVars, DataInv
      <3> QED
        BY <1>5, <3>2, <3>3, Zenon DEF EnsureUndoLog, memVars, Loaded
    <2>3. AddData'
      BY <1>5, ZenonT(60) DEF EnsureUndoLog, Goto, itemVars, ControlInv, AddInv, AddData, StagedPcs
    <2>4. StepData'
      BY <1>5, ZenonT(60) DEF EnsureUndoLog, Goto, StepData
    <2> QED
      BY <2>1, <2>2, <2>3, <2>4, Zenon DEF DataInv
  <1>6. ASSUME EnsureUndoPin PROVE DataInv'
    <2>1. \A k \in Names : DiskData(k)'
      <3>1. \A k \in Names : pin'[k] \in {pin[k], NoMap}
        BY <1>6, Zenon DEF EnsureUndoPin, TypeOK, KernelType
      <3> QED
        BY <1>6, <3>1, DiskFrame, ZenonT(60) DEF EnsureUndoPin, dirVars, logVars, DataInv
    <2>2. \A k \in Loaded' : SetData(k)'
      BY <1>6, Zenon DEF EnsureUndoPin, logVars, memVars, DataInv, SetData, Loaded
    <2>3. AddData'
      BY <1>6, Zenon DEF EnsureUndoPin, Return, AddData, StagedPcs
    <2>4. StepData'
      BY <1>6, ZenonT(60) DEF EnsureUndoPin, Return, StepData
    <2> QED
      BY <2>1, <2>2, <2>3, <2>4, Zenon DEF DataInv
  <1>7. ASSUME MarkDirty PROVE DataInv'
    <2>1. \A k \in Names : DiskData(k)'
      <3>1. CASE UNCHANGED <<dirVars, logVars, memVars>>
        BY <1>7, <3>1, DiskFrame, ZenonT(60) DEF MarkDirty, kernelVars, dirVars, logVars, DataInv
      <3>2. CASE UpdateMeta(cur, "dirty")
        <4>1. cur \in Names /\ cur \in Loaded /\ HasData(mem[cur]) /\ log[cur] \in LogFile
          BY <1>7, DataCur, Zenon DEF MarkDirty, DataPcs, AddPcs, EnsurePcs
        <4>2. log[cur] # NoFile /\ Aligned(log[cur])
          BY <4>1, FileFacts, Zenon DEF DataInv, SetData
        <4> QED
          BY <1>7, <3>2, <4>1, <4>2, UpdateDisk, ZenonT(60) DEF MarkDirty
      <3> QED
        BY <1>7, <3>1, <3>2, Zenon DEF MarkDirty
    <2>2. \A k \in Loaded' : SetData(k)'
      <3>1. CASE UNCHANGED <<dirVars, logVars, memVars>>
        BY <1>7, <3>1, Zenon DEF MarkDirty, kernelVars, logVars, memVars, DataInv, SetData, Loaded
      <3>2. CASE UpdateMeta(cur, "dirty")
        <4>1. HasData(mem[cur])
          BY <1>7, DataCur, ZenonT(60) DEF MarkDirty, DataPcs, AddPcs, SyncPcs, EnsurePcs
        <4> QED
          BY <1>7, <3>2, <4>1, UpdateSet, ZenonT(60) DEF MarkDirty
      <3> QED
        BY <1>7, <3>1, <3>2, Zenon DEF MarkDirty
    <2>3. AddData'
      BY <1>7, MetaWriteData, ZenonT(60)
         DEF MarkDirty, Return, UpdateMeta, ControlInv, SetInv, DataInv, DiskData, Synced, Logged,
             PcInv, AddInv, AddData, StagedPcs, AddPcs, Loaded
    <2>4. StepData'
      BY <1>7, Zenon DEF MarkDirty, Return, StepData
    <2> QED
      BY <2>1, <2>2, <2>3, <2>4, Zenon DEF DataInv
  <1> QED
    BY <1>1, <1>2, <1>3, <1>4, <1>5, <1>6, <1>7, ZenonT(60)

-----------------------------------------------------------------------------
(* Staging, adding, committing and rolling back a digest.                  *)

(* Staging, adding and rolling back: the digest is logged before it is in  *)
(* the map, and a rollback cuts off no digest that was added.              *)
LEMMA StageData ==
  ASSUME TypeOK, ControlInv, DataInv, WholeWrites, DirSynced
  PROVE  StageDigest \/ StageWrite \/ StageFsync \/ BpfAdd \/ BpfAddFails \/ RollbackTruncate \/ RestoreClean
           => DataInv'
  <1>1. ASSUME StageDigest PROVE DataInv'
    <2>1. \A k \in Names : DiskData(k)'
      <3>1. \/ log' = [log EXCEPT ![cur] = Written(log[cur], buf[cur])]
            \/ \E f \in WriteFailures(log[cur], buf[cur]) : log' = [log EXCEPT ![cur] = f]
            \/ log' = log
        BY <1>1, Zenon DEF StageDigest, FlushFails
      <3>2. cur \in Names /\ log[cur] \in LogFile
        BY <1>1, DataCur, Zenon DEF StageDigest, DataPcs, AddPcs, EnsurePcs
      <3>3. \A k \in Names : Recs(log[k]) \subseteq Recs(log'[k]) /\ (Aligned(log[k]) => Aligned(log'[k]))
        BY <3>1, <3>2, FlushLog, Zenon
      <3> QED
        BY <1>1, <3>3, DiskFrame, Zenon DEF StageDigest, kernelVars, dirVars, DataInv
    <2>2. \A k \in Loaded' : SetData(k)'
      <3>1. \/ log' = [log EXCEPT ![cur] = Written(log[cur], buf[cur])]
            \/ \E f \in WriteFailures(log[cur], buf[cur]) : log' = [log EXCEPT ![cur] = f]
            \/ log' = log
        BY <1>1, Zenon DEF StageDigest, FlushFails
      <3>2. cur \in Names /\ cur \in Loaded /\ HasData(mem[cur]) /\ log[cur] \in LogFile /\ buf[cur] \in Seq(Digests)
        BY <1>1, DataCur, Zenon DEF StageDigest, DataPcs, AddPcs, EnsurePcs
      <3>3. \A k \in Names : /\ Recs(log[k]) \subseteq Recs(log'[k])
                             /\ Aligned(log[k]) => Aligned(log'[k])
                             /\ k # cur => log'[k] = log[k]
        BY <3>1, <3>2, FlushLog, Zenon
      <3>4. Recs(log[cur]) \cup Range(buf[cur]) \subseteq Recs(log'[cur]) \cup Range(buf'[cur])
        <4>1. Head(items) \in Digests
          BY <1>1, ItemHead, Zenon DEF StageDigest, ItemPcs
        <4>2. Range(Append(buf[cur], Head(items))) = Range(buf[cur]) \cup {Head(items)}
          BY <3>2, <4>1, RangeFacts, Zenon
        <4>3. Recs(Written(log[cur], buf[cur])) = Recs(log[cur]) \cup Range(buf[cur])
          BY <3>2, WrittenData, Zenon DEF DataInv, SetData
        <4>4. CASE log' = [log EXCEPT ![cur] = Written(@, buf[cur])]
          BY <3>2, <4>3, <4>4, ZenonT(60) DEF TypeOK, FileType
        <4>5. CASE buf' = [buf EXCEPT ![cur] = Append(@, Head(items))] /\ UNCHANGED log
          BY <3>2, <4>2, <4>5, ZenonT(60) DEF TypeOK, BufType
        <4>6. CASE UNCHANGED buf
          BY <3>2, <3>3, <4>6, Zenon
        <4> QED
          BY <1>1, <4>4, <4>5, <4>6, ZenonT(60) DEF StageDigest, FlushFails
      <3>5. \A k \in Names : k # cur => buf'[k] = buf[k]
        BY <1>1, Zenon DEF StageDigest, FlushFails, TypeOK, BufType
      <3>6. \A k \in Names : Recs(log[k]) \cup Range(buf[k]) \subseteq Recs(log'[k]) \cup Range(buf'[k])
        BY <3>3, <3>4, <3>5, Zenon
      <3>7. UNCHANGED <<bits, fd, mem, hist, added>>
        BY <1>1, Zenon DEF StageDigest, kernelVars
      <3> QED
        BY <3>3, <3>6, <3>7, SetFrame, ZenonT(60) DEF DataInv, Loaded
    <2>3. AddData'
      <3>1. \/ log' = [log EXCEPT ![cur] = Written(log[cur], buf[cur])]
            \/ \E f \in WriteFailures(log[cur], buf[cur]) : log' = [log EXCEPT ![cur] = f]
            \/ log' = log
        BY <1>1, Zenon DEF StageDigest, FlushFails
      <3>2. /\ cur \in Names /\ cur \in Loaded /\ HasData(mem[cur]) /\ meta[cur] = mem[cur]
            /\ log[cur] \in LogFile /\ buf[cur] \in Seq(Digests)
        BY <1>1, DataCur, Zenon DEF StageDigest, DataPcs, AddPcs, EnsurePcs
      <3>3. /\ Aligned(log[cur]) /\ (~hist[cur] => added[cur] \subseteq Recs(log[cur]) \cup Range(buf[cur]))
            /\ mem[cur] = "clean" => added[cur] \subseteq Recs(log[cur])
        BY <3>2, Zenon DEF DataInv, SetData, DiskData, Synced, Logged
      <3>4. Recs(log[cur]) \subseteq Recs(log'[cur])
        BY <3>1, <3>2, FlushLog, Zenon
      <3>5. (marked /\ ~any) => Synced(cur)'
        BY <1>1, <3>4, Zenon DEF StageDigest, DataInv, AddData, Synced, Logged
      <3>6. CASE Abort
        BY <3>5, <3>6, Zenon DEF Abort, Goto, Return, AddData, StagedPcs
      <3>7. CASE ~Abort
        <4>1. Head(items) \in Digests
          BY <1>1, ItemHead, Zenon DEF StageDigest, ItemPcs
        <4>2. Head(items) \in Range(buf'[cur])
          <5>1. buf'[cur] \in {<<Head(items)>>, Append(buf[cur], Head(items))}
            BY <1>1, <3>2, <3>7, ZenonT(60) DEF StageDigest, TypeOK, BufType
          <5>2. Range(<<Head(items)>>) = {Head(items)}
            BY <4>1, RangeFacts, Zenon
          <5>3. Range(Append(buf[cur], Head(items))) = Range(buf[cur]) \cup {Head(items)}
            BY <3>2, <4>1, RangeFacts, ZenonT(60)
          <5> QED
            BY <5>1, <5>2, <5>3, Zenon
        <4>3. stage'.file = log[cur] /\ stage'.buf = buf[cur]
          BY <1>1, <3>7 DEF StageDigest
        <4>4. pc' = IF mode = "always" THEN "write" ELSE "bpf"
          BY <1>1, <3>7, Zenon DEF StageDigest
        <4>5. UNCHANGED <<items, marked, any, cur, mode, mem, hist, added>>
          BY <1>1, <3>7, Zenon DEF StageDigest, procVars
        <4>6. ~hist[cur] => IF Len(buf[cur]) = BufCap THEN Logged(cur)'
                                                      ELSE added[cur] \subseteq Recs(log'[cur]) \cup Range(buf[cur])
          <5>1. CASE Len(buf[cur]) = BufCap
            <6>1. Recs(Written(log[cur], buf[cur])) = Recs(log[cur]) \cup Range(buf[cur])
              BY <3>2, <3>3, WrittenData, Zenon
            <6>2. log'[cur] = Written(log[cur], buf[cur])
              BY <1>1, <3>2, <3>7, <5>1, ZenonT(60) DEF StageDigest, TypeOK, FileType
            <6> QED
              BY <3>3, <4>5, <6>1, <6>2, Zenon DEF Logged
          <5>2. CASE Len(buf[cur]) # BufCap
            BY <3>3, <3>4, <5>2, Zenon
          <5> QED
            BY <5>1, <5>2, Zenon
        <4> QED
          BY <3>3, <3>5, <4>2, <4>3, <4>4, <4>5, <4>6, ZenonT(60) DEF AddData
      <3> QED
        BY <3>6, <3>7, ZenonT(60)
    <2>4. StepData'
      <3>1. pc' \in {"write", "bpf", "restore", "idle"}
        BY <1>1, ZenonT(60) DEF StageDigest, Abort, Return, Goto
      <3> QED
        BY <3>1, Zenon DEF StepData
    <2> QED
      BY <2>1, <2>2, <2>3, <2>4, Zenon DEF DataInv
  <1>2. ASSUME StageWrite PROVE DataInv'
    <2>1. \A k \in Names : DiskData(k)'
      <3>1. cur \in Names /\ log[cur] \in LogFile
        BY <1>2, DataCur, Zenon DEF StageWrite, DataPcs, AddPcs, EnsurePcs
      <3>2. \A k \in Names : Recs(log[k]) \subseteq Recs(log'[k]) /\ (Aligned(log[k]) => Aligned(log'[k]))
        BY <1>2, <3>1, FlushLog, Zenon DEF StageWrite, Flush, FlushFails
      <3> QED
        BY <1>2, <3>2, DiskFrame, Zenon DEF StageWrite, kernelVars, dirVars, DataInv
    <2>2. \A k \in Loaded' : SetData(k)'
      <3>1. cur \in Names /\ cur \in Loaded /\ HasData(mem[cur]) /\ log[cur] \in LogFile /\ buf[cur] \in Seq(Digests)
        BY <1>2, DataCur, Zenon DEF StageWrite, DataPcs, AddPcs, EnsurePcs
      <3>2. \A k \in Loaded : SetData(k)'
        BY <1>2, <3>1, FlushSet, Zenon DEF StageWrite
      <3> QED
        BY <1>2, <3>2, Zenon DEF StageWrite, Loaded
    <2>3. AddData'
      <3>1. cur \in Names /\ log[cur] \in LogFile /\ buf[cur] \in Seq(Digests) /\ Aligned(log[cur])
        BY <1>2, DataCur, ZenonT(60) DEF StageWrite, DataPcs, AddPcs, EnsurePcs, DataInv, SetData
      <3>2. Head(items) \in Range(buf[cur]) /\ mode = "always" /\ ~marked
        BY <1>2, ZenonT(60) DEF StageWrite, ControlInv, AddInv, DataInv, AddData
      <3>3. CASE Abort
        BY <1>2, <3>2, <3>3, ZenonT(60) DEF StageWrite, Abort, Return, AddData, StagedPcs
      <3>4. CASE Flush(cur) /\ Goto("fsync")
        <4>1. Head(items) \in Recs(log'[cur])
          BY <3>1, <3>2, <3>4, WrittenData, ZenonT(60) DEF Flush, TypeOK, FileType
        <4> QED
          BY <1>2, <3>2, <3>4, <4>1, ZenonT(60)
             DEF StageWrite, Goto, itemVars, DataInv, AddData, StagedPcs
      <3> QED
        BY <1>2, <3>3, <3>4, Zenon DEF StageWrite
    <2>4. StepData'
      BY <1>2, ZenonT(60) DEF StageWrite, Goto, Abort, Return, StepData
    <2> QED
      BY <2>1, <2>2, <2>3, <2>4, Zenon DEF DataInv
  <1>3. ASSUME StageFsync PROVE DataInv'
    <2>1. \A k \in Names : DiskData(k)'
      <3>1. cur \in Names /\ meta[cur] = mem[cur]
        BY <1>3, DataCur, Zenon DEF StageFsync, DataPcs, AddPcs, EnsurePcs
      <3> QED
        BY <1>3, <3>1, FsyncDisk, DiskFrame, ZenonT(60) DEF StageFsync, kernelVars, dirVars, DataInv
    <2>2. \A k \in Loaded' : SetData(k)'
      BY <1>3, Zenon DEF StageFsync, kernelVars, memVars, DataInv, SetData, Loaded
    <2>3. AddData'
      <3>1. cur \in Names /\ mode = "always" /\ ~marked /\ Head(items) \in Recs(log[cur])
        BY <1>3, ZenonT(60)
           DEF StageFsync, TypeOK, ControlType, ControlInv, AddInv, DataInv, AddData
      <3>2. CASE Abort
        <4>1. pc' \notin StagedPcs /\ ~marked'
          BY <3>1, <3>2, Zenon DEF Abort, Return, StagedPcs
        <4> QED
          BY <4>1, NotStaged, Zenon
      <3>3. CASE Fsync(cur) /\ Goto("bpf")
        <4>1. slog'[cur] = log[cur] /\ cur' = cur /\ mode' = mode
          BY <1>3, <3>1, <3>3, ZenonT(60) DEF StageFsync, Fsync, procVars, TypeOK, FileType
        <4> QED
          BY <1>3, <3>1, <3>3, <4>1, ZenonT(60)
             DEF StageFsync, Goto, itemVars, memVars, DataInv, AddData, StagedPcs
      <3> QED
        BY <1>3, <3>2, <3>3, ZenonT(60) DEF StageFsync
    <2>4. StepData'
      BY <1>3, ZenonT(60) DEF StageFsync, Goto, Abort, Return, StepData
    <2> QED
      BY <2>1, <2>2, <2>3, <2>4, Zenon DEF DataInv
  <1>4. ASSUME BpfAdd PROVE DataInv'
    <2>1. \A k \in Names : DiskData(k)'
      <3>1. /\ cur \in Names /\ fd[cur] \in Maps /\ HasData(meta[cur]) /\ pin[cur] \in {NoMap, fd[cur]}
            /\ meta[cur] = mem[cur]
        BY <1>4, DataCur, Zenon DEF BpfAdd, DataPcs, AddPcs, EnsurePcs
      <3>2. bits'[fd[cur]] = bits[fd[cur]] \cup {Head(items)} /\ \A m \in Maps : bits[m] \subseteq bits'[m]
        BY <1>4, <3>1, Zenon DEF BpfAdd, TypeOK, KernelType
      <3>3. added'[cur] = added[cur] \cup {Head(items)} /\ \A k \in Names : k # cur => added'[k] = added[k]
        BY <1>4, <3>1, Zenon DEF BpfAdd, TypeOK, SetType
      <3>4. UNCHANGED <<pin, dirVars, logVars>>
        BY <1>4, Zenon DEF BpfAdd
      <3>5. ASSUME NEW k \in Names, k # cur PROVE DiskData(k)'
        <4>1. pin[k] # NoMap => bits[pin[k]] \subseteq bits'[pin[k]]
          BY <3>2, ZenonT(60) DEF TypeOK, KernelType
        <4> QED
          BY <3>3, <3>4, <3>5, <4>1, DiskFrame, ZenonT(60) DEF DataInv, dirVars, logVars
      <3>6. mem[cur] = "clean" => Head(items) \in Recs(log[cur]) /\ Head(items) \in Recs(slog[cur])
        BY <1>4, ConstantAssumption, ZenonT(60)
           DEF BpfAdd, DataInv, AddData, ControlInv, AddInv, TypeOK, ControlType
      <3>7. ASSUME NEW k \in Names, k = cur PROVE DiskData(k)'
        BY <3>1, <3>2, <3>3, <3>4, <3>6, <3>7, ZenonT(60)
           DEF DataInv, DiskData, Synced, Logged, dirVars, logVars
      <3> QED
        BY <3>5, <3>7, Zenon
    <2>2. \A k \in Loaded' : SetData(k)'
      <3>1. cur \in Names /\ cur \in Loaded /\ fd[cur] \in Maps /\ HasData(mem[cur])
        BY <1>4, DataCur, Zenon DEF BpfAdd, DataPcs, AddPcs, EnsurePcs
      <3>2. bits'[fd[cur]] = bits[fd[cur]] \cup {Head(items)} /\ \A m \in Maps : bits[m] \subseteq bits'[m]
        BY <1>4, <3>1, ZenonT(60) DEF BpfAdd, TypeOK, KernelType
      <3>3. added'[cur] = added[cur] \cup {Head(items)} /\ \A k \in Names : k # cur => added'[k] = added[k]
        BY <1>4, <3>1, ZenonT(60) DEF BpfAdd, TypeOK, SetType
      <3>4. UNCHANGED <<logVars, fd, mem, hist, buf>>
        BY <1>4, Zenon DEF BpfAdd
      <3>5. ASSUME NEW k \in Loaded, k # cur PROVE SetData(k)'
        <4>1. k \in Names /\ fd[k] \in Maps
          BY Zenon DEF Loaded, TypeOK, SetType
        <4> QED
          BY <3>2, <3>3, <3>4, <3>5, <4>1, SetFrame, ZenonT(60) DEF DataInv, logVars
      <3>6. Head(items) \in Recs(log[cur]) \cup Range(buf[cur])
        BY <1>4, ConstantAssumption, ZenonT(60) DEF BpfAdd, DataInv, AddData, TypeOK, ControlType
      <3>7. ASSUME NEW k \in Names, k = cur PROVE SetData(k)'
        BY <3>1, <3>2, <3>3, <3>4, <3>6, <3>7, ZenonT(60) DEF DataInv, SetData, logVars
      <3> QED
        BY <3>4, <3>5, <3>7, Zenon DEF Loaded
    <2>3. AddData'
      BY <1>4, Zenon DEF BpfAdd, Return, AddData, StagedPcs
    <2>4. StepData'
      BY <1>4, ZenonT(60) DEF BpfAdd, Return, StepData
    <2> QED
      BY <2>1, <2>2, <2>3, <2>4, Zenon DEF DataInv
  <1>5. ASSUME BpfAddFails PROVE DataInv'
    <2>1. \A k \in Names : DiskData(k)'
      BY <1>5, Zenon
         DEF BpfAddFails, kernelVars, dirVars, logVars, DataInv, DiskData, Synced, Logged
    <2>2. \A k \in Loaded' : SetData(k)'
      <3>1. cur \in Names /\ cur \in Loaded /\ HasData(mem[cur])
        BY <1>5, DataCur, Zenon DEF BpfAddFails, DataPcs, AddPcs, EnsurePcs
      <3>2. UNCHANGED <<kernelVars, logVars, fd, mem, hist, added>> /\ \A k \in Names : k # cur => buf'[k] = buf[k]
        BY <1>5, Zenon DEF BpfAddFails, TypeOK, BufType
      <3>3. ASSUME NEW k \in Loaded, k # cur PROVE SetData(k)'
        BY <3>2, <3>3, SetFrame, ZenonT(60) DEF DataInv, kernelVars, logVars, Loaded
      <3>4. CASE mode = "always"
        BY <1>5, <3>4, SetFrame, ZenonT(60) DEF BpfAddFails, DataInv, kernelVars, logVars, Loaded
      <3>5. CASE mode # "always"
        <4>1. mode = "periodic"
          BY <3>5, ConstantAssumption, ZenonT(60) DEF TypeOK, ControlType
        <4>2. buf'[cur] = IF Len(stage.buf) = BufCap THEN <<>> ELSE stage.buf
          BY <1>5, <3>1, <3>5, ZenonT(60) DEF BpfAddFails, TypeOK, BufType
        <4>3. ~hist[cur] => added[cur] \subseteq Recs(log[cur]) \cup Range(buf'[cur])
          BY <1>5, <4>1, <4>2, ZenonT(60) DEF BpfAddFails, DataInv, AddData, Logged
        <4>4. ASSUME NEW k \in Names, k = cur PROVE SetData(k)'
          BY <3>1, <3>2, <4>3, <4>4, ZenonT(60) DEF DataInv, SetData, kernelVars, logVars
        <4> QED
          BY <3>2, <3>3, <4>4, ZenonT(60) DEF Loaded
      <3> QED
        BY <3>4, <3>5, Zenon
    <2>3. AddData'
      BY <1>5, ZenonT(60)
         DEF BpfAddFails, Goto, itemVars, Abort, Return, logVars, DataInv, Synced, Logged, AddData,
             StagedPcs
    <2>4. StepData'
      BY <1>5, ZenonT(60) DEF BpfAddFails, Goto, Abort, Return, StepData
    <2> QED
      BY <2>1, <2>2, <2>3, <2>4, Zenon DEF DataInv
  <1>6. ASSUME RollbackTruncate PROVE DataInv'
    <2>1. \A k \in Names : DiskData(k)'
      <3>1. cur \in Names /\ meta[cur] = mem[cur]
        BY <1>6, DataCur, Zenon DEF RollbackTruncate, DataPcs, AddPcs, EnsurePcs
      <3>2. UNCHANGED <<kernelVars, dirVars, added>>
        BY <1>6, ZenonT(60) DEF RollbackTruncate
      <3>3. log'[cur] \in {log[cur], stage.file} /\ slog'[cur] \in {slog[cur], stage.file}
        BY <1>6 DEF RollbackTruncate, logVars, TypeOK, FileType
      <3>4. \A k \in Names : k # cur => log'[k] = log[k] /\ slog'[k] = slog[k]
        BY <1>6, Zenon DEF RollbackTruncate, logVars, TypeOK, FileType
      <3>5. ASSUME NEW k \in Names, k # cur PROVE DiskData(k)'
        BY <3>2, <3>4, <3>5, DiskFrame, ZenonT(60) DEF DataInv, kernelVars, dirVars
      <3>6. Aligned(stage.file) /\ (mem[cur] = "clean" => added[cur] \subseteq Recs(stage.file))
        BY <1>6, Zenon DEF RollbackTruncate, DataInv, AddData, StagedPcs
      <3>7. ASSUME NEW k \in Names, k = cur PROVE DiskData(k)'
        BY <3>1, <3>2, <3>3, <3>6, <3>7, ZenonT(60)
           DEF DataInv, DiskData, Synced, Logged, kernelVars, dirVars
      <3> QED
        BY <3>5, <3>7, Zenon
    <2>2. \A k \in Loaded' : SetData(k)'
      <3>1. cur \in Names /\ cur \in Loaded /\ meta[cur] = mem[cur] /\ mode = "always"
        BY <1>6, DataCur, ZenonT(60)
           DEF RollbackTruncate, DataPcs, AddPcs, EnsurePcs, ControlInv, AddInv
      <3>2. UNCHANGED <<kernelVars, fd, mem, hist, added>>
        BY <1>6, Zenon DEF RollbackTruncate
      <3>3. log'[cur] \in {log[cur], stage.file} /\ \A k \in Names : k # cur => log'[k] = log[k] /\ buf'[k] = buf[k]
        BY <1>6, ZenonT(60) DEF RollbackTruncate, logVars, TypeOK, FileType, BufType
      <3>4. ASSUME NEW k \in Loaded, k # cur PROVE SetData(k)'
        BY <3>2, <3>3, <3>4, SetFrame, Zenon DEF DataInv, kernelVars, Loaded
      <3>5. Aligned(stage.file) /\ (mem[cur] = "clean" => added[cur] \subseteq Recs(stage.file))
        BY <1>6, Zenon DEF RollbackTruncate, DataInv, AddData, StagedPcs
      <3>6. HasData(mem[cur]) /\ ~hist[cur] => mem[cur] = "clean"
        BY <3>1, Zenon DEF ControlInv, SetInv, HasData
      <3>7. mem[cur] = "clean" => added[cur] \subseteq Recs(log[cur])
        BY <3>1, Zenon DEF DataInv, DiskData, Synced, Logged
      <3>8. ASSUME NEW k \in Names, k = cur PROVE SetData(k)'
        BY <3>1, <3>2, <3>3, <3>5, <3>6, <3>7, <3>8, ZenonT(60) DEF DataInv, SetData, kernelVars
      <3> QED
        BY <3>2, <3>4, <3>8, Zenon DEF Loaded
    <2>3. AddData'
      BY <1>6, Zenon DEF RollbackTruncate, Abort, Return, ControlInv, AddInv, AddData, StagedPcs
    <2>4. StepData'
      BY <1>6, ZenonT(60) DEF RollbackTruncate, Abort, Return, Goto, StepData
    <2> QED
      BY <2>1, <2>2, <2>3, <2>4, Zenon DEF DataInv
  <1>7. ASSUME RestoreClean PROVE DataInv'
    <2>1. \A k \in Names : DiskData(k)'
      <3>1. CASE UNCHANGED <<dirVars, logVars, memVars>>
        BY <1>7, <3>1, DiskFrame, Zenon DEF RestoreClean, kernelVars, dirVars, logVars, DataInv
      <3>2. CASE UpdateMeta(cur, "clean")
        <4>1. cur \in Names /\ cur \in Loaded /\ HasData(mem[cur]) /\ log[cur] \in LogFile
          BY <1>7, DataCur, ZenonT(60) DEF RestoreClean, DataPcs, AddPcs, EnsurePcs
        <4>2. log[cur] # NoFile /\ Aligned(log[cur])
          BY <4>1, FileFacts, Zenon DEF DataInv, SetData
        <4>3. Synced(cur)
          BY <1>7, ZenonT(60) DEF RestoreClean, ControlInv, AddInv, DataInv, AddData
        <4> QED
          BY <1>7, <3>2, <4>1, <4>2, <4>3, UpdateDisk, ZenonT(60) DEF RestoreClean
      <3> QED
        BY <1>7, <3>1, <3>2, Zenon DEF RestoreClean
    <2>2. \A k \in Loaded' : SetData(k)'
      BY <1>7, ZenonT(60)
         DEF RestoreClean, UpdateMeta, kernelVars, dirVars, logVars, memVars, loadVars, ControlInv,
             DataInv, SetData, PcInv, TypeOK, SetType, EnsurePcs, DataPcs, AddPcs, Loaded
    <2>3. AddData'
      BY <1>7, Zenon DEF RestoreClean, Return, AddData, StagedPcs
    <2>4. StepData'
      BY <1>7, Zenon DEF RestoreClean, Return, StepData
    <2> QED
      BY <2>1, <2>2, <2>3, <2>4, Zenon DEF DataInv
  <1> QED
    BY <1>1, <1>2, <1>3, <1>4, <1>5, <1>6, <1>7, ZenonT(60)

-----------------------------------------------------------------------------
(* Syncs, DROP, starts, stops and crashes, and the theorems.               *)

(* bloomd_sync_dirty_logs: after flush and fsync the durable log is        *)
(* complete, unless it had a hole before.                                  *)
LEMMA SyncData ==
  ASSUME TypeOK, ControlInv, DataInv, WholeWrites, DirSynced
  PROVE  (\E n \in Names : SyncBegin(n)) \/ Sync
           => DataInv'
  <1>1. ASSUME NEW n \in Names, SyncBegin(n) PROVE DataInv'
    <2>1. \A k \in Names : DiskData(k)'
      BY <1>1, Zenon DEF SyncBegin, kernelVars, dirVars, logVars, DataInv, DiskData, Synced, Logged
    <2>2. \A k \in Loaded' : SetData(k)'
      BY <1>1, Zenon DEF SyncBegin, kernelVars, logVars, memVars, DataInv, SetData, Loaded
    <2>3. AddData'
      BY <1>1, Zenon DEF SyncBegin, Goto, itemVars, ControlInv, AddInv, AddData, StagedPcs
    <2>4. StepData'
      BY <1>1, ZenonT(60) DEF SyncBegin, Goto, StepData
    <2> QED
      BY <2>1, <2>2, <2>3, <2>4, Zenon DEF DataInv
  <1>2. ASSUME SyncWrite PROVE DataInv'
    <2>1. \A k \in Names : DiskData(k)'
      <3>1. cur \in Names /\ log[cur] \in LogFile
        BY <1>2, DataCur, Zenon DEF SyncWrite, DataPcs, SyncPcs
      <3>2. \A k \in Names : Recs(log[k]) \subseteq Recs(log'[k]) /\ (Aligned(log[k]) => Aligned(log'[k]))
        BY <1>2, <3>1, FlushLog, Zenon DEF SyncWrite, Flush, FlushFails
      <3> QED
        BY <1>2, <3>2, DiskFrame, Zenon DEF SyncWrite, kernelVars, dirVars, DataInv
    <2>2. \A k \in Loaded' : SetData(k)'
      <3>1. cur \in Names /\ cur \in Loaded /\ HasData(mem[cur]) /\ log[cur] \in LogFile /\ buf[cur] \in Seq(Digests)
        BY <1>2, DataCur, Zenon DEF SyncWrite, DataPcs, SyncPcs
      <3>2. \A k \in Loaded : SetData(k)'
        BY <1>2, <3>1, FlushSet, ZenonT(60) DEF SyncWrite
      <3> QED
        BY <1>2, <3>2, Zenon DEF SyncWrite, Loaded
    <2>3. AddData'
      <3>1. pc' \notin StagedPcs
        BY <1>2, Zenon DEF SyncWrite, Goto, Return, StagedPcs
      <3>2. ~marked'
        BY <1>2, Zenon DEF SyncWrite, Goto, Return, itemVars, ControlInv, AddInv
      <3> QED
        BY <3>1, <3>2, NotStaged, Zenon
    <2>4. StepData'
      <3>1. CASE Return
        BY <3>1, Zenon DEF Return, StepData
      <3>2. CASE Flush(cur) /\ Goto("sync_fsync")
        <4>1. buf'[cur] = <<>> /\ cur' = cur
          BY <1>2, <3>2, ZenonT(60) DEF SyncWrite, Flush, TypeOK, ControlType, BufType
        <4> QED
          BY <3>2, <4>1, Zenon DEF Goto, StepData
      <3> QED
        BY <1>2, <3>1, <3>2, Zenon DEF SyncWrite
    <2> QED
      BY <2>1, <2>2, <2>3, <2>4, Zenon DEF DataInv
  <1>3. ASSUME SyncFsync PROVE DataInv'
    <2>1. \A k \in Names : DiskData(k)'
      <3>1. cur \in Names
        BY Zenon DEF TypeOK, ControlType
      <3> QED
        BY <1>3, <3>1, FsyncDisk, DiskFrame, Zenon DEF SyncFsync, kernelVars, dirVars, DataInv
    <2>2. \A k \in Loaded' : SetData(k)'
      BY <1>3, Zenon DEF SyncFsync, kernelVars, DataInv, SetData, Loaded
    <2>3. AddData'
      BY <1>3, ZenonT(60)
         DEF SyncFsync, Return, Goto, itemVars, ControlInv, AddInv, AddData, StagedPcs
    <2>4. StepData'
      BY <1>3, RangeFacts, ZenonT(60)
         DEF SyncFsync, Return, Goto, Fsync, ControlInv, SetInv, DataInv, DiskData, SetData, Synced,
             Logged, PcInv, StepData, TypeOK, FileType, ControlType, SyncPcs
    <2> QED
      BY <2>1, <2>2, <2>3, <2>4, Zenon DEF DataInv
  <1>4. ASSUME SyncMeta PROVE DataInv'
    <2>1. \A k \in Names : DiskData(k)'
      <3>1. CASE UNCHANGED <<dirVars, logVars, memVars>>
        BY <1>4, <3>1, DiskFrame, Zenon DEF SyncMeta, kernelVars, dirVars, logVars, DataInv
      <3>2. CASE UpdateMeta(cur, "clean")
        <4>1. cur \in Names /\ cur \in Loaded /\ HasData(mem[cur]) /\ log[cur] \in LogFile
          BY <1>4, DataCur, Zenon DEF SyncMeta, DataPcs, SyncPcs
        <4>2. log[cur] # NoFile /\ Aligned(log[cur]) /\ Synced(cur)
          BY <1>4, <4>1, FileFacts, Zenon DEF SyncMeta, DataInv, SetData, StepData
        <4> QED
          BY <1>4, <3>2, <4>1, <4>2, UpdateDisk, ZenonT(60) DEF SyncMeta
      <3> QED
        BY <1>4, <3>1, <3>2, Zenon DEF SyncMeta
    <2>2. \A k \in Loaded' : SetData(k)'
      <3>1. CASE UNCHANGED <<dirVars, logVars, memVars>>
        BY <1>4, <3>1, Zenon DEF SyncMeta, kernelVars, logVars, memVars, DataInv, SetData, Loaded
      <3>2. CASE UpdateMeta(cur, "clean")
        <4>1. HasData(mem[cur])
          BY <1>4, DataCur, Zenon DEF SyncMeta, DataPcs, AddPcs, SyncPcs, EnsurePcs
        <4> QED
          BY <1>4, <3>2, <4>1, UpdateSet, Zenon DEF SyncMeta
      <3> QED
        BY <1>4, <3>1, <3>2, Zenon DEF SyncMeta
    <2>3. AddData'
      BY <1>4, Zenon DEF SyncMeta, Return, AddData, StagedPcs
    <2>4. StepData'
      <3>1. pc' = "idle"
        BY <1>4, Zenon DEF SyncMeta, Return
      <3> QED
        BY <3>1, Zenon DEF StepData
    <2> QED
      BY <2>1, <2>2, <2>3, <2>4, Zenon DEF DataInv
  <1> QED
    BY <1>1, <1>2, <1>3, <1>4, Zenon DEF Sync

(* DROP ends the promises of the filter with its metadata; until then they *)
(* hold.                                                                   *)
LEMMA DropData ==
  ASSUME TypeOK, ControlInv, DataInv, WholeWrites, DirSynced
  PROVE  (\E n \in Names : DropBegin(n)) \/ Drop
           => DataInv'
  <1>1. ASSUME NEW n \in Names, DropBegin(n) PROVE DataInv'
    <2>1. \A k \in Names : DiskData(k)'
      BY <1>1, Zenon DEF DropBegin, kernelVars, dirVars, logVars, DataInv, DiskData, Synced, Logged
    <2>2. \A k \in Loaded' : SetData(k)'
      BY <1>1, ZenonT(60) DEF DropBegin, kernelVars, logVars, memVars, DataInv, SetData, Loaded
    <2>3. AddData'
      BY <1>1, ZenonT(60)
         DEF DropBegin, Goto, itemVars, Idle, ControlInv, AddInv, AddData, StagedPcs
    <2>4. StepData'
      BY <1>1, ZenonT(60) DEF DropBegin, Goto, StepData
    <2> QED
      BY <2>1, <2>2, <2>3, <2>4, Zenon DEF DataInv
  <1>2. ASSUME DropUnpin PROVE DataInv'
    <2>1. \A k \in Names : DiskData(k)'
      BY <1>2, Zenon
         DEF DropUnpin, Return, NoStage, dirVars, logVars, DataInv, DiskData, Synced, Logged,
             TypeOK, KernelType
    <2>2. \A k \in Loaded' : SetData(k)'
      BY <1>2, ZenonT(60) DEF DropUnpin, logVars, memVars, DataInv, SetData, Loaded
    <2>3. AddData'
      <3>1. pc' \notin StagedPcs
        BY <1>2, Zenon DEF DropUnpin, Goto, Return, StagedPcs
      <3>2. ~marked'
        BY <1>2, Zenon DEF DropUnpin, Goto, Return, itemVars, ControlInv, AddInv
      <3> QED
        BY <3>1, <3>2, NotStaged, Zenon
    <2>4. StepData'
      BY <1>2, ZenonT(60) DEF DropUnpin, Return, Goto, StepData
    <2> QED
      BY <2>1, <2>2, <2>3, <2>4, Zenon DEF DataInv
  <1>3. ASSUME DropMeta PROVE DataInv'
    <2>1. \A k \in Names : DiskData(k)'
      <3>1. ASSUME NEW k \in Names, k = cur PROVE DiskData(k)'
        <4>1. added'[k] = {} /\ meta'[k] = "absent"
          BY <1>3, <3>1, ZenonT(60) DEF DropMeta, TypeOK, SetType, FileType
        <4> QED
          BY <4>1, NoDiskData, Zenon DEF HasData
      <3>2. ASSUME NEW k \in Names, k # cur PROVE DiskData(k)'
        <4>1. added'[k] = added[k] /\ meta'[k] = meta[k]
          BY <1>3, <3>2, ZenonT(60) DEF DropMeta, TypeOK, SetType, FileType
        <4> QED
          BY <1>3, <4>1, DiskFrame, ZenonT(60) DEF DropMeta, kernelVars, logVars, DataInv
      <3> QED
        BY <3>1, <3>2, Zenon
    <2>2. \A k \in Loaded' : SetData(k)'
      BY <1>3, SMTT(30)
         DEF DropMeta, Forget, kernelVars, logVars, memVars, DataInv, SetData, TypeOK, SetType,
             BufType, Loaded
    <2>3. AddData'
      <3>1. pc' \notin StagedPcs
        BY <1>3, Zenon DEF DropMeta, Goto, Return, StagedPcs
      <3>2. ~marked'
        BY <1>3, ZenonT(60) DEF DropMeta, Goto, Return, itemVars, ControlInv, AddInv
      <3> QED
        BY <3>1, <3>2, NotStaged, Zenon
    <2>4. StepData'
      BY <1>3, ZenonT(60) DEF DropMeta, Return, Goto, StepData
    <2> QED
      BY <2>1, <2>2, <2>3, <2>4, Zenon DEF DataInv
  <1>4. ASSUME DropMetaFails PROVE DataInv'
    <2>1. \A k \in Names : DiskData(k)'
      BY <1>4, Zenon
         DEF DropMetaFails, kernelVars, dirVars, logVars, DataInv, DiskData, Synced, Logged
    <2>2. \A k \in Loaded' : SetData(k)'
      BY <1>4, Zenon DEF DropMetaFails, kernelVars, logVars, memVars, DataInv, SetData, Loaded
    <2>3. AddData'
      BY <1>4, Zenon
         DEF DropMetaFails, Return, Goto, itemVars, logVars, DataInv, Synced, Logged, AddData,
             StagedPcs
    <2>4. StepData'
      BY <1>4, ZenonT(60) DEF DropMetaFails, Return, Goto, StepData
    <2> QED
      BY <2>1, <2>2, <2>3, <2>4, Zenon DEF DataInv
  <1>5. ASSUME DropRepin PROVE DataInv'
    <2>1. \A k \in Names : DiskData(k)'
      <3>1. /\ cur \in Names /\ cur \in Loaded /\ HasData(mem[cur])
        BY <1>5, DataCur, Zenon DEF DropRepin, DataPcs, DropPcs
      <3>2. Aligned(log[cur]) /\ added[cur] \subseteq bits[fd[cur]]
        BY <3>1, Zenon DEF DataInv, SetData
      <3>3. pin'[cur] \in {pin[cur], fd[cur]} /\ \A k \in Names : k # cur => pin'[k] = pin[k]
        BY <1>5, Zenon DEF DropRepin, TypeOK, KernelType
      <3>4. UNCHANGED <<bits, dirVars, logVars, added>>
        BY <1>5, Zenon DEF DropRepin
      <3>5. ASSUME NEW k \in Names, k = cur PROVE DiskData(k)'
        BY <3>2, <3>3, <3>4, ZenonT(60) DEF DataInv, DiskData, Synced, Logged, dirVars, logVars
      <3>6. ASSUME NEW k \in Names, k # cur PROVE DiskData(k)'
        BY <3>3, <3>4, <3>6, DiskFrame, ZenonT(60) DEF DataInv, dirVars, logVars
      <3> QED
        BY <3>5, <3>6, Zenon
    <2>2. \A k \in Loaded' : SetData(k)'
      BY <1>5, Zenon DEF DropRepin, logVars, memVars, DataInv, SetData, Loaded
    <2>3. AddData'
      BY <1>5, Zenon DEF DropRepin, Return, AddData, StagedPcs
    <2>4. StepData'
      BY <1>5, ZenonT(60) DEF DropRepin, Return, StepData
    <2> QED
      BY <2>1, <2>2, <2>3, <2>4, Zenon DEF DataInv
  <1>6. ASSUME DropLog PROVE DataInv'
    <2>1. \A k \in Names : DiskData(k)'
      <3>1. cur \in Names /\ meta[cur] = "absent"
        BY <1>6, ZenonT(60) DEF DropLog, ControlInv, PcInv, TypeOK, ControlType
      <3>2. UNCHANGED <<kernelVars, dirVars, slog, added>>
        BY <1>6, Zenon DEF DropLog
      <3>3. ASSUME NEW k \in Names, k = cur PROVE DiskData(k)'
        BY <3>1, <3>2, <3>3, ZenonT(60) DEF DataInv, DiskData, HasData, dirVars
      <3>4. \A k \in Names : k # cur => log'[k] = log[k]
        BY <1>6, Zenon DEF DropLog, TypeOK, FileType
      <3>5. ASSUME NEW k \in Names, k # cur PROVE DiskData(k)'
        BY <3>2, <3>4, <3>5, DiskFrame, ZenonT(60) DEF DataInv, kernelVars, dirVars
      <3> QED
        BY <3>3, <3>5, Zenon
    <2>2. \A k \in Loaded' : SetData(k)'
      <3>1. ASSUME NEW k \in Loaded' PROVE SetData(k)'
        <4>1. k \in Names /\ k # cur /\ k \in Loaded
          BY <1>6, ZenonT(60) DEF DropLog, Forget, Loaded, TypeOK, SetType
        <4>2. log'[k] = log[k] /\ buf'[k] = buf[k] /\ fd'[k] = fd[k] /\ mem'[k] = mem[k] /\ hist'[k] = hist[k]
          BY <1>6, <4>1, ZenonT(60) DEF DropLog, Forget, TypeOK, SetType, FileType, BufType
        <4> QED
          BY <1>6, <4>1, <4>2, SetFrame, ZenonT(60) DEF DropLog, kernelVars, DataInv
      <3> QED
        BY <3>1, Zenon
    <2>3. AddData'
      BY <1>6, Zenon DEF DropLog, Return, AddData, StagedPcs
    <2>4. StepData'
      BY <1>6, Zenon DEF DropLog, Return, StepData
    <2> QED
      BY <2>1, <2>2, <2>3, <2>4, Zenon DEF DataInv
  <1> QED
    BY <1>1, <1>2, <1>3, <1>4, <1>5, <1>6, ZenonT(60) DEF Drop

(* A start finds every digest in the pinned map, or in the log that it     *)
(* replays.                                                                *)
LEMMA LoadData ==
  ASSUME TypeOK, ControlInv, DataInv, WholeWrites, DirSynced, ReadsWork
  PROVE  Start \/ Load
           => DataInv'
  <1>1. ASSUME Start PROVE DataInv'
    <2>1. \A k \in Names : DiskData(k)'
      BY <1>1, Zenon DEF Start, kernelVars, dirVars, logVars, DataInv, DiskData, Synced, Logged
    <2>2. \A k \in Loaded' : SetData(k)'
      BY <1>1, Zenon DEF Start, kernelVars, logVars, memVars, DataInv, SetData, Loaded
    <2>3. AddData'
      BY <1>1, ZenonT(60)
         DEF Start, Goto, itemVars, logVars, DataInv, Synced, Logged, AddData, StagedPcs
    <2>4. StepData'
      BY <1>1, Zenon DEF Start, Goto, StepData
    <2> QED
      BY <2>1, <2>2, <2>3, <2>4, ZenonT(60) DEF DataInv
  <1>2. ASSUME NEW n \in Names, LoadPinned(n) PROVE DataInv'
    <2>1. \A k \in Names : DiskData(k)'
      BY <1>2, Zenon DEF LoadPinned, kernelVars, dirVars, logVars, DataInv, DiskData, Synced, Logged
    <2>2. \A k \in Loaded' : SetData(k)'
      BY <1>2, ZenonT(60) DEF LoadPinned, kernelVars, logVars, memVars, DataInv, SetData, Loaded
    <2>3. AddData'
      BY <1>2, ZenonT(60)
         DEF LoadPinned, Goto, itemVars, Entry, ControlInv, AddInv, AddData, StagedPcs
    <2>4. StepData'
      BY <1>2, FileFacts, MapNotNone, ZenonT(60)
         DEF LoadPinned, Goto, Entry, kernelVars, dirVars, logVars, DataInv, DiskData, SetData,
             Synced, Logged, StepData
    <2> QED
      BY <2>1, <2>2, <2>3, <2>4, ZenonT(60) DEF DataInv
  <1>3. ASSUME NEW n \in Names, LoadEmpty(n) PROVE DataInv'
    <2>1. \A k \in Names : DiskData(k)'
      <3>1. PICK m \in Fresh(par[n]) : newmap' = m /\ bits' = [bits EXCEPT ![m] = {}]
        BY <1>3, Zenon DEF LoadEmpty
      <3>2. \A k \in Names : pin[k] # NoMap => bits'[pin[k]] = bits[pin[k]]
        BY <3>1, FreshBits, Zenon
      <3> QED
        BY <1>3, <3>2, DiskFrame, Zenon DEF LoadEmpty, dirVars, logVars, DataInv
    <2>2. \A k \in Loaded' : SetData(k)'
      <3>1. PICK m \in Fresh(par[n]) : newmap' = m /\ bits' = [bits EXCEPT ![m] = {}]
        BY <1>3, Zenon DEF LoadEmpty
      <3>2. \A k \in Names : fd[k] # NoMap => bits'[fd[k]] = bits[fd[k]]
        BY <3>1, FreshBits, ZenonT(60)
      <3> QED
        BY <1>3, <3>2, SetFrame, ZenonT(60) DEF LoadEmpty, logVars, memVars, DataInv, Loaded
    <2>3. AddData'
      BY <1>3, FileFacts, MapNotNone, ZenonT(60)
         DEF LoadEmpty, Goto, itemVars, Entry, Fresh, logVars, memVars, ControlInv, DataInv, Synced,
             Logged, AddInv, AddData, StagedPcs
    <2>4. StepData'
      <3>1. added[n] = {} /\ ~HasData(meta[n])
        BY <1>3, ZenonT(60) DEF LoadEmpty, DataInv, DiskData, HasData
      <3> QED
        BY <1>3, <3>1, Zenon DEF LoadEmpty, Entry, Goto, dirVars, StepData
    <2> QED
      BY <2>1, <2>2, <2>3, <2>4, Zenon DEF DataInv
  <1>4. ASSUME NEW n \in Names, LoadReplay(n) PROVE DataInv'
    <2>1. \A k \in Names : DiskData(k)'
      <3>1. Aligned(log'[n]) /\ \A k \in Names : Recs(log'[k]) = Recs(log[k]) /\ (Aligned(log[k]) => Aligned(log'[k]))
        BY <1>4, ReplayLog, Zenon DEF LoadReplay
      <3>2. PICK m \in Fresh(par[n]) : newmap' = m /\ bits' = [bits EXCEPT ![m] = log[n].recs]
        BY <1>4, Zenon DEF LoadReplay
      <3>3. \A k \in Names : pin[k] # NoMap => bits'[pin[k]] = bits[pin[k]]
        BY <3>2, FreshBits, Zenon
      <3>4. \A k \in Names : Recs(log'[k]) = Recs(log[k]) /\ (Aligned(log[k]) => Aligned(log'[k]))
        BY <3>1, Zenon
      <3> QED
        BY <1>4, <3>3, <3>4, DiskFrame, ZenonT(60) DEF LoadReplay, dirVars, DataInv
    <2>2. \A k \in Loaded' : SetData(k)'
      <3>1. Aligned(log'[n]) /\ \A k \in Names : Recs(log'[k]) = Recs(log[k]) /\ (Aligned(log[k]) => Aligned(log'[k]))
        BY <1>4, ReplayLog, Zenon DEF LoadReplay
      <3>2. PICK m \in Fresh(par[n]) : newmap' = m /\ bits' = [bits EXCEPT ![m] = log[n].recs]
        BY <1>4, Zenon DEF LoadReplay
      <3>3. \A k \in Names : fd[k] # NoMap => bits'[fd[k]] = bits[fd[k]]
        BY <3>2, FreshBits, ZenonT(60)
      <3>4. \A k \in Names : Recs(log'[k]) = Recs(log[k]) /\ (Aligned(log[k]) => Aligned(log'[k]))
        BY <3>1, Zenon
      <3> QED
        BY <1>4, <3>3, <3>4, SetFrame, ZenonT(60) DEF LoadReplay, memVars, DataInv, Loaded
    <2>3. AddData'
      BY <1>4, FileFacts, MapNotNone, ZenonT(60)
         DEF LoadReplay, Goto, itemVars, Entry, Fresh, memVars, ControlInv, DataInv, Synced, Logged,
             AddInv, AddData, StagedPcs
    <2>4. StepData'
      <3>1. Aligned(log'[n]) /\ \A k \in Names : Recs(log'[k]) = Recs(log[k]) /\ (Aligned(log[k]) => Aligned(log'[k]))
        BY <1>4, ReplayLog, Zenon DEF LoadReplay
      <3>2. PICK m \in Fresh(par[n]) : newmap' = m /\ bits' = [bits EXCEPT ![m] = log[n].recs]
        BY <1>4, Zenon DEF LoadReplay
      <3>3. Aligned(log'[n]) /\ bits'[newmap'] = log[n].recs
        <4>1. bits'[m] = log[n].recs
          BY <3>2, FreshBits, ZenonT(60)
        <4> QED
          BY <3>1, <3>2, <4>1, Zenon
      <3>4. added[n] \subseteq log[n].recs
        BY <1>4, Zenon DEF LoadReplay, DataInv, DiskData, Synced, Logged, Recs
      <3> QED
        BY <1>4, <3>3, <3>4, ZenonT(60) DEF LoadReplay, Entry, Goto, StepData
    <2> QED
      BY <2>1, <2>2, <2>3, <2>4, Zenon DEF DataInv
  <1>5. ASSUME NEW n \in Names, LoadStale(n) PROVE DataInv'
    <2>1. \A k \in Names : DiskData(k)'
      <3>1. added[n] = {}
        BY <1>5, FileFacts, ZenonT(60) DEF LoadStale, DataInv, DiskData, Synced, Logged
      <3>2. ASSUME NEW k \in Names PROVE meta'[k] = meta[k] \/ (k = n /\ meta'[k] = "absent")
        BY <1>5, Zenon DEF LoadStale, RecoverStale, TypeOK, FileType
      <3>3. ASSUME NEW k \in Names, k = n, meta'[k] = "absent" PROVE DiskData(k)'
        BY <1>5, <3>1, <3>3, NoDiskData, Zenon DEF LoadStale, RecoverStale, HasData
      <3>4. ASSUME NEW k \in Names, meta'[k] = meta[k] PROVE DiskData(k)'
        BY <1>5, <3>4, DiskFrame, ZenonT(60)
           DEF LoadStale, RecoverStale, kernelVars, logVars, DataInv
      <3> QED
        BY <3>2, <3>3, <3>4, Zenon
    <2>2. \A k \in Loaded' : SetData(k)'
      BY <1>5, Zenon
         DEF LoadStale, RecoverStale, kernelVars, logVars, memVars, DataInv, SetData, Loaded
    <2>3. AddData'
      BY <1>5, Zenon
         DEF LoadStale, RecoverStale, Goto, itemVars, Entry, ControlInv, AddInv, AddData, StagedPcs
    <2>4. StepData'
      BY <1>5, Zenon DEF LoadStale, RecoverStale, Goto, StepData
    <2> QED
      BY <2>1, <2>2, <2>3, <2>4, Zenon DEF DataInv
  <1>6. ASSUME NEW n \in Names PROVE ~LoadUnreadable(n)
    BY ZenonT(60) DEF LoadUnreadable, ReadsWork, May
  <1>7. ASSUME NEW n \in Names, LoadRefuse(n) PROVE DataInv'
    <2>1. \A k \in Names : DiskData(k)'
      BY <1>7, Zenon DEF LoadRefuse, kernelVars, dirVars, logVars, DataInv, DiskData, Synced, Logged
    <2>2. \A k \in Loaded' : SetData(k)'
      BY <1>7, Zenon DEF LoadRefuse, kernelVars, logVars, memVars, DataInv, SetData, Loaded
    <2>3. AddData'
      BY <1>7, Zenon DEF LoadRefuse, Goto, itemVars, Entry, ControlInv, AddInv, AddData, StagedPcs
    <2>4. StepData'
      BY <1>7, ZenonT(60) DEF LoadRefuse, Goto, StepData
    <2> QED
      BY <2>1, <2>2, <2>3, <2>4, Zenon DEF DataInv
  <1>8. ASSUME LoadPin PROVE DataInv'
    <2>1. \A k \in Names : DiskData(k)'
      <3>1. ASSUME NEW k \in Names, k # cur PROVE DiskData(k)'
        <4>1. pin'[k] = pin[k]
          BY <1>8, <3>1, Zenon DEF LoadPin, TypeOK, KernelType
        <4> QED
          BY <1>8, <4>1, DiskFrame, Zenon DEF LoadPin, dirVars, logVars, DataInv
      <3>2. ASSUME NEW k \in Names, k = cur PROVE DiskData(k)'
        <4>1. pin'[k] = newmap
          BY <1>8, <3>2, Zenon DEF LoadPin, TypeOK, KernelType
        <4> QED
          BY <1>8, <3>2, <4>1, ZenonT(60)
             DEF LoadPin, dirVars, logVars, DataInv, DiskData, Synced, Logged, StepData
      <3> QED
        BY <3>1, <3>2, Zenon
    <2>2. \A k \in Loaded' : SetData(k)'
      BY <1>8, Zenon DEF LoadPin, logVars, memVars, DataInv, SetData, Loaded
    <2>3. AddData'
      <3>1. pc' \notin StagedPcs
        BY <1>8, Zenon DEF LoadPin, Goto, StagedPcs
      <3>2. ~marked'
        BY <1>8, ZenonT(60) DEF LoadPin, Goto, itemVars, ControlInv, AddInv
      <3> QED
        BY <3>1, <3>2, NotStaged, Zenon
    <2>4. StepData'
      BY <1>8, ZenonT(60) DEF LoadPin, Goto, dirVars, logVars, DataInv, StepData
    <2> QED
      BY <2>1, <2>2, <2>3, <2>4, Zenon DEF DataInv
  <1>9. ASSUME LoadPublish PROVE DataInv'
    <2>1. \A k \in Names : DiskData(k)'
      <3>1. \A k \in Names : log'[k] = log[k] \/ (log[k] = NoFile /\ log'[k] = EmptyFile)
        BY <1>9, Zenon DEF LoadPublish, TypeOK, FileType
      <3>2. \A k \in Names : Recs(log[k]) \subseteq Recs(log'[k]) /\ (Aligned(log[k]) => Aligned(log'[k]))
        BY <3>1, FileFacts, Zenon
      <3> QED
        BY <1>9, <3>2, DiskFrame, Zenon DEF LoadPublish, kernelVars, dirVars, DataInv
    <2>2. \A k \in Loaded' : SetData(k)'
      <3>1. cur \in Names /\ cur \notin Loaded
        BY <1>9, ZenonT(60) DEF LoadPublish, ControlInv, PcInv, NewPcs, TypeOK, ControlType
      <3>2. /\ fd'[cur] = newmap /\ mem'[cur] = meta[cur] /\ hist'[cur] = (meta[cur] = "dirty")
            /\ log'[cur] = IF HasData(meta[cur]) /\ log[cur] = NoFile THEN EmptyFile ELSE log[cur]
        BY <1>9, <3>1, ZenonT(60) DEF LoadPublish, TypeOK, SetType, FileType
      <3>3. \A k \in Names : k # cur => fd'[k] = fd[k] /\ mem'[k] = mem[k] /\ hist'[k] = hist[k] /\ log'[k] = log[k]
        BY <1>9 DEF LoadPublish
      <3>4. UNCHANGED <<bits, buf, added>>
        BY <1>9, Zenon DEF LoadPublish, kernelVars
      <3>5. ASSUME NEW k \in Loaded', k # cur PROVE SetData(k)'
        BY <3>3, <3>4, <3>5, SetFrame, Zenon DEF DataInv, Loaded
      <3>6. added[cur] \subseteq bits[newmap] /\ (HasData(meta[cur]) => Aligned(log'[cur]))
        BY <1>9, <3>2, FileFacts, ZenonT(60) DEF LoadPublish, DataInv, StepData
      <3>7. meta[cur] = "clean" => added[cur] \subseteq Recs(log'[cur])
        BY <3>1, <3>2, FileFacts, ZenonT(60) DEF DataInv, DiskData, Synced, Logged
      <3>8. HasData(meta[cur]) /\ ~hist'[cur] => meta[cur] = "clean"
        BY <3>2, Zenon DEF HasData
      <3>9. ASSUME NEW k \in Names, k = cur PROVE SetData(k)'
        <4>1. added[k] \subseteq bits[newmap] /\ (HasData(meta[k]) => Aligned(log'[k]))
          BY <3>6, <3>9, Zenon
        <4>2. HasData(meta[k]) /\ ~hist'[k] => added[k] \subseteq Recs(log'[k])
          BY <3>7, <3>8, <3>9, Zenon
        <4>3. fd'[k] = newmap /\ mem'[k] = meta[k]
          BY <3>2, <3>9, ZenonT(60)
        <4> QED
          BY <3>4, <4>1, <4>2, <4>3, ZenonT(60) DEF SetData
      <3> QED
        BY <3>5, <3>9, ZenonT(60) DEF Loaded
    <2>3. AddData'
      <3>1. pc' \notin StagedPcs
        BY <1>9, Zenon DEF LoadPublish, Goto, StagedPcs
      <3>2. ~marked'
        BY <1>9, Zenon DEF LoadPublish, Goto, itemVars, ControlInv, AddInv
      <3> QED
        BY <3>1, <3>2, NotStaged, Zenon
    <2>4. StepData'
      BY <1>9, ZenonT(60) DEF LoadPublish, Goto, StepData
    <2> QED
      BY <2>1, <2>2, <2>3, <2>4, Zenon DEF DataInv
  <1>10. ASSUME LoadFails PROVE DataInv'
    <2>1. \A k \in Names : DiskData(k)'
      <3>1. \A k \in Names : pin'[k] \in {pin[k], NoMap}
        BY <1>10, Zenon DEF LoadFails, TypeOK, KernelType
      <3> QED
        BY <1>10, <3>1, DiskFrame, Zenon DEF LoadFails, dirVars, logVars, DataInv
    <2>2. \A k \in Loaded' : SetData(k)'
      <3>1. UNCHANGED <<bits, log, fd, mem, hist, buf, added>>
        BY <1>10, Zenon DEF LoadFails, logVars, memVars
      <3> QED
        BY <3>1, Zenon DEF DataInv, SetData, Loaded
    <2>3. AddData'
      <3>1. pc' \notin StagedPcs
        BY <1>10, Zenon DEF LoadFails, Goto, StagedPcs
      <3>2. ~marked'
        BY <1>10, Zenon DEF LoadFails, Goto, itemVars, LoadPcs, ControlInv, AddInv
      <3> QED
        BY <3>1, <3>2, NotStaged, Zenon
    <2>4. StepData'
      BY <1>10, ZenonT(60) DEF LoadFails, Goto, StepData
    <2> QED
      BY <2>1, <2>2, <2>3, <2>4, Zenon DEF DataInv
  <1>11. ASSUME LoadDone PROVE DataInv'
    <2>1. \A k \in Names : DiskData(k)'
      BY <1>11, Zenon DEF LoadDone, kernelVars, dirVars, logVars, DataInv, DiskData, Synced, Logged
    <2>2. \A k \in Loaded' : SetData(k)'
      BY <1>11, Zenon DEF LoadDone, kernelVars, logVars, memVars, DataInv, SetData, Loaded
    <2>3. AddData'
      BY <1>11, Zenon
         DEF LoadDone, Goto, itemVars, logVars, DataInv, Synced, Logged, AddData, StagedPcs
    <2>4. StepData'
      BY <1>11, ZenonT(60) DEF LoadDone, Goto, StepData
    <2> QED
      BY <2>1, <2>2, <2>3, <2>4, Zenon DEF DataInv
  <1>12. ASSUME CleanupOrphanPins PROVE DataInv'
    <2>1. \A k \in Names : DiskData(k)'
      BY <1>12, Zenon DEF CleanupOrphanPins, dirVars, logVars, DataInv, DiskData, Synced, Logged
    <2>2. \A k \in Loaded' : SetData(k)'
      BY <1>12, ZenonT(60) DEF CleanupOrphanPins, logVars, memVars, DataInv, SetData, Loaded
    <2>3. AddData'
      BY <1>12, ZenonT(60)
         DEF CleanupOrphanPins, Goto, itemVars, logVars, DataInv, Synced, Logged, AddData, StagedPcs
    <2>4. StepData'
      BY <1>12, ZenonT(60) DEF CleanupOrphanPins, Goto, StepData
    <2> QED
      BY <2>1, <2>2, <2>3, <2>4, Zenon DEF DataInv
  <1>13. ASSUME Listen PROVE DataInv'
    <2>1. \A k \in Names : DiskData(k)'
      BY <1>13, ZenonT(60)
         DEF Listen, kernelVars, dirVars, logVars, DataInv, DiskData, Synced, Logged
    <2>2. \A k \in Loaded' : SetData(k)'
      BY <1>13, Zenon DEF Listen, kernelVars, logVars, memVars, DataInv, SetData, Loaded
    <2>3. AddData'
      BY <1>13, Zenon DEF Listen, Return, AddData, StagedPcs
    <2>4. StepData'
      BY <1>13, Zenon DEF Listen, Return, StepData
    <2> QED
      BY <2>1, <2>2, <2>3, <2>4, Zenon DEF DataInv
  <1> QED
    BY <1>1, <1>2, <1>3, <1>4, <1>5, <1>6, <1>7, <1>8, <1>9, <1>10, <1>11, <1>12, <1>13, ZenonT(60)
       DEF Load

(* Stops, kills, host crashes and vanishing pins lose no digest that the   *)
(* next start needs.                                                       *)
LEMMA EndData ==
  ASSUME TypeOK, ControlInv, DataInv, WholeWrites, DirSynced
  PROVE  Stop \/ Shutdown \/ Kill \/ HostCrash \/ (\E n \in Names : PinRemoved(n))
           => DataInv'
  <1>1. ASSUME Stop PROVE DataInv'
    <2>1. \A k \in Names : DiskData(k)'
      BY <1>1, ZenonT(60) DEF Stop, kernelVars, dirVars, logVars, DataInv, DiskData, Synced, Logged
    <2>2. \A k \in Loaded' : SetData(k)'
      BY <1>1, Zenon DEF Stop, kernelVars, logVars, memVars, DataInv, SetData, Loaded
    <2>3. AddData'
      BY <1>1, Zenon DEF Stop, Idle, itemVars, ControlInv, AddInv, AddData, StagedPcs
    <2>4. StepData'
      BY <1>1, ZenonT(60) DEF Stop, Idle, StepData
    <2> QED
      BY <2>1, <2>2, <2>3, <2>4, Zenon DEF DataInv
  <1>2. ASSUME StopSynced PROVE DataInv'
    <2>1. \A k \in Names : DiskData(k)'
      BY <1>2, Zenon DEF StopSynced, kernelVars, dirVars, logVars, DataInv, DiskData, Synced, Logged
    <2>2. \A k \in Loaded' : SetData(k)'
      BY <1>2, ZenonT(60) DEF StopSynced, kernelVars, logVars, memVars, DataInv, SetData, Loaded
    <2>3. AddData'
      BY <1>2, Zenon
         DEF StopSynced, Goto, itemVars, logVars, DataInv, Synced, Logged, AddData, StagedPcs
    <2>4. StepData'
      BY <1>2, ZenonT(60) DEF StopSynced, Goto, StepData
    <2> QED
      BY <2>1, <2>2, <2>3, <2>4, Zenon DEF DataInv
  <1>3. ASSUME NEW n \in Names, FreeFilter(n) PROVE DataInv'
    <2>1. \A k \in Names : DiskData(k)'
      <3>1. UNCHANGED <<kernelVars, dirVars, added>>
        BY <1>3, Zenon DEF FreeFilter
      <3>2. CASE ~HasData(mem[n])
        BY <1>3, <3>2, DiskFrame, Zenon DEF FreeFilter, DataInv, kernelVars, dirVars, logVars
      <3>3. CASE HasData(mem[n])
        <4>1. log[n] \in LogFile
          BY <1>3, <3>3, ZenonT(60) DEF FreeFilter, ControlInv, SetInv, TypeOK, FileType
        <4>2. \A k \in Names : /\ Recs(log[k]) \subseteq Recs(log'[k])
                               /\ Aligned(log[k]) => Aligned(log'[k])
          BY <1>3, <3>3, <4>1, FlushLog, Zenon DEF FreeFilter
        <4>3. slog'[n] \in {slog[n], log'[n]} /\ \A k \in Names : k # n => slog'[k] = slog[k]
          BY <1>3, <3>3, ZenonT(60) DEF FreeFilter, TypeOK, FileType
        <4>4. ASSUME NEW k \in Names, k # n PROVE DiskData(k)'
          BY <3>1, <4>2, <4>3, <4>4, DiskFrame, ZenonT(60) DEF DataInv, kernelVars, dirVars
        <4>5. DiskData(n)'
          BY <3>1, <4>2, <4>3, ZenonT(60) DEF DataInv, DiskData, Synced, Logged, kernelVars, dirVars
        <4> QED
          BY <4>4, <4>5, ZenonT(60)
      <3> QED
        BY <3>2, <3>3, Zenon
    <2>2. \A k \in Loaded' : SetData(k)'
      <3>1. ASSUME NEW k \in Loaded' PROVE SetData(k)'
        <4>1. k \in Names /\ k # n /\ k \in Loaded
          BY <1>3, Zenon DEF FreeFilter, Forget, Loaded, TypeOK, SetType
        <4>2. log'[k] = log[k]
          BY <1>3, <4>1, Zenon DEF FreeFilter, logVars, TypeOK, FileType
        <4>3. buf'[k] = buf[k] /\ fd'[k] = fd[k] /\ mem'[k] = mem[k] /\ hist'[k] = hist[k]
          BY <1>3, <4>1, Zenon DEF FreeFilter, Forget, TypeOK, SetType, BufType
        <4> QED
          BY <1>3, <4>1, <4>2, <4>3, SetFrame, ZenonT(60) DEF FreeFilter, kernelVars, DataInv
      <3> QED
        BY <3>1, Zenon
    <2>3. AddData'
      <3>1. pc' \notin StagedPcs
        BY <1>3, Zenon DEF FreeFilter, Goto, StagedPcs
      <3>2. ~marked'
        BY <1>3, Zenon DEF FreeFilter, Goto, itemVars, ControlInv, AddInv
      <3> QED
        BY <3>1, <3>2, NotStaged, Zenon
    <2>4. StepData'
      BY <1>3, ZenonT(60) DEF FreeFilter, Goto, StepData
    <2> QED
      BY <2>1, <2>2, <2>3, <2>4, Zenon DEF DataInv
  <1>4. ASSUME Exit PROVE DataInv'
    <2>1. \A k \in Names : DiskData(k)'
      <3>1. \A k \in Names : pin[k] # NoMap => bits'[pin[k]] = bits[pin[k]]
        BY <1>4, ReclaimBits, Zenon DEF Exit
      <3> QED
        BY <1>4, <3>1, DiskFrame, Zenon DEF Exit, dirVars, logVars, DataInv
    <2>2. \A k \in Loaded' : SetData(k)'
      BY <1>4, Zenon DEF Exit, memVars, Loaded
    <2>3. AddData'
      BY <1>4, Zenon DEF Exit, Goto, itemVars, logVars, DataInv, Synced, Logged, AddData, StagedPcs
    <2>4. StepData'
      BY <1>4, ZenonT(60) DEF Exit, Goto, StepData
    <2> QED
      BY <2>1, <2>2, <2>3, <2>4, Zenon DEF DataInv
  <1>5. ASSUME Kill PROVE DataInv'
    <2>1. \A k \in Names : DiskData(k)'
      <3>1. \A k \in Names : pin[k] # NoMap => bits'[pin[k]] = bits[pin[k]]
        BY <1>5, ReclaimBits, Zenon DEF Kill
      <3> QED
        BY <1>5, <3>1, DiskFrame, Zenon DEF Kill, dirVars, logVars, DataInv
    <2>2. \A k \in Loaded' : SetData(k)'
      BY <1>5, Zenon DEF Kill, ProcessGone, Loaded
    <2>3. AddData'
      BY <1>5, Zenon DEF Kill, ProcessGone, AddData, StagedPcs
    <2>4. StepData'
      BY <1>5, ZenonT(60) DEF Kill, ProcessGone, StepData
    <2> QED
      BY <2>1, <2>2, <2>3, <2>4, Zenon DEF DataInv
  <1>6. ASSUME HostCrash PROVE DataInv'
    <2>1. \A k \in Names : DiskData(k)'
      <3> SUFFICES ASSUME NEW k \in Names PROVE DiskData(k)'
        BY Zenon
      <3>1. /\ meta'[k] \in {meta[k], smeta[k]} /\ smeta'[k] = meta'[k]
            /\ pin'[k] = NoMap /\ slog'[k] = log'[k] /\ added'[k] = added[k]
        BY <1>6, Zenon DEF HostCrash
      <3>2. added[k] # {} => HasData(meta'[k]) /\ meta'[k] = meta[k]
        BY <3>1, Zenon DEF DataInv, DiskData, HasData
      <3>3. Survives(log[k], slog[k], log'[k])
        BY <1>6, Zenon DEF HostCrash
      <3>4. Synced(k) => added[k] \subseteq Recs(log'[k])
        BY <3>3, Zenon DEF Survives, Synced, Logged, Recs
      <3>5. meta[k] = "clean" => Synced(k)
        BY Zenon DEF DataInv, DiskData
      <3>6. meta'[k] = "clean" => added[k] \subseteq Recs(log'[k])
        BY <3>2, <3>4, <3>5, Zenon
      <3> QED
        BY <3>1, <3>2, <3>6, Zenon DEF DiskData, Synced, Logged
    <2>2. \A k \in Loaded' : SetData(k)'
      BY <1>6, Zenon DEF HostCrash, ProcessGone, Loaded
    <2>3. AddData'
      BY <1>6, Zenon DEF HostCrash, ProcessGone, AddData, StagedPcs
    <2>4. StepData'
      BY <1>6, ZenonT(60) DEF HostCrash, ProcessGone, StepData
    <2> QED
      BY <2>1, <2>2, <2>3, <2>4, Zenon DEF DataInv
  <1>7. ASSUME NEW n \in Names, PinRemoved(n) PROVE DataInv'
    <2>1. \A k \in Names : DiskData(k)'
      <3>1. \A k \in Names : pin'[k] \in {pin[k], NoMap}
        BY <1>7, Zenon DEF PinRemoved, TypeOK, KernelType
      <3> QED
        BY <1>7, <3>1, DiskFrame, Zenon DEF PinRemoved, dirVars, logVars, DataInv
    <2>2. \A k \in Loaded' : SetData(k)'
      BY <1>7, Zenon DEF PinRemoved, logVars, memVars, DataInv, SetData, Loaded
    <2>3. AddData'
      BY <1>7, ZenonT(60)
         DEF PinRemoved, logVars, memVars, procVars, itemVars, DataInv, Synced, Logged, AddData
    <2>4. StepData'
      BY <1>7, Zenon
         DEF PinRemoved, dirVars, logVars, memVars, loadVars, DataInv, Synced, Logged, StepData
    <2> QED
      BY <2>1, <2>2, <2>3, <2>4, Zenon DEF DataInv
  <1> QED
    BY <1>1, <1>2, <1>3, <1>4, <1>5, <1>6, <1>7, ZenonT(60) DEF Shutdown

(* DataInv holds when nothing has happened yet.                            *)
LEMMA InitData == ASSUME Init PROVE DataInv
  <1>1. \A n \in Names : DiskData(n)
    BY Zenon DEF Init, DiskData
  <1>2. Loaded = {}
    BY Zenon DEF Init, Loaded
  <1>3. AddData
    BY Zenon DEF Init, AddData, StagedPcs
  <1>4. StepData
    BY Zenon DEF Init, StepData
  <1> QED
    BY <1>1, <1>2, <1>3, <1>4, Zenon DEF DataInv

(* Steps that change nothing.                                              *)
LEMMA StutterData == ASSUME DataInv, UNCHANGED vars PROVE DataInv'
  <1>1. \A n \in Names : DiskData(n)'
    BY Zenon DEF DataInv, DiskData, Synced, Logged, vars, kernelVars, dirVars, logVars
  <1>2. \A n \in Loaded' : SetData(n)'
    BY Zenon DEF DataInv, SetData, Loaded, vars, kernelVars, logVars, memVars
  <1>3. AddData'
    BY Zenon DEF DataInv, AddData, Synced, Logged, vars, logVars, memVars, procVars, itemVars
  <1>4. StepData'
    BY Zenon
       DEF DataInv, StepData, Synced, Logged, vars, kernelVars, dirVars, logVars, memVars, loadVars
  <1> QED
    BY <1>1, <1>2, <1>3, <1>4, Zenon DEF DataInv

(* What every step preserves when writes are whole, renames are synced and *)
(* metadata can be read.                                                   *)
LEMMA StepDataInv ==
  ASSUME TypeOK, ControlInv, DataInv, WholeWrites, DirSynced, ReadsWork, [Next]_vars
  PROVE  DataInv'
  BY CreateData, EnsureData, StageData, SyncData, DropData, LoadData, EndData, StutterData,
     ZenonT(60)
     DEF Next, Daemon, Environment, Requests, Add

(* IInv holds in every state of a bloomd whose write() calls are whole,    *)
(* whose directory fsync after a rename succeeds and whose metadata can be *)
(* read back, whatever else fails and however often the process is killed  *)
(* or the host goes down.                                                  *)
THEOREM DataInvariant == ASSUME WholeWrites, DirSynced, ReadsWork PROVE Spec => [](TypeOK /\ IInv)
  <1>1. Init => DataInv
    BY InitData, Zenon
  <1>2. TypeOK /\ ControlInv /\ DataInv /\ [Next]_vars => DataInv'
    BY StepDataInv, Zenon
  <1>3. Spec => [](TypeOK /\ ControlInv)
    BY ControlInvariant, Zenon
  <1>4. TypeOK /\ ControlInv /\ DataInv => TypeOK /\ IInv
    BY Zenon DEF IInv
  <1> QED
    BY <1>1, <1>2, <1>3, <1>4, PTL DEF Spec

(* A digest that was added is found by every later CHECK of its filter.    *)
THEOREM AddedIsFound == ASSUME WholeWrites, DirSynced, ReadsWork PROVE Spec => []NoFalseNegative
  <1>1. TypeOK /\ IInv => NoFalseNegative
    BY Zenon DEF IInv, DataInv, SetData, NoFalseNegative
  <1> QED
    BY <1>1, DataInvariant, PTL

(* log_clean=1 on disk means that a replay of what is durable of the log   *)
(* rebuilds the whole filter.                                              *)
THEOREM CleanIsComplete == ASSUME WholeWrites, DirSynced, ReadsWork PROVE Spec => []CleanLogComplete
  <1>1. TypeOK /\ IInv => CleanLogComplete
    BY ZenonT(60) DEF IInv, DataInv, DiskData, Synced, CleanLogComplete
  <1> QED
    BY <1>1, DataInvariant, PTL

(* A filter with digests stays one that a restart must bring back.         *)
THEOREM AddedIsRemembered == ASSUME WholeWrites, DirSynced, ReadsWork PROVE Spec => []NeverForgotten
  <1>1. TypeOK /\ IInv => NeverForgotten
    BY Zenon DEF IInv, DataInv, DiskData, NeverForgotten
  <1> QED
    BY <1>1, DataInvariant, PTL
=============================================================================
