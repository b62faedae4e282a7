------------------------- MODULE FilterStoreControl -------------------------
(***************************************************************************)
(* Every action of FilterStore keeps the types and ControlInv, whatever    *)
(* the environment does, and what follows from that: the filter set agrees *)
(* with the disk between two requests.                                     *)
(***************************************************************************)
EXTENDS FilterStoreInv, TLAPS

-----------------------------------------------------------------------------
(* The types.  The steps that work on the filter of a handler need         *)
(* ControlInv as well: it says that cur is in the filter set and that its  *)
(* log exists.                                                             *)

(* bloomd_write_all turns a log into a log, whether it succeeds or stops   *)
(* on the way.                                                             *)
LEMMA WrittenType ==
  ASSUME NEW f \in LogFile, NEW b \in Seq(Digests)
  PROVE  Written(f, b) \in LogFile
  BY DEF LogFile, Written, Range

(* A write that stops after k units: the end stays within one record of a  *)
(* boundary.                                                               *)
LEMMA WrittenPartType ==
  ASSUME NEW f \in LogFile, NEW b \in Seq(Digests), NEW k \in 1..(Len(b) * RecUnits - 1)
  PROVE  WrittenPart(f, b, k) \in LogFile
  <1>1. (f.off + k) % RecUnits \in 0..(RecUnits - 1)
    BY ConstantAssumption, SMTT(30) DEF LogFile
  <1>2. k \div RecUnits \in Nat /\ k \div RecUnits <= Len(b)
    BY ConstantAssumption
  <1>3. Range(SubSeq(b, 1, k \div RecUnits)) \subseteq Digests
    BY <1>2 DEF Range
  <1> QED
    BY <1>1, <1>3, Zenon DEF LogFile, WrittenPart

(* Whatever a failing bloomd_write_all leaves behind is a log.             *)
LEMMA WriteFailuresType ==
  ASSUME NEW f \in LogFile, NEW b \in Seq(Digests)
  PROVE  WriteFailures(f, b) \subseteq LogFile
  BY WrittenPartType, Zenon DEF WriteFailures

(* A missing log is not a log, and an empty one is.                        *)
LEMMA FileConstants ==
  EmptyFile \in LogFile /\ EmptyFile # NoFile /\ NoFile \notin LogFile
  BY ConstantAssumption, NoFileAssumption DEF EmptyFile, LogFile

(* Writing does not remove a log.                                          *)
LEMMA WrittenIsFile ==
  ASSUME NEW f \in LogFile, NEW b \in Seq(Digests)
  PROVE  Written(f, b) # NoFile /\ NoFile \notin WriteFailures(f, b)
  BY WrittenType, WriteFailuresType, FileConstants, Zenon

(* A closed descriptor is not a map.                                       *)
LEMMA MapNotNone == NoMap \notin Maps
  BY ConstantAssumption, Zenon

(* Every batch has an item.                                                *)
LEMMA BatchType == \A b \in Batches : b \in Seq(Digests) /\ b # <<>>
  BY DEF Batches

(* The stage of a handler that has none fits its type.                     *)
LEMMA StageNone ==
  /\ NoStage \in [buf : Seq(Digests), dirty : BOOLEAN, file : LogFile \cup {NoFile}]
  /\ Len(NoStage.buf) <= BufCap
  BY ConstantAssumption DEF NoStage

(* Return leaves no locals behind.                                         *)
LEMMA ReturnType == ASSUME Return PROVE ItemType' /\ pc' \in Pcs
  <1>1. items' \in Seq(Digests)
    BY DEF Return
  <1>2. stage' \in [buf : Seq(Digests), dirty : BOOLEAN, file : LogFile \cup {NoFile}]
    BY StageNone, Zenon DEF Return
  <1>3. Len(stage'.buf) <= BufCap
    BY StageNone, Zenon DEF Return
  <1> QED
    BY <1>1, <1>2, <1>3, Zenon DEF Return, ItemType, Pcs

(* A failed item ends the request or has log_clean restored first.         *)
LEMMA AbortType == ASSUME ItemType, Abort PROVE ItemType' /\ pc' \in Pcs
  <1>1. CASE Return
    BY <1>1, ReturnType, Zenon
  <1>2. CASE Goto("restore")
    BY <1>2, Zenon DEF Goto, ItemType, itemVars, Pcs, AddPcs
  <1> QED
    BY <1>1, <1>2, Zenon DEF Abort

(* What is not assigned keeps its type.                                    *)
LEMMA Kept ==
  ASSUME TypeOK
  PROVE  /\ UNCHANGED kernelVars => KernelType'
         /\ UNCHANGED <<dirVars, logVars>> => FileType'
         /\ UNCHANGED <<fd, mem, hist, dirty, added>> => SetType'
         /\ UNCHANGED <<memVars, added>> => SetType' /\ BufType'
         /\ UNCHANGED buf => BufType'
         /\ UNCHANGED itemVars => ItemType'
  <1>1. UNCHANGED kernelVars => KernelType'
    BY Zenon DEF TypeOK, KernelType, kernelVars
  <1>2. UNCHANGED <<dirVars, logVars>> => FileType'
    BY Zenon DEF TypeOK, FileType, dirVars, logVars
  <1>3. UNCHANGED <<fd, mem, hist, dirty, added>> => SetType'
    BY Zenon DEF TypeOK, SetType
  <1>4. UNCHANGED buf => BufType'
    BY Zenon DEF TypeOK, BufType
  <1>5. UNCHANGED itemVars => ItemType'
    BY Zenon DEF TypeOK, ItemType, itemVars
  <1> QED
    BY <1>1, <1>2, <1>3, <1>4, <1>5, Zenon DEF memVars

(* A new content of one buffer.                                            *)
LEMMA BufUpdate ==
  ASSUME TypeOK, NEW n \in Names, NEW b \in Seq(Digests), Len(b) <= BufCap, buf' = [buf EXCEPT ![n] = b]
  PROVE  BufType'
  BY Zenon DEF TypeOK, BufType

(* An empty buffer fits.                                                   *)
LEMMA NoBuffer == <<>> \in Seq(Digests) /\ Len(<<>>) <= BufCap
  BY ConstantAssumption

(* The filter a handler works on, and the digest it adds.                  *)
LEMMA DataCur ==
  ASSUME TypeOK, ControlInv, pc \in DataPcs
  PROVE  /\ cur \in Names /\ cur \in Loaded /\ fd[cur] \in Maps /\ HasData(mem[cur])
         /\ pin[cur] \in {NoMap, fd[cur]} /\ log[cur] \in LogFile /\ buf[cur] \in Seq(Digests)
         /\ pc # "drop_log" => meta[cur] = mem[cur]
  BY Zenon DEF TypeOK, SetType, FileType, BufType, ControlInv, PcInv, SetInv, Loaded, DataPcs

(* While an item is being added there is one.                              *)
LEMMA ItemHead ==
  ASSUME TypeOK, ControlInv, pc \in ItemPcs
  PROVE  Head(items) \in Digests /\ Tail(items) \in Seq(Digests) /\ items # <<>>
  BY DEF TypeOK, ItemType, ControlInv, AddInv

(* bloomd_meta_write_atomic writes one of the states of the metadata.      *)
LEMMA MetaWriteType ==
  ASSUME TypeOK, NEW n \in Names, NEW s \in MetaStates, MetaWrite(n, s)
  PROVE  /\ meta' \in [Names -> MetaStates] /\ smeta' \in [Names -> MetaStates]
         /\ slog' \in [Names -> LogFile \cup {NoFile}]
  <1>1. meta' \in [Names -> MetaStates] /\ smeta' \in [Names -> MetaStates]
    BY Zenon DEF TypeOK, FileType, MetaWrite
  <1>2. SyncedDir(log, slog) \in [Names -> LogFile \cup {NoFile}]
    BY FileConstants, Zenon DEF TypeOK, FileType, SyncedDir
  <1> QED
    BY <1>2, Zenon DEF MetaWrite, TypeOK, FileType

(* bloomd_update_filter_meta_state changes metadata and memory within      *)
(* their types.                                                            *)
LEMMA UpdateMetaType ==
  ASSUME TypeOK, NEW n \in Names, NEW s \in MetaStates, UpdateMeta(n, s), UNCHANGED added
  PROVE  FileType' /\ SetType' /\ BufType'
  <1>1. FileType'
    BY MetaWriteType, Zenon DEF UpdateMeta, FileType, TypeOK
  <1>2. SetType'
    BY Zenon DEF UpdateMeta, SetType, TypeOK
  <1> QED
    BY <1>1, <1>2, Kept, Zenon DEF UpdateMeta

(* A filter that leaves the set leaves nothing behind.                     *)
LEMMA ForgetType ==
  ASSUME TypeOK, NEW n \in Names, Forget(n), added' \in [Names -> SUBSET Digests]
  PROVE  SetType' /\ BufType'
  <1>1. SetType'
    BY Zenon DEF Forget, SetType, TypeOK, MetaStates
  <1>2. BufType'
    BY ConstantAssumption DEF Forget, BufType, TypeOK
  <1> QED
    BY <1>1, <1>2, Zenon

(* A flush of the buffer, whether it succeeds or not.                      *)
LEMMA FlushType ==
  ASSUME TypeOK, NEW n \in Names, log[n] \in LogFile, Flush(n) \/ FlushFails(n)
  PROVE  log' \in [Names -> LogFile \cup {NoFile}] /\ BufType'
  <1>1. CASE Flush(n)
    <2>1. Written(log[n], buf[n]) \in LogFile
      BY WrittenType, Zenon DEF TypeOK, BufType
    <2>2. log' \in [Names -> LogFile \cup {NoFile}]
      BY <1>1, <2>1, Zenon DEF Flush, TypeOK, FileType
    <2>3. BufType'
      BY <1>1, ConstantAssumption DEF Flush, TypeOK, BufType
    <2> QED
      BY <2>2, <2>3, Zenon
  <1>2. CASE FlushFails(n)
    <2>1. WriteFailures(log[n], buf[n]) \subseteq LogFile
      BY WriteFailuresType, Zenon DEF TypeOK, BufType
    <2>2. log' \in [Names -> LogFile \cup {NoFile}]
      BY <1>2, <2>1, Zenon DEF FlushFails, TypeOK, FileType
    <2> QED
      BY <1>2, <2>2, Kept, Zenon DEF FlushFails
  <1> QED
    BY <1>1, <1>2, Zenon

(* CREATE keeps the types.                                                 *)
LEMMA CreateTypes ==
  ASSUME TypeOK, ControlInv
  PROVE  (\E n \in Names, p \in Params : CreateBegin(n, p)) \/ Create
           => TypeOK'
  <1>1. ASSUME NEW n \in Names, NEW p \in Params, CreateBegin(n, p) PROVE TypeOK'
    <2>1. KernelType'
      BY <1>1, Zenon DEF CreateBegin, TakeEmptyMap, TypeOK, KernelType
    <2>2. ControlType'
      BY <1>1, Zenon
         DEF CreateBegin, TakeEmptyMap, Goto, procVars, TypeOK, ControlType, Pcs, MakePcs, Fresh
    <2> QED
      BY <1>1, <2>1, <2>2, Kept, Zenon DEF CreateBegin, TakeEmptyMap, Goto, TypeOK
  <1>2. ASSUME CreateMeta PROVE TypeOK'
    <2>1. newmap \in Maps /\ cur \in Names
      BY <1>2, Zenon DEF CreateMeta, TypeOK, ControlType, ControlInv, PcInv, NewPcs, MakePcs
    <2>2. FileType'
      <3>1. par' \in [Names -> Params]
        BY <1>2, <2>1, ConstantAssumption, Zenon DEF CreateMeta, TypeOK, FileType
      <3> QED
        BY <1>2, <3>1, MetaWriteType DEF CreateMeta, TypeOK, FileType, MetaStates
    <2>3. SetType' /\ BufType'
      BY <1>2, Kept, Zenon DEF CreateMeta, TypeOK, SetType, memVars
    <2>4. ControlType'
      BY <1>2, Zenon DEF CreateMeta, Goto, procVars, loadVars, TypeOK, ControlType, Pcs, MakePcs
    <2> QED
      BY <1>2, <2>2, <2>3, <2>4, Kept, Zenon DEF CreateMeta, Goto, TypeOK
  <1>3. ASSUME CreateMetaFails PROVE TypeOK'
    <2>1. ControlType'
      BY <1>3, ReturnType, Zenon DEF CreateMetaFails, procVars, TypeOK, ControlType
    <2> QED
      BY <1>3, <2>1, Kept, ReturnType, Zenon DEF CreateMetaFails, TypeOK
  <1>4. ASSUME CreateAdd PROVE TypeOK'
    <2>1. SetType'
      BY <1>4, Zenon DEF CreateAdd, TypeOK, SetType, ControlType, MetaStates
    <2>2. ControlType'
      BY <1>4, ReturnType, Zenon DEF CreateAdd, procVars, TypeOK, ControlType
    <2> QED
      BY <1>4, <2>1, <2>2, Kept, ReturnType, Zenon DEF CreateAdd, TypeOK
  <1>5. ASSUME CreateAddFails PROVE TypeOK'
    <2>1. KernelType' /\ FileType'
      BY <1>5, Zenon DEF CreateAddFails, TypeOK, KernelType, FileType, MetaStates
    <2>2. ControlType'
      BY <1>5, ReturnType, Zenon DEF CreateAddFails, procVars, TypeOK, ControlType
    <2> QED
      BY <1>5, <2>1, <2>2, Kept, ReturnType, Zenon DEF CreateAddFails, TypeOK
  <1> QED
    BY <1>1, <1>2, <1>3, <1>4, <1>5, Zenon DEF Create

(* The first half of ADD and MADD, up to the first item, keeps the types.  *)
LEMMA EnsureTypes ==
  ASSUME TypeOK, ControlInv
  PROVE  (\E n \in Names, batch \in Batches : AddBegin(n, batch)) \/ EnsurePin \/ EnsureLog \/ EnsureMeta
           \/ EnsureUndoLog \/ EnsureUndoPin \/ MarkDirty
           => TypeOK'
  <1>1. ASSUME NEW n \in Names, NEW batch \in Batches, AddBegin(n, batch) PROVE TypeOK'
    <2>1. ItemType'
      BY <1>1, BatchType, Zenon DEF AddBegin, TypeOK, ItemType
    <2>2. ControlType'
      BY <1>1, Zenon
         DEF AddBegin, AfterDurable, procVars, loadVars, TypeOK, ControlType, Pcs, AddPcs
    <2> QED
      BY <1>1, <2>1, <2>2, Kept, Zenon DEF AddBegin, TypeOK
  <1>2. ASSUME EnsurePin PROVE TypeOK'
    <2>1. KernelType'
      BY <1>2, Zenon DEF EnsurePin, TypeOK, KernelType, SetType
    <2>2. ControlType' /\ ItemType'
      BY <1>2, ReturnType, Kept, ZenonT(60)
         DEF EnsurePin, Goto, procVars, loadVars, TypeOK, ControlType, Pcs, AddPcs
    <2> QED
      BY <1>2, <2>1, <2>2, Kept, Zenon DEF EnsurePin, TypeOK
  <1>3. ASSUME EnsureLog PROVE TypeOK'
    <2>1. FileType'
      BY <1>3, FileConstants, ZenonT(30) DEF EnsureLog, TypeOK, FileType, dirVars, logVars
    <2>2. SetType'
      BY <1>3, Zenon DEF EnsureLog, TypeOK, SetType, ControlType
    <2>3. BufType'
      BY <1>3, BufUpdate, NoBuffer, Kept, Zenon DEF EnsureLog, TypeOK, ControlType
    <2>4. ControlType' /\ ItemType'
      BY <1>3, Kept, Zenon DEF EnsureLog, Goto, procVars, loadVars, TypeOK, ControlType, Pcs, AddPcs
    <2> QED
      BY <1>3, <2>1, <2>2, <2>3, <2>4, Kept, Zenon DEF EnsureLog, TypeOK
  <1>4. ASSUME EnsureMeta PROVE TypeOK'
    <2>1. FileType' /\ SetType' /\ BufType'
      BY <1>4, UpdateMetaType, Kept, Zenon DEF EnsureMeta, TypeOK, ControlType, MetaStates
    <2>2. ControlType' /\ ItemType'
      BY <1>4, Kept, Zenon
         DEF EnsureMeta, Goto, AfterDurable, procVars, loadVars, TypeOK, ControlType, Pcs, AddPcs
    <2> QED
      BY <1>4, <2>1, <2>2, Kept, Zenon DEF EnsureMeta, TypeOK
  <1>5. ASSUME EnsureUndoLog PROVE TypeOK'
    <2>1. FileType'
      BY <1>5, Zenon DEF EnsureUndoLog, TypeOK, FileType, dirVars
    <2>2. ControlType' /\ ItemType'
      BY <1>5, Kept, Zenon
         DEF EnsureUndoLog, Goto, procVars, loadVars, TypeOK, ControlType, Pcs, AddPcs
    <2> QED
      BY <1>5, <2>1, <2>2, Kept, Zenon DEF EnsureUndoLog, TypeOK
  <1>6. ASSUME EnsureUndoPin PROVE TypeOK'
    <2>1. KernelType'
      BY <1>6, Zenon DEF EnsureUndoPin, TypeOK, KernelType
    <2>2. ControlType' /\ ItemType'
      BY <1>6, ReturnType, Zenon DEF EnsureUndoPin, procVars, loadVars, TypeOK, ControlType
    <2> QED
      BY <1>6, <2>1, <2>2, Kept, Zenon DEF EnsureUndoPin, TypeOK
  <1>7. ASSUME MarkDirty PROVE TypeOK'
    <2>1. FileType' /\ SetType' /\ BufType'
      BY <1>7, UpdateMetaType, Kept, Zenon DEF MarkDirty, TypeOK, ControlType, MetaStates
    <2>2. ItemType'
      BY <1>7, ReturnType, Zenon DEF MarkDirty, TypeOK, ItemType, Pcs, AddPcs
    <2>3. ControlType'
      BY <1>7, ReturnType, Zenon DEF MarkDirty, procVars, loadVars, TypeOK, ControlType, Pcs, AddPcs
    <2> QED
      BY <1>7, <2>1, <2>2, <2>3, Kept, Zenon DEF MarkDirty, TypeOK
  <1> QED
    BY <1>1, <1>2, <1>3, <1>4, <1>5, <1>6, <1>7, Zenon

(* Staging, adding and rolling back a digest keep the types, and the       *)
(* buffer within its capacity.                                             *)
LEMMA StageTypes ==
  ASSUME TypeOK, ControlInv
  PROVE  StageDigest \/ StageWrite \/ StageFsync \/ BpfAdd \/ BpfAddFails \/ RollbackTruncate \/ RestoreClean
           => TypeOK'
  <1>1. ASSUME StageDigest PROVE TypeOK'
    <2>1. cur \in Names /\ fd[cur] \in Maps /\ log[cur] \in LogFile
      BY <1>1, DataCur, Zenon DEF StageDigest, DataPcs, EnsurePcs, AddPcs
    <2>2. Head(items) \in Digests
      BY <1>1, ItemHead, Zenon DEF StageDigest, ItemPcs
    <2>3. Written(log[cur], buf[cur]) \in LogFile /\ WriteFailures(log[cur], buf[cur]) \subseteq LogFile
      BY <2>1, WrittenType, WriteFailuresType, Zenon DEF TypeOK, BufType
    <2>4. FileType'
      BY <1>1, <2>3, Zenon DEF StageDigest, FlushFails, TypeOK, FileType, dirVars
    <2>5. BufType'
      <3>1. /\ <<Head(items)>> \in Seq(Digests) /\ Len(<<Head(items)>>) <= BufCap
            /\ Append(buf[cur], Head(items)) \in Seq(Digests)
            /\ Len(buf[cur]) # BufCap => Len(Append(buf[cur], Head(items))) <= BufCap
        BY <2>1, <2>2, ConstantAssumption DEF TypeOK, BufType
      <3> QED
        BY <1>1, <2>1, <3>1, BufUpdate, Kept, Zenon DEF StageDigest, FlushFails
    <2>6. ItemType'
      <3>1. CASE Abort
        BY <3>1, AbortType, Zenon DEF TypeOK
      <3>2. CASE stage' = [buf |-> buf[cur], dirty |-> dirty[cur], file |-> log[cur]] /\ UNCHANGED <<items, marked, any>>
        <4>1. buf[cur] \in Seq(Digests) /\ Len(buf[cur]) <= BufCap /\ dirty[cur] \in BOOLEAN
          BY <2>1, Zenon DEF TypeOK, BufType, SetType
        <4>2. stage' \in [buf : Seq(Digests), dirty : BOOLEAN, file : LogFile \cup {NoFile}]
          BY <2>1, <3>2, <4>1, Zenon
        <4>3. Len(stage'.buf) <= BufCap
          BY <3>2, <4>1, Zenon
        <4> QED
          BY <3>2, <4>2, <4>3, Zenon DEF TypeOK, ItemType
      <3> QED
        BY <1>1, <3>1, <3>2, Zenon DEF StageDigest
    <2>7. ControlType'
      BY <1>1, AbortType, Zenon
         DEF StageDigest, procVars, loadVars, TypeOK, ControlType, Pcs, AddPcs
    <2> QED
      BY <1>1, <2>4, <2>5, <2>6, <2>7, Kept, Zenon DEF StageDigest, TypeOK
  <1>2. ASSUME StageWrite PROVE TypeOK'
    <2>1. cur \in Names /\ fd[cur] \in Maps /\ log[cur] \in LogFile
      BY <1>2, DataCur, Zenon DEF StageWrite, DataPcs, EnsurePcs, AddPcs
    <2>2. FileType' /\ BufType'
      BY <1>2, <2>1, FlushType, Zenon DEF StageWrite, TypeOK, FileType, dirVars
    <2>3. ControlType' /\ ItemType'
      BY <1>2, AbortType, Kept, Zenon
         DEF StageWrite, Goto, procVars, loadVars, TypeOK, ControlType, Pcs, AddPcs
    <2> QED
      BY <1>2, <2>2, <2>3, Kept, Zenon DEF StageWrite, TypeOK
  <1>3. ASSUME StageFsync PROVE TypeOK'
    <2>1. cur \in Names /\ fd[cur] \in Maps /\ log[cur] \in LogFile
      BY <1>3, DataCur, Zenon DEF StageFsync, DataPcs, EnsurePcs, AddPcs
    <2>2. FileType'
      BY <1>3, Zenon DEF StageFsync, Fsync, TypeOK, FileType, dirVars
    <2>3. ControlType' /\ ItemType'
      BY <1>3, AbortType, Kept, Zenon
         DEF StageFsync, Goto, procVars, loadVars, TypeOK, ControlType, Pcs, AddPcs
    <2> QED
      BY <1>3, <2>2, <2>3, Kept, Zenon DEF StageFsync, TypeOK
  <1>4. ASSUME BpfAdd PROVE TypeOK'
    <2>1. cur \in Names /\ fd[cur] \in Maps /\ log[cur] \in LogFile
      BY <1>4, DataCur, Zenon DEF BpfAdd, DataPcs, EnsurePcs, AddPcs
    <2>2. Head(items) \in Digests /\ Tail(items) \in Seq(Digests)
      BY <1>4, ItemHead, Zenon DEF BpfAdd, ItemPcs
    <2>3. KernelType'
      BY <1>4, <2>1, <2>2, Zenon DEF BpfAdd, TypeOK, KernelType
    <2>4. SetType'
      BY <1>4, <2>1, <2>2, Zenon DEF BpfAdd, TypeOK, SetType
    <2>5. ItemType'
      <3>1. CASE Tail(items) = <<>>
        BY <1>4, <3>1, ReturnType, Zenon DEF BpfAdd
      <3>2. CASE Tail(items) # <<>>
        <4>1. stage' \in [buf : Seq(Digests), dirty : BOOLEAN, file : LogFile \cup {NoFile}]
          BY <1>4, <3>2, StageNone, Zenon DEF BpfAdd
        <4>2. Len(stage'.buf) <= BufCap
          BY <1>4, <3>2, StageNone, Zenon DEF BpfAdd
        <4> QED
          BY <1>4, <2>2, <3>2, <4>1, <4>2, Zenon DEF BpfAdd, TypeOK, ItemType
      <3> QED
        BY <3>1, <3>2, Zenon
    <2>6. ControlType'
      BY <1>4, ReturnType, Zenon DEF BpfAdd, procVars, loadVars, TypeOK, ControlType, Pcs, AddPcs
    <2> QED
      BY <1>4, <2>3, <2>4, <2>5, <2>6, Kept, Zenon DEF BpfAdd, TypeOK
  <1>5. ASSUME BpfAddFails PROVE TypeOK'
    <2>1. cur \in Names /\ fd[cur] \in Maps /\ log[cur] \in LogFile
      BY <1>5, DataCur, Zenon DEF BpfAddFails, DataPcs, EnsurePcs, AddPcs
    <2>2. SetType'
      BY <1>5, Zenon DEF BpfAddFails, TypeOK, SetType, ItemType
    <2>3. BufType'
      BY <1>5, <2>1, BufUpdate, NoBuffer, Kept, Zenon DEF BpfAddFails, TypeOK, ItemType
    <2>4. ControlType' /\ ItemType'
      BY <1>5, AbortType, Kept, Zenon
         DEF BpfAddFails, Goto, procVars, loadVars, TypeOK, ControlType, Pcs, AddPcs
    <2> QED
      BY <1>5, <2>2, <2>3, <2>4, Kept, Zenon DEF BpfAddFails, TypeOK
  <1>6. ASSUME RollbackTruncate PROVE TypeOK'
    <2>1. cur \in Names /\ fd[cur] \in Maps /\ log[cur] \in LogFile
      BY <1>6, DataCur, Zenon DEF RollbackTruncate, DataPcs, EnsurePcs, AddPcs
    <2>2. FileType'
      BY <1>6, <2>1, Zenon DEF RollbackTruncate, TypeOK, FileType, ItemType, dirVars, logVars
    <2>3. SetType'
      BY <1>6, <2>1, Zenon DEF RollbackTruncate, TypeOK, SetType
    <2>4. BufType'
      BY <1>6, <2>1, BufUpdate, NoBuffer, Zenon DEF RollbackTruncate
    <2>5. ControlType' /\ ItemType'
      BY <1>6, AbortType, Zenon DEF RollbackTruncate, procVars, loadVars, TypeOK, ControlType
    <2> QED
      BY <1>6, <2>2, <2>3, <2>4, <2>5, Kept, Zenon DEF RollbackTruncate, TypeOK
  <1>7. ASSUME RestoreClean PROVE TypeOK'
    <2>1. cur \in Names /\ fd[cur] \in Maps /\ log[cur] \in LogFile
      BY <1>7, DataCur, Zenon DEF RestoreClean, DataPcs, EnsurePcs, AddPcs
    <2>2. FileType' /\ SetType' /\ BufType'
      BY <1>7, <2>1, UpdateMetaType, Kept, Zenon DEF RestoreClean, MetaStates
    <2>3. ControlType' /\ ItemType'
      BY <1>7, ReturnType, Zenon DEF RestoreClean, procVars, loadVars, TypeOK, ControlType
    <2> QED
      BY <1>7, <2>2, <2>3, Kept, Zenon DEF RestoreClean, TypeOK
  <1> QED
    BY <1>1, <1>2, <1>3, <1>4, <1>5, <1>6, <1>7, Zenon

(* bloomd_sync_dirty_logs keeps the types.                                 *)
LEMMA SyncTypes ==
  ASSUME TypeOK, ControlInv
  PROVE  (\E n \in Names : SyncBegin(n)) \/ Sync
           => TypeOK'
  <1>1. ASSUME NEW n \in Names, SyncBegin(n) PROVE TypeOK'
    <2>1. ControlType'
      BY <1>1, Zenon DEF SyncBegin, Goto, loadVars, TypeOK, ControlType, Pcs, SyncPcs
    <2> QED
      BY <1>1, <2>1, Kept, Zenon DEF SyncBegin, Goto, TypeOK
  <1>2. ASSUME SyncWrite PROVE TypeOK'
    <2>1. cur \in Names /\ log[cur] \in LogFile
      BY <1>2, DataCur, Zenon DEF SyncWrite, DataPcs, SyncPcs
    <2>2. FileType' /\ BufType'
      BY <1>2, <2>1, FlushType, Zenon DEF SyncWrite, TypeOK, FileType, dirVars
    <2>3. ControlType' /\ ItemType'
      BY <1>2, ReturnType, Kept, Zenon
         DEF SyncWrite, Goto, procVars, loadVars, TypeOK, ControlType, Pcs, SyncPcs
    <2> QED
      BY <1>2, <2>2, <2>3, Kept, Zenon DEF SyncWrite, TypeOK
  <1>3. ASSUME SyncFsync PROVE TypeOK'
    <2>1. cur \in Names /\ log[cur] \in LogFile
      BY <1>3, DataCur, Zenon DEF SyncFsync, DataPcs, SyncPcs
    <2>2. FileType'
      BY <1>3, ZenonT(60) DEF SyncFsync, Fsync, TypeOK, FileType, dirVars
    <2>3. SetType'
      BY <1>3, <2>1, Zenon DEF SyncFsync, TypeOK, SetType
    <2>4. ControlType' /\ ItemType'
      BY <1>3, ReturnType, Kept, Zenon
         DEF SyncFsync, Goto, procVars, loadVars, TypeOK, ControlType, Pcs, SyncPcs
    <2> QED
      BY <1>3, <2>2, <2>3, <2>4, Kept, Zenon DEF SyncFsync, TypeOK
  <1>4. ASSUME SyncMeta PROVE TypeOK'
    <2>1. FileType' /\ SetType' /\ BufType'
      BY <1>4, UpdateMetaType, Kept, Zenon DEF SyncMeta, TypeOK, ControlType, MetaStates
    <2>2. ControlType' /\ ItemType'
      BY <1>4, ReturnType, Zenon DEF SyncMeta, procVars, loadVars, TypeOK, ControlType
    <2> QED
      BY <1>4, <2>1, <2>2, Kept, Zenon DEF SyncMeta, TypeOK
  <1> QED
    BY <1>1, <1>2, <1>3, <1>4, Zenon DEF Sync

(* DROP keeps the types.                                                   *)
LEMMA DropTypes ==
  ASSUME TypeOK, ControlInv
  PROVE  (\E n \in Names : DropBegin(n)) \/ Drop
           => TypeOK'
  <1>1. cur \in Names
    BY Zenon DEF TypeOK, ControlType
  <1>2. ASSUME NEW n \in Names, DropBegin(n) PROVE TypeOK'
    <2>1. ControlType'
      BY <1>2, Zenon DEF DropBegin, Goto, procVars, loadVars, TypeOK, ControlType, Pcs, DropPcs
    <2> QED
      BY <1>2, <2>1, Kept, Zenon DEF DropBegin, Goto, TypeOK
  <1>3. ASSUME DropUnpin PROVE TypeOK'
    <2>1. KernelType'
      BY <1>3, Zenon DEF DropUnpin, TypeOK, KernelType
    <2>2. ControlType' /\ ItemType'
      BY <1>3, ReturnType, Kept, Zenon
         DEF DropUnpin, Goto, procVars, loadVars, TypeOK, ControlType, Pcs, DropPcs
    <2> QED
      BY <1>3, <2>1, <2>2, Kept, Zenon DEF DropUnpin, TypeOK
  <1>4. ASSUME DropMeta PROVE TypeOK'
    <2>1. FileType'
      BY <1>4, Zenon DEF DropMeta, TypeOK, FileType, MetaStates, logVars
    <2>2. added' \in [Names -> SUBSET Digests]
      BY <1>4, ZenonT(60) DEF DropMeta, TypeOK, SetType, Pcs, DropPcs
    <2>3. SetType' /\ BufType'
      BY <1>4, <2>2, ForgetType, Kept DEF DropMeta, TypeOK, SetType, memVars
    <2>4. fd[cur] \in Maps \cup {NoMap}
      BY <1>1, Zenon DEF TypeOK, SetType
    <2>5. ControlType' /\ ItemType'
      BY <1>4, <2>4, ReturnType, Kept, Zenon
         DEF DropMeta, Goto, procVars, loadVars, TypeOK, ControlType, Pcs, DropPcs
    <2> QED
      BY <1>4, <2>1, <2>3, <2>5, Kept, Zenon DEF DropMeta, TypeOK
  <1>5. ASSUME DropMetaFails PROVE TypeOK'
    <2>1. ControlType' /\ ItemType'
      BY <1>5, ReturnType, Kept, Zenon
         DEF DropMetaFails, Goto, procVars, loadVars, TypeOK, ControlType, Pcs, DropPcs
    <2> QED
      BY <1>5, <2>1, Kept, Zenon DEF DropMetaFails, TypeOK
  <1>6. ASSUME DropRepin PROVE TypeOK'
    <2>1. KernelType'
      BY <1>6, Zenon DEF DropRepin, TypeOK, KernelType, SetType
    <2>2. ControlType' /\ ItemType'
      BY <1>6, ReturnType, Zenon DEF DropRepin, procVars, loadVars, TypeOK, ControlType
    <2> QED
      BY <1>6, <2>1, <2>2, Kept, Zenon DEF DropRepin, TypeOK
  <1>7. ASSUME DropLog PROVE TypeOK'
    <2>1. log[cur] \in LogFile
      BY <1>7, DataCur, Zenon DEF DropLog, DataPcs, DropPcs
    <2>2. Written(log[cur], buf[cur]) \in LogFile /\ WriteFailures(log[cur], buf[cur]) \subseteq LogFile
      BY <1>1, <2>1, WrittenType, WriteFailuresType, Zenon DEF TypeOK, BufType
    <2>3. FileType'
      BY <1>7, <2>2, Zenon DEF DropLog, TypeOK, FileType, dirVars
    <2>4. SetType' /\ BufType'
      BY <1>1, <1>7, ForgetType, Zenon DEF DropLog, TypeOK, SetType
    <2>5. ControlType' /\ ItemType'
      BY <1>7, ReturnType, Zenon DEF DropLog, procVars, loadVars, TypeOK, ControlType
    <2> QED
      BY <1>7, <2>3, <2>4, <2>5, Kept, Zenon DEF DropLog, TypeOK
  <1> QED
    BY <1>2, <1>3, <1>4, <1>5, <1>6, <1>7, Zenon DEF Drop

(* A start of the daemon keeps the types.                                  *)
LEMMA LoadTypes ==
  ASSUME TypeOK, ControlInv
  PROVE  Start \/ Load
           => TypeOK'
  <1>1. cur \in Names
    BY Zenon DEF TypeOK, ControlType
  <1>2. ASSUME Start PROVE TypeOK'
    <2>1. ControlType'
      BY <1>2, Zenon DEF Start, Goto, loadVars, TypeOK, ControlType, Pcs, LoadPcs
    <2> QED
      BY <1>2, <2>1, Kept, Zenon DEF Start, Goto, TypeOK
  <1>3. ASSUME NEW n \in Names, LoadPinned(n) PROVE TypeOK'
    <2>1. ControlType'
      BY <1>3, Zenon DEF LoadPinned, Entry, Goto, TypeOK, ControlType, KernelType, Pcs, LoadPcs
    <2> QED
      BY <1>3, <2>1, Kept, Zenon DEF LoadPinned, Goto, TypeOK
  <1>4. ASSUME NEW n \in Names, LoadEmpty(n) PROVE TypeOK'
    <2>1. KernelType'
      BY <1>4, Zenon DEF LoadEmpty, Fresh, TypeOK, KernelType
    <2>2. ControlType'
      BY <1>4, Zenon DEF LoadEmpty, Entry, Goto, Fresh, TypeOK, ControlType, Pcs, LoadPcs
    <2> QED
      BY <1>4, <2>1, <2>2, Kept, Zenon DEF LoadEmpty, Goto, TypeOK
  <1>5. ASSUME NEW n \in Names, LoadReplay(n) PROVE TypeOK'
    <2>1. log[n] \in LogFile
      BY <1>5, Zenon DEF LoadReplay, TypeOK, FileType
    <2>2. KernelType'
      BY <1>5, <2>1, Zenon DEF LoadReplay, Fresh, TypeOK, KernelType, LogFile
    <2>3. FileType'
      <3>1. [log[n] EXCEPT !.off = 0] \in LogFile
        BY <2>1, ConstantAssumption DEF LogFile
      <3>2. log' = [log EXCEPT ![n] = [log[n] EXCEPT !.off = 0]]
        BY <1>5, Zenon DEF LoadReplay
      <3> QED
        BY <1>5, <3>1, Zenon DEF LoadReplay, TypeOK, FileType, dirVars
    <2>4. ControlType'
      BY <1>5, Zenon DEF LoadReplay, Entry, Goto, Fresh, TypeOK, ControlType, Pcs, LoadPcs
    <2> QED
      BY <1>5, <2>2, <2>3, <2>4, Kept, Zenon DEF LoadReplay, Goto, TypeOK
  <1>6. ASSUME NEW n \in Names, LoadStale(n) PROVE TypeOK'
    <2>1. FileType'
      BY <1>6, Zenon DEF LoadStale, RecoverStale, TypeOK, FileType, MetaStates, logVars
    <2>2. ControlType'
      BY <1>6, Zenon
         DEF LoadStale, RecoverStale, Entry, Goto, loadVars, TypeOK, ControlType, Pcs, LoadPcs
    <2> QED
      BY <1>6, <2>1, <2>2, Kept, Zenon DEF LoadStale, RecoverStale, Goto, TypeOK
  <1>7. ASSUME NEW n \in Names, LoadUnreadable(n) PROVE TypeOK'
    <2>1. FileType'
      BY <1>7, Zenon DEF LoadUnreadable, RecoverStale, TypeOK, FileType, MetaStates, logVars
    <2>2. ControlType'
      BY <1>7, Zenon
         DEF LoadUnreadable, RecoverStale, Entry, Goto, loadVars, TypeOK, ControlType, Pcs, LoadPcs
    <2> QED
      BY <1>7, <2>1, <2>2, Kept, Zenon DEF LoadUnreadable, RecoverStale, Goto, TypeOK
  <1>8. ASSUME NEW n \in Names, LoadRefuse(n) PROVE TypeOK'
    <2>1. ControlType'
      BY <1>8, Zenon DEF LoadRefuse, Entry, Goto, loadVars, TypeOK, ControlType, Pcs, LoadPcs
    <2> QED
      BY <1>8, <2>1, Kept, Zenon DEF LoadRefuse, Goto, TypeOK
  <1>9. ASSUME LoadPin PROVE TypeOK'
    <2>1. KernelType'
      BY <1>9, Zenon DEF LoadPin, TypeOK, KernelType, ControlType
    <2>2. ControlType'
      BY <1>9, Zenon DEF LoadPin, Goto, procVars, TypeOK, ControlType, Pcs, LoadPcs
    <2> QED
      BY <1>9, <2>1, <2>2, Kept, Zenon DEF LoadPin, Goto, TypeOK
  <1>10. ASSUME LoadPublish PROVE TypeOK'
    <2>1. FileType'
      BY <1>10, FileConstants, Zenon DEF LoadPublish, TypeOK, FileType, dirVars
    <2>2. SetType'
      BY <1>1, <1>10, Zenon DEF LoadPublish, TypeOK, SetType, FileType, ControlType
    <2>3. ControlType'
      BY <1>10, Zenon DEF LoadPublish, Goto, procVars, TypeOK, ControlType, Pcs, LoadPcs
    <2> QED
      BY <1>10, <2>1, <2>2, <2>3, Kept, Zenon DEF LoadPublish, Goto, TypeOK
  <1>11. ASSUME LoadFails PROVE TypeOK'
    <2>1. KernelType'
      BY <1>11, Zenon DEF LoadFails, TypeOK, KernelType
    <2>2. ControlType'
      BY <1>11, Zenon DEF LoadFails, Goto, TypeOK, ControlType, Pcs, LoadPcs
    <2> QED
      BY <1>11, <2>1, <2>2, Kept, Zenon DEF LoadFails, Goto, TypeOK
  <1>12. ASSUME LoadDone PROVE TypeOK'
    <2>1. ControlType'
      BY <1>12, Zenon DEF LoadDone, Goto, procVars, loadVars, TypeOK, ControlType, Pcs, LoadPcs
    <2> QED
      BY <1>12, <2>1, Kept, Zenon DEF LoadDone, Goto, TypeOK
  <1>13. ASSUME CleanupOrphanPins PROVE TypeOK'
    <2>1. KernelType'
      BY <1>13, Zenon DEF CleanupOrphanPins, TypeOK, KernelType
    <2>2. ControlType'
      BY <1>13, Zenon
         DEF CleanupOrphanPins, Goto, procVars, loadVars, TypeOK, ControlType, Pcs, LoadPcs
    <2> QED
      BY <1>13, <2>1, <2>2, Kept, Zenon DEF CleanupOrphanPins, Goto, TypeOK
  <1>14. ASSUME Listen PROVE TypeOK'
    <2>1. ControlType' /\ ItemType'
      BY <1>14, ReturnType, Zenon DEF Listen, procVars, loadVars, TypeOK, ControlType, Pcs, LoadPcs
    <2> QED
      BY <1>14, <2>1, Kept, Zenon DEF Listen, TypeOK
  <1> QED
    BY <1>2, <1>3, <1>4, <1>5, <1>6, <1>7, <1>8, <1>9, <1>10, <1>11, <1>12, <1>13, <1>14, Zenon
       DEF Load

(* The kernel frees maps.                                                  *)
LEMMA ReclaimType ==
  ASSUME TypeOK, Reclaim PROVE bits' \in [Maps -> SUBSET Digests]
  BY Zenon DEF TypeOK, KernelType, Reclaim

(* A process that is gone has an empty set and no locals.                  *)
LEMMA ProcessGoneType ==
  ASSUME TypeOK, ProcessGone, UNCHANGED added
  PROVE  SetType' /\ BufType' /\ ItemType' /\ ControlType'
  <1>1. SetType'
    BY Zenon DEF ProcessGone, TypeOK, SetType, MetaStates
  <1>2. BufType'
    BY NoBuffer, Zenon DEF ProcessGone, BufType
  <1>3. ItemType'
    BY StageNone, NoBuffer, Zenon DEF ProcessGone, ItemType
  <1>4. ControlType'
    BY Zenon DEF ProcessGone, TypeOK, ControlType, Pcs
  <1> QED
    BY <1>1, <1>2, <1>3, <1>4, Zenon

(* Stops, kills, host crashes and vanishing pins keep the types.           *)
LEMMA EndTypes ==
  ASSUME TypeOK, ControlInv
  PROVE  Stop \/ Shutdown \/ Kill \/ HostCrash \/ (\E n \in Names : PinRemoved(n))
           => TypeOK'
  <1>1. ASSUME Stop PROVE TypeOK'
    <2>1. ControlType'
      BY <1>1, Zenon DEF Stop, loadVars, TypeOK, ControlType, Pcs
    <2> QED
      BY <1>1, <2>1, Kept, Zenon DEF Stop, TypeOK
  <1>2. ASSUME StopSynced PROVE TypeOK'
    <2>1. ControlType'
      BY <1>2, Zenon DEF StopSynced, Goto, procVars, loadVars, TypeOK, ControlType, Pcs
    <2> QED
      BY <1>2, <2>1, Kept, Zenon DEF StopSynced, Goto, TypeOK
  <1>3. ASSUME NEW n \in Names, FreeFilter(n) PROVE TypeOK'
    <2>1. FileType'
      <3>1. CASE HasData(mem[n])
        <4>1. log[n] \in LogFile
          BY <1>3, <3>1, Zenon DEF FreeFilter, TypeOK, FileType, ControlInv, SetInv, Pcs
        <4>2. Written(log[n], buf[n]) \in LogFile /\ WriteFailures(log[n], buf[n]) \subseteq LogFile
          BY <4>1, WrittenType, WriteFailuresType, Zenon DEF TypeOK, BufType, Pcs
        <4>3. log' \in [Names -> LogFile \cup {NoFile}]
          BY <1>3, <3>1, <4>2, Zenon DEF FreeFilter, TypeOK, FileType, Pcs
        <4>4. slog' \in [Names -> LogFile \cup {NoFile}]
          BY <1>3, <3>1, <4>3, Zenon DEF FreeFilter, TypeOK, FileType, Pcs
        <4> QED
          BY <1>3, <4>3, <4>4, Zenon DEF FreeFilter, TypeOK, FileType, dirVars
      <3>2. CASE ~HasData(mem[n])
        BY <1>3, <3>2, Kept, Zenon DEF FreeFilter, Pcs
      <3> QED
        BY <3>1, <3>2, Zenon DEF Pcs
    <2>2. SetType' /\ BufType'
      BY <1>3, ForgetType, Zenon DEF FreeFilter, TypeOK, SetType
    <2>3. ControlType'
      BY <1>3, Zenon DEF FreeFilter, Goto, procVars, loadVars, TypeOK, ControlType, Pcs
    <2> QED
      BY <1>3, <2>1, <2>2, <2>3, Kept, Zenon DEF FreeFilter, Goto, TypeOK
  <1>4. ASSUME Exit PROVE TypeOK'
    <2>1. KernelType'
      BY <1>4, ReclaimType, Zenon DEF Exit, TypeOK, KernelType
    <2>2. ControlType'
      BY <1>4, Zenon DEF Exit, Goto, loadVars, TypeOK, ControlType, Pcs
    <2> QED
      BY <1>4, <2>1, <2>2, Kept, Zenon DEF Exit, Goto, TypeOK
  <1>5. ASSUME Kill PROVE TypeOK'
    <2>1. KernelType'
      BY <1>5, ReclaimType, Zenon DEF Kill, TypeOK, KernelType
    <2> QED
      BY <1>5, <2>1, ProcessGoneType, Kept, Zenon DEF Kill, TypeOK
  <1>6. ASSUME HostCrash PROVE TypeOK'
    <2>1. KernelType'
      BY <1>6, Zenon DEF HostCrash, KernelType
    <2>2. FileType'
      BY <1>6, Zenon DEF HostCrash, TypeOK, FileType
    <2> QED
      BY <1>6, <2>1, <2>2, ProcessGoneType, Zenon DEF HostCrash, TypeOK
  <1>7. ASSUME NEW n \in Names, PinRemoved(n) PROVE TypeOK'
    <2>1. KernelType'
      BY <1>7, Zenon DEF PinRemoved, TypeOK, KernelType
    <2>2. ControlType'
      BY <1>7, Zenon DEF PinRemoved, procVars, loadVars, TypeOK, ControlType, Pcs
    <2> QED
      BY <1>7, <2>1, <2>2, Kept, Zenon DEF PinRemoved, TypeOK
  <1> QED
    BY <1>1, <1>2, <1>3, <1>4, <1>5, <1>6, <1>7, Zenon DEF Shutdown

(* The types hold when nothing has happened yet.                           *)
LEMMA InitTypes == ASSUME Init PROVE TypeOK
  <1>1. KernelType
    BY Zenon DEF Init, KernelType
  <1>2. FileType
    BY Zenon DEF Init, FileType, MetaStates
  <1>3. SetType
    BY Zenon DEF Init, SetType, MetaStates
  <1>4. BufType
    BY NoBuffer, Zenon DEF Init, BufType
  <1>5. ItemType
    BY StageNone, NoBuffer, Zenon DEF Init, ItemType
  <1>6. ControlType
    BY Zenon DEF Init, ControlType, Pcs
  <1> QED
    BY <1>1, <1>2, <1>3, <1>4, <1>5, <1>6, Zenon DEF TypeOK

-----------------------------------------------------------------------------
(* ControlInv.                                                             *)

(* CREATE: the new filter joins the set as an empty one, or not at all.    *)
LEMMA CreateControl ==
  ASSUME TypeOK, ControlInv
  PROVE  (\E n \in Names, p \in Params : CreateBegin(n, p)) \/ Create
           => ControlInv'
  <1>1. ASSUME NEW n \in Names, NEW p \in Params, CreateBegin(n, p) PROVE ControlInv'
    <2>1. \A k \in Loaded' : SetInv(k)'
      BY <1>1, Zenon
         DEF CreateBegin, Idle, dirVars, logVars, memVars, procVars, ControlInv, SetInv, Loaded
    <2>2. PcInv'
      BY <1>1, MapNotNone, Zenon
         DEF CreateBegin, TakeEmptyMap, Goto, Fresh, memVars, ControlInv, PcInv, AddPcs, SyncPcs,
             DropPcs, LoadPcs, EnsurePcs, DataPcs, Loaded
    <2>3. AddInv'
      BY <1>1, Zenon
         DEF CreateBegin, Goto, itemVars, Idle, ControlInv, AddInv, EnsurePcs, StagedPcs, ItemPcs
    <2> QED
      BY <2>1, <2>2, <2>3, Zenon DEF ControlInv
  <1>2. ASSUME CreateMeta PROVE ControlInv'
    <2>1. \A k \in Loaded' : SetInv(k)'
      BY <1>2
         DEF CreateMeta, MetaWrite, kernelVars, memVars, procVars, ControlInv, SetInv, PcInv,
             MakePcs, NewPcs, Loaded
    <2>2. PcInv'
      BY <1>2, Zenon
         DEF CreateMeta, Goto, MetaWrite, memVars, loadVars, ControlInv, PcInv, TypeOK, ControlType,
             FileType, AddPcs, SyncPcs, DropPcs, LoadPcs, MakePcs, EnsurePcs, DataPcs, NewPcs,
             Loaded
    <2>3. AddInv'
      BY <1>2, Zenon
         DEF CreateMeta, Goto, itemVars, ControlInv, AddInv, EnsurePcs, StagedPcs, ItemPcs
    <2> QED
      BY <2>1, <2>2, <2>3, Zenon DEF ControlInv
  <1>3. ASSUME CreateMetaFails PROVE ControlInv'
    <2>1. \A k \in Loaded' : SetInv(k)'
      BY <1>3, Zenon
         DEF CreateMetaFails, kernelVars, dirVars, logVars, memVars, procVars, ControlInv, SetInv,
             Loaded
    <2>2. PcInv'
      BY <1>3, Zenon
         DEF CreateMetaFails, Return, memVars, ControlInv, PcInv, AddPcs, SyncPcs, DropPcs, LoadPcs,
             MakePcs, EnsurePcs, DataPcs, NewPcs, Loaded
    <2>3. AddInv'
      BY <1>3, Zenon DEF CreateMetaFails, Return, AddInv, EnsurePcs, StagedPcs, ItemPcs
    <2> QED
      BY <2>1, <2>2, <2>3, Zenon DEF ControlInv
  <1>4. ASSUME CreateAdd PROVE ControlInv'
    <2>1. \A k \in Loaded' : SetInv(k)'
      BY <1>4, ZenonT(60)
         DEF CreateAdd, kernelVars, dirVars, logVars, procVars, ControlInv, SetInv, PcInv, TypeOK,
             SetType, Loaded, HasData
    <2>2. PcInv'
      BY <1>4
         DEF CreateAdd, Return, ControlInv, PcInv, AddPcs, SyncPcs, DropPcs, LoadPcs, MakePcs,
             EnsurePcs, DataPcs, NewPcs, Loaded
    <2>3. AddInv'
      BY <1>4, Zenon DEF CreateAdd, Return, AddInv, EnsurePcs, StagedPcs, ItemPcs
    <2> QED
      BY <2>1, <2>2, <2>3, Zenon DEF ControlInv
  <1>5. ASSUME CreateAddFails PROVE ControlInv'
    <2>1. \A k \in Loaded' : SetInv(k)'
      BY <1>5, ZenonT(60)
         DEF CreateAddFails, memVars, procVars, ControlInv, SetInv, PcInv, TypeOK, FileType,
             KernelType, MakePcs, NewPcs, Loaded
    <2>2. PcInv'
      BY <1>5, Zenon
         DEF CreateAddFails, Return, memVars, ControlInv, PcInv, AddPcs, SyncPcs, DropPcs, LoadPcs,
             MakePcs, EnsurePcs, DataPcs, NewPcs, Loaded
    <2>3. AddInv'
      BY <1>5, Zenon DEF CreateAddFails, Return, AddInv, EnsurePcs, StagedPcs, ItemPcs
    <2> QED
      BY <2>1, <2>2, <2>3, Zenon DEF ControlInv
  <1> QED
    BY <1>1, <1>2, <1>3, <1>4, <1>5, Zenon DEF Create

(* bloomd_ensure_filter_durable and bloomd_mark_filter_log_dirty: pin and  *)
(* log exist before has_data=1, and are taken back when it cannot be       *)
(* written.                                                                *)
LEMMA EnsureControl ==
  ASSUME TypeOK, ControlInv
  PROVE  (\E n \in Names, batch \in Batches : AddBegin(n, batch)) \/ EnsurePin \/ EnsureLog \/ EnsureMeta
           \/ EnsureUndoLog \/ EnsureUndoPin \/ MarkDirty
           => ControlInv'
  <1>1. ASSUME NEW n \in Names, NEW batch \in Batches, AddBegin(n, batch) PROVE ControlInv'
    <2>1. \A k \in Loaded' : SetInv(k)'
      BY <1>1, Zenon
         DEF AddBegin, Idle, kernelVars, dirVars, logVars, memVars, procVars, ControlInv, SetInv,
             Loaded
    <2>2. PcInv'
      BY <1>1, Zenon
         DEF AddBegin, AfterDurable, memVars, MetaStates, ControlInv, SetInv, PcInv, TypeOK,
             SetType, SyncPcs, DropPcs, LoadPcs, MakePcs, EnsurePcs, DataPcs, NewPcs, Loaded,
             HasData
    <2>3. AddInv'
      BY <1>1, BatchType, Zenon
         DEF AddBegin, AfterDurable, Idle, memVars, procVars, ControlInv, AddInv, StagedPcs, HasData
    <2> QED
      BY <2>1, <2>2, <2>3, Zenon DEF ControlInv
  <1>2. ASSUME EnsurePin PROVE ControlInv'
    <2>1. \A k \in Loaded' : SetInv(k)'
      BY <1>2, ZenonT(60)
         DEF EnsurePin, dirVars, logVars, memVars, procVars, ControlInv, SetInv, TypeOK, KernelType,
             Loaded
    <2>2. PcInv'
      BY <1>2, Zenon
         DEF EnsurePin, Return, Goto, memVars, ControlInv, PcInv, AddPcs, SyncPcs, DropPcs, LoadPcs,
             MakePcs, EnsurePcs, DataPcs, NewPcs, Loaded
    <2>3. AddInv'
      BY <1>2
         DEF EnsurePin, Return, Goto, itemVars, memVars, ControlInv, AddInv, TypeOK, KernelType,
             EnsurePcs, StagedPcs, ItemPcs
    <2> QED
      BY <2>1, <2>2, <2>3, Zenon DEF ControlInv
  <1>3. ASSUME EnsureLog PROVE ControlInv'
    <2>1. \A k \in Loaded' : SetInv(k)'
      BY <1>3, ZenonT(60)
         DEF EnsureLog, kernelVars, dirVars, logVars, procVars, ControlInv, SetInv, PcInv, TypeOK,
             FileType, EnsurePcs, Loaded, HasData
    <2>2. PcInv'
      BY <1>3, Zenon
         DEF EnsureLog, Goto, ControlInv, PcInv, TypeOK, SetType, AddPcs, SyncPcs, DropPcs, LoadPcs,
             MakePcs, EnsurePcs, DataPcs, NewPcs, Loaded
    <2>3. AddInv'
      BY <1>3, SMTT(30)
         DEF EnsureLog, Goto, itemVars, kernelVars, ControlInv, AddInv, TypeOK, ControlType,
             FileType, EnsurePcs, StagedPcs, ItemPcs
    <2> QED
      BY <2>1, <2>2, <2>3, Zenon DEF ControlInv
  <1>4. ASSUME EnsureMeta PROVE ControlInv'
    <2>1. \A k \in Loaded' : SetInv(k)'
      BY <1>4, FileConstants
         DEF EnsureMeta, UpdateMeta, MetaWrite, kernelVars, dirVars, logVars, memVars, procVars,
             ControlInv, SetInv, AddInv, TypeOK, SetType, FileType, Loaded
    <2>2. PcInv'
      BY <1>4, ZenonT(60)
         DEF EnsureMeta, Goto, UpdateMeta, AfterDurable, memVars, ControlInv, PcInv, TypeOK,
             SetType, AddPcs, SyncPcs, DropPcs, LoadPcs, MakePcs, EnsurePcs, DataPcs, NewPcs,
             Loaded, HasData
    <2>3. AddInv'
      BY <1>4
         DEF EnsureMeta, Goto, itemVars, UpdateMeta, AfterDurable, procVars, ControlInv, AddInv,
             TypeOK, SetType, ControlType, EnsurePcs, StagedPcs, ItemPcs
    <2> QED
      BY <2>1, <2>2, <2>3, Zenon DEF ControlInv
  <1>5. ASSUME EnsureUndoLog PROVE ControlInv'
    <2>1. \A k \in Loaded' : SetInv(k)'
      BY <1>5, ZenonT(60)
         DEF EnsureUndoLog, kernelVars, dirVars, memVars, procVars, ControlInv, SetInv, PcInv,
             TypeOK, FileType, EnsurePcs, Loaded, HasData
    <2>2. PcInv'
      BY <1>5, Zenon
         DEF EnsureUndoLog, Goto, memVars, ControlInv, PcInv, AddPcs, SyncPcs, DropPcs, LoadPcs,
             MakePcs, EnsurePcs, DataPcs, NewPcs, Loaded
    <2>3. AddInv'
      BY <1>5, Zenon
         DEF EnsureUndoLog, Goto, itemVars, ControlInv, AddInv, EnsurePcs, StagedPcs, ItemPcs
    <2> QED
      BY <2>1, <2>2, <2>3, Zenon DEF ControlInv
  <1>6. ASSUME EnsureUndoPin PROVE ControlInv'
    <2>1. \A k \in Loaded' : SetInv(k)'
      BY <1>6, Zenon
         DEF EnsureUndoPin, dirVars, logVars, memVars, procVars, ControlInv, SetInv, TypeOK,
             KernelType, Loaded
    <2>2. PcInv'
      BY <1>6, Zenon
         DEF EnsureUndoPin, Return, memVars, ControlInv, PcInv, AddPcs, SyncPcs, DropPcs, LoadPcs,
             MakePcs, EnsurePcs, DataPcs, NewPcs, Loaded
    <2>3. AddInv'
      BY <1>6, ZenonT(60) DEF EnsureUndoPin, Return, AddInv, EnsurePcs, StagedPcs, ItemPcs
    <2> QED
      BY <2>1, <2>2, <2>3, Zenon DEF ControlInv
  <1>7. ASSUME MarkDirty PROVE ControlInv'
    <2>1. \A k \in Loaded' : SetInv(k)'
      BY <1>7
         DEF MarkDirty, UpdateMeta, MetaWrite, kernelVars, dirVars, logVars, memVars, procVars,
             ControlInv, SetInv, AddInv, TypeOK, SetType, FileType, Loaded, HasData
    <2>2. PcInv'
      BY <1>7, ZenonT(60)
         DEF MarkDirty, Return, UpdateMeta, memVars, ControlInv, PcInv, TypeOK, SetType, AddPcs,
             LoadPcs, MakePcs, EnsurePcs, DataPcs, NewPcs, Loaded, HasData
    <2>3. AddInv'
      BY <1>7, Zenon
         DEF MarkDirty, Return, UpdateMeta, procVars, ControlInv, AddInv, TypeOK, SetType,
             ControlType, EnsurePcs, StagedPcs, ItemPcs
    <2> QED
      BY <2>1, <2>2, <2>3, Zenon DEF ControlInv
  <1> QED
    BY <1>1, <1>2, <1>3, <1>4, <1>5, <1>6, <1>7, Zenon

(* Staging, adding and rolling back keep what is known of the filter that  *)
(* a digest is added to.                                                   *)
LEMMA StageControl ==
  ASSUME TypeOK, ControlInv
  PROVE  StageDigest \/ StageWrite \/ StageFsync \/ BpfAdd \/ BpfAddFails \/ RollbackTruncate \/ RestoreClean
           => ControlInv'
  <1>1. ASSUME StageDigest PROVE ControlInv'
    <2>1. \A k \in Names : log[k] # NoFile => log'[k] # NoFile
      <3>1. cur \in Names /\ log[cur] \in LogFile /\ buf[cur] \in Seq(Digests)
        BY <1>1, DataCur, Zenon DEF StageDigest, AddPcs, EnsurePcs, DataPcs
      <3>2. Written(log[cur], buf[cur]) # NoFile /\ NoFile \notin WriteFailures(log[cur], buf[cur])
        BY <3>1, WrittenIsFile, Zenon
           DEF AddPcs, SyncPcs, DropPcs, LoadPcs, MakePcs, EnsurePcs, StagedPcs, ItemPcs, DataPcs,
               NewPcs, Loaded, HasData
      <3> QED
        BY <1>1, <3>2, Zenon DEF StageDigest, FlushFails, TypeOK, FileType
    <2>2. \A k \in Loaded' : SetInv(k)'
      BY <1>1, <2>1, Zenon
         DEF StageDigest, kernelVars, dirVars, procVars, ControlInv, SetInv, Loaded
    <2>3. PcInv'
      BY <1>1, ZenonT(60)
         DEF StageDigest, Abort, Return, Goto, ControlInv, PcInv, AddPcs, LoadPcs, MakePcs,
             EnsurePcs, DataPcs, NewPcs, Loaded
    <2>4. AddInv'
      BY <1>1
         DEF StageDigest, Abort, Return, Goto, itemVars, procVars, ControlInv, SetInv, PcInv,
             AddInv, AddPcs, EnsurePcs, StagedPcs, ItemPcs, DataPcs
    <2> QED
      BY <2>2, <2>3, <2>4, Zenon
         DEF ControlInv, AddPcs, SyncPcs, DropPcs, LoadPcs, MakePcs, EnsurePcs, StagedPcs, ItemPcs,
             DataPcs, NewPcs, Loaded, HasData
  <1>2. ASSUME StageWrite PROVE ControlInv'
    <2>1. \A k \in Names : log[k] # NoFile => log'[k] # NoFile
      <3>1. cur \in Names /\ log[cur] \in LogFile /\ buf[cur] \in Seq(Digests)
        BY <1>2, DataCur, Zenon DEF StageWrite, AddPcs, EnsurePcs, DataPcs
      <3>2. Written(log[cur], buf[cur]) # NoFile /\ NoFile \notin WriteFailures(log[cur], buf[cur])
        BY <3>1, WrittenIsFile, Zenon
           DEF AddPcs, SyncPcs, DropPcs, LoadPcs, MakePcs, EnsurePcs, StagedPcs, ItemPcs, DataPcs,
               NewPcs, Loaded, HasData
      <3> QED
        BY <1>2, <3>2, Zenon DEF StageWrite, Flush, FlushFails, TypeOK, FileType
    <2>2. \A k \in Loaded' : SetInv(k)'
      BY <1>2, <2>1, Zenon DEF StageWrite, kernelVars, dirVars, ControlInv, SetInv, AddInv, Loaded
    <2>3. PcInv'
      BY <1>2, Zenon
         DEF StageWrite, Goto, Abort, Return, ControlInv, PcInv, AddPcs, LoadPcs, MakePcs,
             EnsurePcs, DataPcs, NewPcs, Loaded
    <2>4. AddInv'
      BY <1>2
         DEF StageWrite, Goto, itemVars, Abort, Return, procVars, ControlInv, AddInv, EnsurePcs,
             StagedPcs, ItemPcs
    <2> QED
      BY <2>2, <2>3, <2>4, Zenon
         DEF ControlInv, AddPcs, SyncPcs, DropPcs, LoadPcs, MakePcs, EnsurePcs, StagedPcs, ItemPcs,
             DataPcs, NewPcs, Loaded, HasData
  <1>3. ASSUME StageFsync PROVE ControlInv'
    <2>1. \A k \in Loaded' : SetInv(k)'
      BY <1>3, Zenon
         DEF StageFsync, kernelVars, dirVars, memVars, ControlInv, SetInv, AddInv, Loaded
    <2>2. PcInv'
      BY <1>3, Zenon
         DEF StageFsync, Goto, Abort, Return, memVars, ControlInv, PcInv, AddPcs, LoadPcs, MakePcs,
             EnsurePcs, DataPcs, NewPcs, Loaded
    <2>3. AddInv'
      BY <1>3
         DEF StageFsync, Goto, itemVars, Abort, Return, procVars, ControlInv, AddInv, EnsurePcs,
             StagedPcs, ItemPcs
    <2> QED
      BY <2>1, <2>2, <2>3, Zenon DEF ControlInv
  <1>4. ASSUME BpfAdd PROVE ControlInv'
    <2>1. \A k \in Loaded' : SetInv(k)'
      BY <1>4, ZenonT(60) DEF BpfAdd, dirVars, logVars, procVars, ControlInv, SetInv, Loaded
    <2>2. PcInv'
      BY <1>4
         DEF BpfAdd, Return, ControlInv, PcInv, AddPcs, LoadPcs, MakePcs, EnsurePcs, DataPcs,
             NewPcs, Loaded
    <2>3. AddInv'
      BY <1>4, Zenon DEF BpfAdd, Return, procVars, ControlInv, AddInv, EnsurePcs, StagedPcs, ItemPcs
    <2> QED
      BY <2>1, <2>2, <2>3, Zenon DEF ControlInv
  <1>5. ASSUME BpfAddFails PROVE ControlInv'
    <2>1. \A k \in Loaded' : SetInv(k)'
      BY <1>5, Zenon
         DEF BpfAddFails, kernelVars, dirVars, logVars, procVars, ControlInv, SetInv, Loaded
    <2>2. PcInv'
      BY <1>5, Zenon
         DEF BpfAddFails, Goto, Abort, Return, ControlInv, PcInv, TypeOK, SetType, AddPcs, LoadPcs,
             MakePcs, EnsurePcs, DataPcs, NewPcs, Loaded
    <2>3. AddInv'
      BY <1>5, Zenon
         DEF BpfAddFails, Goto, itemVars, Abort, Return, procVars, ControlInv, AddInv, EnsurePcs,
             StagedPcs, ItemPcs
    <2> QED
      BY <2>1, <2>2, <2>3, Zenon DEF ControlInv
  <1>6. ASSUME RollbackTruncate PROVE ControlInv'
    <2>1. \A k \in Loaded' : SetInv(k)'
      BY <1>6, ZenonT(60)
         DEF RollbackTruncate, kernelVars, dirVars, logVars, ControlInv, SetInv, AddInv, TypeOK,
             FileType, StagedPcs, Loaded
    <2>2. PcInv'
      BY <1>6
         DEF RollbackTruncate, Abort, Return, Goto, ControlInv, PcInv, AddPcs, LoadPcs, MakePcs,
             EnsurePcs, DataPcs, NewPcs, Loaded
    <2>3. AddInv'
      BY <1>6, ZenonT(60)
         DEF RollbackTruncate, Abort, Return, ControlInv, AddInv, EnsurePcs, StagedPcs, ItemPcs
    <2> QED
      BY <2>1, <2>2, <2>3, Zenon DEF ControlInv
  <1>7. ASSUME RestoreClean PROVE ControlInv'
    <2>1. \A k \in Loaded' : SetInv(k)'
      BY <1>7
         DEF RestoreClean, UpdateMeta, MetaWrite, kernelVars, dirVars, logVars, memVars, procVars,
             ControlInv, SetInv, AddInv, TypeOK, SetType, FileType, Loaded, HasData
    <2>2. PcInv'
      BY <1>7, Zenon
         DEF RestoreClean, Return, UpdateMeta, memVars, ControlInv, PcInv, TypeOK, SetType, AddPcs,
             LoadPcs, MakePcs, EnsurePcs, DataPcs, NewPcs, Loaded, HasData
    <2>3. AddInv'
      BY <1>7, Zenon DEF RestoreClean, Return, AddInv, EnsurePcs, StagedPcs, ItemPcs
    <2> QED
      BY <2>1, <2>2, <2>3, Zenon DEF ControlInv
  <1> QED
    BY <1>1, <1>2, <1>3, <1>4, <1>5, <1>6, <1>7, Zenon

(* bloomd_sync_dirty_logs: log_clean=1 is written only for a log without a *)
(* hole.                                                                   *)
LEMMA SyncControl ==
  ASSUME TypeOK, ControlInv
  PROVE  (\E n \in Names : SyncBegin(n)) \/ Sync
           => ControlInv'
  <1>1. ASSUME NEW n \in Names, SyncBegin(n) PROVE ControlInv'
    <2>1. \A k \in Loaded' : SetInv(k)'
      BY <1>1, Zenon
         DEF SyncBegin, kernelVars, dirVars, logVars, memVars, ControlInv, SetInv, Loaded
    <2>2. PcInv'
      BY <1>1, Zenon
         DEF SyncBegin, Goto, memVars, ControlInv, PcInv, LoadPcs, MakePcs, EnsurePcs, NewPcs,
             Loaded
    <2>3. AddInv'
      BY <1>1, Zenon
         DEF SyncBegin, Goto, itemVars, ControlInv, AddInv, EnsurePcs, StagedPcs, ItemPcs
    <2> QED
      BY <2>1, <2>2, <2>3, Zenon DEF ControlInv
  <1>2. ASSUME SyncWrite PROVE ControlInv'
    <2>1. \A k \in Names : log[k] # NoFile => log'[k] # NoFile
      <3>1. cur \in Names /\ log[cur] \in LogFile /\ buf[cur] \in Seq(Digests)
        BY <1>2, DataCur, Zenon DEF SyncWrite, SyncPcs, DataPcs
      <3>2. Written(log[cur], buf[cur]) # NoFile /\ NoFile \notin WriteFailures(log[cur], buf[cur])
        BY <3>1, WrittenIsFile, Zenon
           DEF AddPcs, SyncPcs, DropPcs, LoadPcs, MakePcs, EnsurePcs, StagedPcs, ItemPcs, DataPcs,
               NewPcs, Loaded, HasData
      <3> QED
        BY <1>2, <3>2, Zenon DEF SyncWrite, Flush, FlushFails, TypeOK, FileType
    <2>2. \A k \in Loaded' : SetInv(k)'
      BY <1>2, <2>1, Zenon DEF SyncWrite, kernelVars, dirVars, procVars, ControlInv, SetInv, Loaded
    <2>3. PcInv'
      BY <1>2, Zenon
         DEF SyncWrite, Return, Goto, ControlInv, PcInv, SyncPcs, LoadPcs, MakePcs, EnsurePcs,
             DataPcs, NewPcs, Loaded
    <2>4. AddInv'
      BY <1>2
         DEF SyncWrite, Return, Goto, itemVars, ControlInv, AddInv, EnsurePcs, StagedPcs, ItemPcs
    <2> QED
      BY <2>2, <2>3, <2>4, Zenon
         DEF ControlInv, AddPcs, SyncPcs, DropPcs, LoadPcs, MakePcs, EnsurePcs, StagedPcs, ItemPcs,
             DataPcs, NewPcs, Loaded, HasData
  <1>3. ASSUME SyncFsync PROVE ControlInv'
    <2>1. \A k \in Loaded' : SetInv(k)'
      BY <1>3, Zenon DEF SyncFsync, kernelVars, dirVars, procVars, ControlInv, SetInv, Loaded
    <2>2. PcInv'
      BY <1>3, Zenon
         DEF SyncFsync, Return, Goto, ControlInv, PcInv, TypeOK, SetType, SyncPcs, LoadPcs, MakePcs,
             EnsurePcs, DataPcs, NewPcs, Loaded
    <2>3. AddInv'
      BY <1>3, Zenon
         DEF SyncFsync, Return, Goto, itemVars, ControlInv, AddInv, EnsurePcs, StagedPcs, ItemPcs
    <2> QED
      BY <2>1, <2>2, <2>3, Zenon DEF ControlInv
  <1>4. ASSUME SyncMeta PROVE ControlInv'
    <2>1. \A k \in Loaded' : SetInv(k)'
      <3>1. SUFFICES ASSUME NEW k \in Names, k \in Loaded PROVE SetInv(k)'
        BY <1>4, Zenon DEF SyncMeta, UpdateMeta, memVars, Loaded
      <3>2. SetInv(k) /\ pc = "sync_meta" /\ cur \in Loaded /\ mem[cur] = "dirty" /\ pc' # "drop_log"
        BY <1>4, <3>1, Zenon DEF SyncMeta, Return, ControlInv, PcInv, SyncPcs
      <3>3. UNCHANGED <<pin, fd, log, hist, mode>>
        BY <1>4, Zenon DEF SyncMeta, UpdateMeta, kernelVars, logVars, memVars, procVars
      <3>4. CASE UNCHANGED <<mem, meta>>
        BY <3>2, <3>3, <3>4, Zenon DEF SetInv, HasData
      <3>5. CASE /\ mem' = [mem EXCEPT ![cur] = "clean"]
                 /\ meta' = [meta EXCEPT ![cur] = "clean"]
        <4>1. k # cur => mem'[k] = mem[k] /\ meta'[k] = meta[k]
          BY <3>5, Zenon DEF TypeOK, SetType, FileType
        <4>2. k = cur => mem'[k] = "clean" /\ meta'[k] = "clean" /\ mem[k] = "dirty"
          BY <3>2, <3>5, Zenon DEF TypeOK, SetType, FileType
        <4> QED
          BY <3>2, <3>3, <4>1, <4>2, Zenon DEF SetInv, HasData
      <3> QED
        BY <1>4, <3>4, <3>5, Zenon DEF SyncMeta, UpdateMeta, MetaWrite, dirVars, memVars
    <2>2. PcInv'
      BY <1>4, Zenon
         DEF SyncMeta, Return, UpdateMeta, memVars, ControlInv, PcInv, TypeOK, SetType, SyncPcs,
             LoadPcs, MakePcs, EnsurePcs, NewPcs, Loaded, HasData
    <2>3. AddInv'
      BY <1>4, Zenon DEF SyncMeta, Return, AddInv, EnsurePcs, StagedPcs, ItemPcs
    <2> QED
      BY <2>1, <2>2, <2>3, Zenon DEF ControlInv
  <1> QED
    BY <1>1, <1>2, <1>3, <1>4, Zenon DEF Sync

(* DROP: the filter stays in the set until its metadata is gone.           *)
LEMMA DropControl ==
  ASSUME TypeOK, ControlInv
  PROVE  (\E n \in Names : DropBegin(n)) \/ Drop
           => ControlInv'
  <1>1. ASSUME NEW n \in Names, DropBegin(n) PROVE ControlInv'
    <2>1. \A k \in Loaded' : SetInv(k)'
      BY <1>1, Zenon
         DEF DropBegin, Idle, kernelVars, dirVars, logVars, memVars, procVars, ControlInv, SetInv,
             Loaded
    <2>2. PcInv'
      BY <1>1, Zenon
         DEF DropBegin, Goto, memVars, ControlInv, PcInv, AddPcs, SyncPcs, LoadPcs, MakePcs,
             EnsurePcs, DataPcs, NewPcs, Loaded
    <2>3. AddInv'
      BY <1>1, Zenon
         DEF DropBegin, Goto, itemVars, Idle, ControlInv, AddInv, EnsurePcs, StagedPcs, ItemPcs
    <2> QED
      BY <2>1, <2>2, <2>3, Zenon DEF ControlInv
  <1>2. ASSUME DropUnpin PROVE ControlInv'
    <2>1. \A k \in Loaded' : SetInv(k)'
      BY <1>2, Zenon
         DEF DropUnpin, dirVars, logVars, memVars, procVars, ControlInv, SetInv, TypeOK, KernelType,
             Loaded
    <2>2. PcInv'
      BY <1>2, ZenonT(60)
         DEF DropUnpin, Return, Goto, memVars, ControlInv, PcInv, DropPcs, LoadPcs, MakePcs,
             EnsurePcs, DataPcs, NewPcs, Loaded
    <2>3. AddInv'
      BY <1>2
         DEF DropUnpin, Return, Goto, itemVars, ControlInv, AddInv, EnsurePcs, StagedPcs, ItemPcs
    <2> QED
      BY <2>1, <2>2, <2>3, Zenon DEF ControlInv
  <1>3. ASSUME DropMeta PROVE ControlInv'
    <2>1. \A k \in Loaded' : SetInv(k)'
      BY <1>3, SMTT(30)
         DEF DropMeta, Goto, Forget, kernelVars, logVars, memVars, procVars, ControlInv, SetInv,
             TypeOK, SetType, Loaded
    <2>2. PcInv'
      BY <1>3
         DEF DropMeta, Return, Goto, Forget, memVars, ControlInv, PcInv, TypeOK, SetType, FileType,
             AddPcs, SyncPcs, DropPcs, LoadPcs, MakePcs, EnsurePcs, DataPcs, NewPcs, Loaded
    <2>3. AddInv'
      BY <1>3, Zenon
         DEF DropMeta, Return, Goto, itemVars, ControlInv, AddInv, EnsurePcs, StagedPcs, ItemPcs
    <2> QED
      BY <2>1, <2>2, <2>3, Zenon DEF ControlInv
  <1>4. ASSUME DropMetaFails PROVE ControlInv'
    <2>1. \A k \in Loaded' : SetInv(k)'
      BY <1>4, Zenon
         DEF DropMetaFails, kernelVars, dirVars, logVars, memVars, procVars, ControlInv, SetInv,
             Loaded
    <2>2. PcInv'
      BY <1>4, Zenon
         DEF DropMetaFails, Return, Goto, memVars, ControlInv, PcInv, AddPcs, SyncPcs, DropPcs,
             LoadPcs, MakePcs, EnsurePcs, DataPcs, NewPcs, Loaded
    <2>3. AddInv'
      BY <1>4, Zenon
         DEF DropMetaFails, Return, Goto, itemVars, ControlInv, AddInv, EnsurePcs, StagedPcs,
             ItemPcs
    <2> QED
      BY <2>1, <2>2, <2>3, Zenon DEF ControlInv
  <1>5. ASSUME DropRepin PROVE ControlInv'
    <2>1. \A k \in Loaded' : SetInv(k)'
      BY <1>5, ZenonT(60)
         DEF DropRepin, dirVars, logVars, memVars, procVars, ControlInv, SetInv, TypeOK, KernelType,
             Loaded
    <2>2. PcInv'
      BY <1>5, Zenon
         DEF DropRepin, Return, memVars, ControlInv, PcInv, DropPcs, LoadPcs, MakePcs, EnsurePcs,
             DataPcs, NewPcs, Loaded
    <2>3. AddInv'
      BY <1>5, Zenon DEF DropRepin, Return, AddInv, EnsurePcs, StagedPcs, ItemPcs
    <2> QED
      BY <2>1, <2>2, <2>3, Zenon DEF ControlInv
  <1>6. ASSUME DropLog PROVE ControlInv'
    <2>1. \A k \in Loaded' : SetInv(k)'
      <3> SUFFICES ASSUME NEW k \in Loaded' PROVE SetInv(k)'
        BY Zenon
      <3>1. k \in Names /\ k \in Loaded /\ k # cur /\ cur \in Names
        BY <1>6, Zenon DEF DropLog, Forget, TypeOK, SetType, ControlType, Loaded
      <3>2. SetInv(k)
        BY <3>1, Zenon
           DEF ControlInv, AddPcs, SyncPcs, DropPcs, LoadPcs, MakePcs, EnsurePcs, StagedPcs,
               ItemPcs, DataPcs, NewPcs, Loaded, HasData
      <3>3. log'[k] = log[k]
        BY <1>6, <3>1, Zenon DEF DropLog, TypeOK, FileType
      <3>4. mem'[k] = mem[k] /\ fd'[k] = fd[k] /\ hist'[k] = hist[k]
        BY <1>6, <3>1 DEF DropLog, Forget
      <3> QED
        BY <1>6, <3>1, <3>2, <3>3, <3>4, Zenon DEF DropLog, SetInv, kernelVars, dirVars, procVars
    <2>2. PcInv'
      BY <1>6, Zenon
         DEF DropLog, Return, Forget, ControlInv, PcInv, TypeOK, SetType, AddPcs, SyncPcs, DropPcs,
             LoadPcs, MakePcs, EnsurePcs, DataPcs, NewPcs, Loaded
    <2>3. AddInv'
      BY <1>6, Zenon DEF DropLog, Return, AddInv, EnsurePcs, StagedPcs, ItemPcs
    <2> QED
      BY <2>1, <2>2, <2>3, Zenon DEF ControlInv
  <1> QED
    BY <1>1, <1>2, <1>3, <1>4, <1>5, <1>6, Zenon DEF Drop

(* A start: entries are loaded one by one, each with the map that its pin  *)
(* or its rebuild gave it.                                                 *)
LEMMA LoadControl ==
  ASSUME TypeOK, ControlInv
  PROVE  Start \/ Load
           => ControlInv'
  <1>1. ASSUME Start PROVE ControlInv'
    <2>1. \A k \in Loaded' : SetInv(k)'
      BY <1>1, Zenon DEF Start, memVars, ControlInv, PcInv, Loaded
    <2>2. PcInv'
      BY <1>1, Zenon
         DEF Start, Goto, dirVars, memVars, ControlInv, PcInv, AddPcs, SyncPcs, DropPcs, MakePcs,
             EnsurePcs, DataPcs, NewPcs, Loaded
    <2>3. AddInv'
      BY <1>1, Zenon DEF Start, Goto, itemVars, ControlInv, AddInv, EnsurePcs, StagedPcs, ItemPcs
    <2> QED
      BY <2>1, <2>2, <2>3, Zenon DEF ControlInv
  <1>2. ASSUME NEW n \in Names, LoadPinned(n) PROVE ControlInv'
    <2>1. \A k \in Loaded' : SetInv(k)'
      BY <1>2, Zenon
         DEF LoadPinned, Entry, kernelVars, dirVars, logVars, memVars, ControlInv, SetInv, Loaded
    <2>2. PcInv'
      BY <1>2, Zenon
         DEF LoadPinned, Goto, Entry, kernelVars, dirVars, memVars, ControlInv, PcInv, AddPcs,
             SyncPcs, DropPcs, LoadPcs, EnsurePcs, DataPcs, Loaded
    <2>3. AddInv'
      BY <1>2, Zenon
         DEF LoadPinned, Goto, itemVars, Entry, ControlInv, AddInv, EnsurePcs, StagedPcs, ItemPcs
    <2> QED
      BY <2>1, <2>2, <2>3, Zenon DEF ControlInv
  <1>3. ASSUME NEW n \in Names, LoadEmpty(n) PROVE ControlInv'
    <2>1. \A k \in Loaded' : SetInv(k)'
      BY <1>3, Zenon DEF LoadEmpty, Entry, dirVars, logVars, memVars, ControlInv, SetInv, Loaded
    <2>2. PcInv'
      BY <1>3, MapNotNone, Zenon
         DEF LoadEmpty, Goto, Entry, Fresh, dirVars, memVars, ControlInv, PcInv, AddPcs, SyncPcs,
             DropPcs, LoadPcs, EnsurePcs, DataPcs, Loaded
    <2>3. AddInv'
      BY <1>3, ZenonT(60)
         DEF LoadEmpty, Goto, itemVars, Entry, ControlInv, AddInv, EnsurePcs, StagedPcs, ItemPcs
    <2> QED
      BY <2>1, <2>2, <2>3, Zenon DEF ControlInv
  <1>4. ASSUME NEW n \in Names, LoadReplay(n) PROVE ControlInv'
    <2>1. \A k \in Loaded' : SetInv(k)'
      BY <1>4 DEF LoadReplay, Entry, dirVars, memVars, ControlInv, SetInv, PcInv, LoadPcs, Loaded
    <2>2. PcInv'
      BY <1>4, MapNotNone, Zenon
         DEF LoadReplay, Goto, Entry, Fresh, dirVars, memVars, ControlInv, PcInv, AddPcs, SyncPcs,
             DropPcs, LoadPcs, EnsurePcs, DataPcs, Loaded
    <2>3. AddInv'
      BY <1>4, Zenon
         DEF LoadReplay, Goto, itemVars, Entry, ControlInv, AddInv, EnsurePcs, StagedPcs, ItemPcs
    <2> QED
      BY <2>1, <2>2, <2>3, Zenon DEF ControlInv
  <1>5. ASSUME NEW n \in Names, LoadStale(n) PROVE ControlInv'
    <2>1. \A k \in Loaded' : SetInv(k)'
      BY <1>5, Zenon
         DEF LoadStale, RecoverStale, Entry, kernelVars, logVars, memVars, ControlInv, SetInv,
             TypeOK, FileType, Loaded, HasData
    <2>2. PcInv'
      BY <1>5, ZenonT(60)
         DEF LoadStale, RecoverStale, Goto, Entry, memVars, ControlInv, PcInv, TypeOK, ControlType,
             FileType, AddPcs, SyncPcs, DropPcs, MakePcs, EnsurePcs, DataPcs, NewPcs, Loaded
    <2>3. AddInv'
      BY <1>5, Zenon DEF LoadStale, RecoverStale, Goto, itemVars, Entry, ControlInv, AddInv
    <2> QED
      BY <2>1, <2>2, <2>3, Zenon DEF ControlInv
  <1>6. ASSUME NEW n \in Names, LoadUnreadable(n) PROVE ControlInv'
    <2>1. \A k \in Loaded' : SetInv(k)'
      BY <1>6, ZenonT(60)
         DEF LoadUnreadable, RecoverStale, Entry, kernelVars, logVars, memVars, ControlInv, SetInv,
             PcInv, LoadPcs, TypeOK, FileType, Loaded, HasData
    <2>2. PcInv'
      BY <1>6, Zenon
         DEF LoadUnreadable, RecoverStale, Goto, Entry, memVars, ControlInv, PcInv, TypeOK,
             ControlType, FileType, AddPcs, SyncPcs, DropPcs, MakePcs, EnsurePcs, DataPcs, NewPcs,
             Loaded
    <2>3. AddInv'
      BY <1>6, Zenon DEF LoadUnreadable, RecoverStale, Goto, itemVars, Entry, ControlInv, AddInv
    <2> QED
      BY <2>1, <2>2, <2>3, Zenon DEF ControlInv
  <1>7. ASSUME NEW n \in Names, LoadRefuse(n) PROVE ControlInv'
    <2>1. \A k \in Loaded' : SetInv(k)'
      BY <1>7, Zenon
         DEF LoadRefuse, Entry, kernelVars, dirVars, logVars, memVars, ControlInv, SetInv, Loaded
    <2>2. PcInv'
      BY <1>7, Zenon
         DEF LoadRefuse, Goto, memVars, ControlInv, PcInv, AddPcs, SyncPcs, DropPcs, LoadPcs,
             MakePcs, EnsurePcs, DataPcs, NewPcs, Loaded
    <2>3. AddInv'
      BY <1>7, ZenonT(60)
         DEF LoadRefuse, Goto, itemVars, Entry, ControlInv, AddInv, EnsurePcs, StagedPcs, ItemPcs
    <2> QED
      BY <2>1, <2>2, <2>3, Zenon DEF ControlInv
  <1>8. ASSUME LoadPin PROVE ControlInv'
    <2>1. \A k \in Loaded' : SetInv(k)'
      BY <1>8
         DEF LoadPin, dirVars, logVars, memVars, procVars, ControlInv, SetInv, PcInv, NewPcs, Loaded
    <2>2. PcInv'
      BY <1>8
         DEF LoadPin, Goto, dirVars, memVars, procVars, ControlInv, PcInv, AddPcs, SyncPcs, DropPcs,
             LoadPcs, EnsurePcs, DataPcs, NewPcs, Loaded
    <2>3. AddInv'
      BY <1>8, ZenonT(60)
         DEF LoadPin, Goto, itemVars, ControlInv, AddInv, EnsurePcs, StagedPcs, ItemPcs
    <2> QED
      BY <2>1, <2>2, <2>3, Zenon DEF ControlInv
  <1>9. ASSUME LoadPublish PROVE ControlInv'
    <2>1. \A k \in Loaded' : SetInv(k)'
      BY <1>9, FileConstants, ZenonT(60)
         DEF LoadPublish, kernelVars, dirVars, procVars, ControlInv, SetInv, PcInv, TypeOK, SetType,
             FileType, Loaded
    <2>2. PcInv'
      <3>1. queue \cap Loaded' = {} /\ \A n \in queue : meta[n] # "absent"
        BY <1>9, SMTT(30) DEF LoadPublish, ControlInv, PcInv, LoadPcs, Loaded
      <3>2. \A n \in Names : dirty[n] => n \in Loaded' /\ HasData(mem'[n])
        BY <1>9 DEF LoadPublish, ControlInv, PcInv, NewPcs, Loaded
      <3> QED
        BY <1>9, <3>1, <3>2, ZenonT(60)
           DEF LoadPublish, Goto, PcInv, dirVars, procVars, AddPcs, SyncPcs, DropPcs, MakePcs,
               EnsurePcs, DataPcs, NewPcs
    <2>3. AddInv'
      BY <1>9, Zenon
         DEF LoadPublish, Goto, itemVars, ControlInv, AddInv, EnsurePcs, StagedPcs, ItemPcs
    <2> QED
      BY <2>1, <2>2, <2>3, Zenon DEF ControlInv
  <1>10. ASSUME LoadFails PROVE ControlInv'
    <2>1. \A k \in Loaded' : SetInv(k)'
      BY <1>10, Zenon
         DEF LoadFails, dirVars, logVars, memVars, ControlInv, SetInv, TypeOK, KernelType, LoadPcs,
             Loaded
    <2>2. PcInv'
      BY <1>10, Zenon
         DEF LoadFails, Goto, memVars, ControlInv, PcInv, AddPcs, SyncPcs, DropPcs, MakePcs,
             EnsurePcs, DataPcs, NewPcs, Loaded
    <2>3. AddInv'
      BY <1>10, Zenon
         DEF LoadFails, Goto, itemVars, ControlInv, AddInv, LoadPcs, EnsurePcs, StagedPcs, ItemPcs
    <2> QED
      BY <2>1, <2>2, <2>3, Zenon DEF ControlInv
  <1>11. ASSUME LoadDone PROVE ControlInv'
    <2>1. \A k \in Loaded' : SetInv(k)'
      BY <1>11, Zenon
         DEF LoadDone, kernelVars, dirVars, logVars, memVars, procVars, ControlInv, SetInv, Loaded
    <2>2. PcInv'
      BY <1>11, Zenon
         DEF LoadDone, Goto, memVars, procVars, ControlInv, PcInv, AddPcs, SyncPcs, DropPcs,
             MakePcs, EnsurePcs, DataPcs, NewPcs, Loaded
    <2>3. AddInv'
      BY <1>11, Zenon
         DEF LoadDone, Goto, itemVars, ControlInv, AddInv, EnsurePcs, StagedPcs, ItemPcs
    <2> QED
      BY <2>1, <2>2, <2>3, Zenon DEF ControlInv
  <1>12. ASSUME CleanupOrphanPins PROVE ControlInv'
    <2>1. \A k \in Loaded' : SetInv(k)'
      BY <1>12, Zenon
         DEF CleanupOrphanPins, dirVars, logVars, memVars, procVars, ControlInv, SetInv, Loaded
    <2>2. PcInv'
      BY <1>12, Zenon
         DEF CleanupOrphanPins, Goto, dirVars, memVars, procVars, ControlInv, PcInv, AddPcs,
             SyncPcs, DropPcs, LoadPcs, MakePcs, EnsurePcs, DataPcs, NewPcs, Loaded
    <2>3. AddInv'
      BY <1>12, Zenon
         DEF CleanupOrphanPins, Goto, itemVars, ControlInv, AddInv, EnsurePcs, StagedPcs, ItemPcs
    <2> QED
      BY <2>1, <2>2, <2>3, Zenon DEF ControlInv
  <1>13. ASSUME Listen PROVE ControlInv'
    <2>1. \A k \in Loaded' : SetInv(k)'
      BY <1>13, Zenon
         DEF Listen, kernelVars, dirVars, logVars, memVars, procVars, ControlInv, SetInv, Loaded
    <2>2. PcInv'
      BY <1>13, Zenon
         DEF Listen, Return, memVars, ControlInv, PcInv, AddPcs, SyncPcs, DropPcs, LoadPcs, MakePcs,
             EnsurePcs, DataPcs, NewPcs, Loaded
    <2>3. AddInv'
      BY <1>13, Zenon DEF Listen, Return, AddInv, EnsurePcs, StagedPcs, ItemPcs
    <2> QED
      BY <2>1, <2>2, <2>3, Zenon DEF ControlInv
  <1> QED
    BY <1>1, <1>2, <1>3, <1>4, <1>5, <1>6, <1>7, <1>8, <1>9, <1>10, <1>11, <1>12, <1>13, ZenonT(60)
       DEF Load

(* Stops, kills, host crashes and vanishing pins.                          *)
LEMMA EndControl ==
  ASSUME TypeOK, ControlInv
  PROVE  Stop \/ Shutdown \/ Kill \/ HostCrash \/ (\E n \in Names : PinRemoved(n))
           => ControlInv'
  <1>1. ASSUME Stop PROVE ControlInv'
    <2>1. \A k \in Loaded' : SetInv(k)'
      BY <1>1, Zenon DEF Stop, kernelVars, dirVars, logVars, memVars, ControlInv, SetInv, Loaded
    <2>2. PcInv'
      BY <1>1, Zenon DEF Stop, Idle, memVars, ControlInv, PcInv, LoadPcs, MakePcs, NewPcs, Loaded
    <2>3. AddInv'
      BY <1>1, Zenon DEF Stop, Idle, itemVars, ControlInv, AddInv
    <2> QED
      BY <2>1, <2>2, <2>3, Zenon DEF ControlInv
  <1>2. ASSUME StopSynced PROVE ControlInv'
    <2>1. \A k \in Loaded' : SetInv(k)'
      BY <1>2, Zenon
         DEF StopSynced, kernelVars, dirVars, logVars, memVars, procVars, ControlInv, SetInv, Loaded
    <2>2. PcInv'
      BY <1>2, Zenon
         DEF StopSynced, Goto, memVars, ControlInv, PcInv, AddPcs, SyncPcs, DropPcs, LoadPcs,
             MakePcs, EnsurePcs, DataPcs, NewPcs, Loaded
    <2>3. AddInv'
      BY <1>2, Zenon
         DEF StopSynced, Goto, itemVars, ControlInv, AddInv, EnsurePcs, StagedPcs, ItemPcs
    <2> QED
      BY <2>1, <2>2, <2>3, Zenon DEF ControlInv
  <1>3. ASSUME NEW n \in Names, FreeFilter(n) PROVE ControlInv'
    <2>1. \A k \in Loaded' : SetInv(k)'
      <3> SUFFICES ASSUME NEW k \in Loaded' PROVE SetInv(k)'
        BY Zenon
      <3>1. k \in Names /\ k \in Loaded /\ k # n
        BY <1>3, Zenon DEF FreeFilter, Forget, TypeOK, SetType, Loaded
      <3>2. SetInv(k)
        BY <3>1, Zenon
           DEF ControlInv, AddPcs, SyncPcs, DropPcs, LoadPcs, MakePcs, EnsurePcs, StagedPcs,
               ItemPcs, DataPcs, NewPcs, Loaded, HasData
      <3>3. log'[k] = log[k]
        BY <1>3, <3>1, Zenon DEF FreeFilter, logVars, TypeOK, FileType
      <3>4. mem'[k] = mem[k] /\ fd'[k] = fd[k] /\ hist'[k] = hist[k]
        BY <1>3, <3>1 DEF FreeFilter, Forget
      <3> QED
        BY <1>3, <3>2, <3>3, <3>4, Zenon DEF FreeFilter, SetInv, kernelVars, dirVars, procVars
    <2>2. PcInv'
      BY <1>3, Zenon
         DEF FreeFilter, Goto, Forget, ControlInv, PcInv, TypeOK, SetType, AddPcs, SyncPcs, DropPcs,
             LoadPcs, MakePcs, EnsurePcs, DataPcs, NewPcs, Loaded
    <2>3. AddInv'
      BY <1>3, Zenon DEF FreeFilter, Goto, itemVars, ControlInv, AddInv
    <2> QED
      BY <2>1, <2>2, <2>3, Zenon DEF ControlInv
  <1>4. ASSUME Exit PROVE ControlInv'
    <2>1. \A k \in Loaded' : SetInv(k)'
      BY <1>4, Zenon DEF Exit, memVars, Loaded
    <2>2. PcInv'
      BY <1>4, Zenon
         DEF Exit, Goto, memVars, ControlInv, PcInv, AddPcs, SyncPcs, DropPcs, MakePcs, EnsurePcs,
             DataPcs, NewPcs, Loaded
    <2>3. AddInv'
      BY <1>4, Zenon DEF Exit, Goto, itemVars, ControlInv, AddInv, EnsurePcs, StagedPcs, ItemPcs
    <2> QED
      BY <2>1, <2>2, <2>3, Zenon DEF ControlInv
  <1>5. ASSUME Kill PROVE ControlInv'
    <2>1. \A k \in Loaded' : SetInv(k)'
      BY <1>5, Zenon DEF Kill, ProcessGone, Loaded
    <2>2. PcInv'
      BY <1>5, Zenon
         DEF Kill, ProcessGone, PcInv, AddPcs, SyncPcs, DropPcs, MakePcs, EnsurePcs, DataPcs,
             NewPcs, Loaded
    <2>3. AddInv'
      BY <1>5, Zenon DEF Kill, ProcessGone, AddInv, EnsurePcs, StagedPcs, ItemPcs
    <2> QED
      BY <2>1, <2>2, <2>3, Zenon DEF ControlInv
  <1>6. ASSUME HostCrash PROVE ControlInv'
    <2>1. \A k \in Loaded' : SetInv(k)'
      BY <1>6, Zenon DEF HostCrash, ProcessGone, Loaded
    <2>2. PcInv'
      BY <1>6, Zenon
         DEF HostCrash, ProcessGone, PcInv, AddPcs, SyncPcs, DropPcs, MakePcs, EnsurePcs, DataPcs,
             NewPcs, Loaded
    <2>3. AddInv'
      BY <1>6, Zenon DEF HostCrash, ProcessGone, AddInv, EnsurePcs, StagedPcs, ItemPcs
    <2> QED
      BY <2>1, <2>2, <2>3, Zenon DEF ControlInv
  <1>7. ASSUME NEW n \in Names, PinRemoved(n) PROVE ControlInv'
    <2>1. \A k \in Loaded' : SetInv(k)'
      BY <1>7, Zenon
         DEF PinRemoved, dirVars, logVars, memVars, procVars, ControlInv, SetInv, TypeOK,
             KernelType, Loaded
    <2>2. PcInv'
      <3>1. UNCHANGED <<meta, mem, hist, dirty, pc, cur, queue, newmap>> /\ Loaded' = Loaded
        BY <1>7, Zenon DEF PinRemoved, dirVars, memVars, procVars, loadVars, Loaded
      <3>2. pc \in {"load_pin", "load_log"} => pin'[cur] \in {NoMap, newmap}
        BY <1>7, Zenon DEF PinRemoved, ControlInv, PcInv, TypeOK, KernelType, ControlType
      <3>3. PcInv
        BY Zenon DEF ControlInv
      <3> QED
        BY <3>1, <3>2, <3>3, ZenonT(60) DEF PcInv
    <2>3. AddInv'
      BY <1>7, Zenon
         DEF PinRemoved, logVars, memVars, procVars, itemVars, ControlInv, AddInv, TypeOK,
             KernelType, ControlType
    <2> QED
      BY <2>1, <2>2, <2>3, Zenon DEF ControlInv
  <1> QED
    BY <1>1, <1>2, <1>3, <1>4, <1>5, <1>6, <1>7, Zenon DEF Shutdown

(* ControlInv holds when nothing has happened yet.                         *)
LEMMA InitControl == ASSUME Init PROVE ControlInv
  <1>1. Loaded = {}
    BY Zenon DEF Init, Loaded
  <1>2. PcInv
    BY <1>1, Zenon
       DEF Init, PcInv, AddPcs, SyncPcs, DropPcs, LoadPcs, MakePcs, EnsurePcs, DataPcs, NewPcs
  <1>3. AddInv
    BY Zenon DEF Init, AddInv, EnsurePcs, StagedPcs, ItemPcs
  <1> QED
    BY <1>1, <1>2, <1>3, Zenon DEF ControlInv

(* Steps that change nothing.                                              *)
LEMMA StutterControl == ASSUME TypeOK, ControlInv, UNCHANGED vars PROVE TypeOK' /\ ControlInv'
  <1>1. TypeOK'
    BY Kept, Zenon DEF vars, TypeOK, ControlType, procVars, loadVars
  <1>2. \A n \in Loaded' : SetInv(n)'
    BY Zenon DEF vars, kernelVars, dirVars, logVars, memVars, procVars, ControlInv, SetInv, Loaded
  <1>3. PcInv'
    BY ZenonT(60)
       DEF vars, kernelVars, dirVars, memVars, procVars, loadVars, ControlInv, PcInv, Loaded
  <1>4. AddInv'
    BY Zenon DEF vars, kernelVars, logVars, memVars, procVars, itemVars, ControlInv, AddInv
  <1> QED
    BY <1>1, <1>2, <1>3, <1>4, Zenon DEF ControlInv

(* What every step of the daemon and of its environment preserves.         *)
LEMMA StepControl == ASSUME TypeOK, ControlInv, [Next]_vars PROVE TypeOK' /\ ControlInv'
  <1>1. TypeOK'
    BY CreateTypes, EnsureTypes, StageTypes, SyncTypes, DropTypes, LoadTypes, EndTypes,
       StutterControl, Zenon
       DEF Next, Daemon, Environment, Requests, Add
  <1>2. ControlInv'
    BY CreateControl, EnsureControl, StageControl, SyncControl, DropControl, LoadControl,
       EndControl, StutterControl, Zenon
       DEF Next, Daemon, Environment, Requests, Add
  <1> QED
    BY <1>1, <1>2, Zenon

(* The types, and where every handler is with its filter, hold in every    *)
(* state that any sequence of requests, failing calls, kills and crashes   *)
(* leads to.                                                               *)
THEOREM ControlInvariant == Spec => [](TypeOK /\ ControlInv)
  <1>1. Init => TypeOK /\ ControlInv
    BY InitTypes, InitControl, Zenon
  <1>2. TypeOK /\ ControlInv /\ [Next]_vars => (TypeOK /\ ControlInv)'
    BY StepControl, Zenon
  <1> QED
    BY <1>1, <1>2, PTL DEF Spec

(* Every variable keeps its type and no path through the handlers overruns *)
(* the log buffer, for every number of filters, digests and buffer slots   *)
(* and whatever fails.                                                     *)
THEOREM TypeCorrect == Spec => []TypeOK
  BY ControlInvariant, PTL

(* Between two requests filter->meta is what n.meta says, and the pin of a *)
(* filter with data is its own map, whatever calls failed before.          *)
THEOREM MemoryAgreesWithDisk == Spec => []DiskMatchesMemory
  <1>1. TypeOK /\ ControlInv => DiskMatchesMemory
    BY Zenon DEF TypeOK, SetType, MetaStates, ControlInv, SetInv, DiskMatchesMemory, HasData, Loaded
  <1> QED
    BY <1>1, ControlInvariant, PTL

-----------------------------------------------------------------------------
(* The buffers of the logs.                                                *)

(* A step that leaves the buffers alone, with the filters and the marks    *)
(* they belong to, and does not go where BufInv says more.                 *)
LEMMA BufFrame ==
  ASSUME BufInv, UNCHANGED <<buf, mode>>, \A n \in Loaded : n \in Loaded',
         \A n \in Names : buf[n] # <<>> => mem'[n] = mem[n] /\ dirty'[n] = dirty[n],
         pc # "bpf", pc' \notin {"stage", "bpf", "restore", "sync_fsync", "sync_meta"}
  PROVE  BufInv'
  BY Zenon DEF BufInv

(* Requests begin, CREATE, and the parts of DROP and of a start that keep  *)
(* the set as it is or let a filter join it.                               *)
LEMMA OthersBuf ==
  ASSUME TypeOK, ControlInv, BufInv,
         \/ \E n \in Names, p \in Params : CreateBegin(n, p)
         \/ \E n \in Names : DropBegin(n) \/ SyncBegin(n) \/ PinRemoved(n)
         \/ CreateMeta \/ CreateMetaFails \/ CreateAddFails \/ EnsurePin \/ EnsureUndoLog \/ EnsureUndoPin
         \/ DropUnpin \/ DropMetaFails \/ DropRepin \/ Stop \/ StopSynced \/ Exit
  PROVE  BufInv'
  <1>1. UNCHANGED memVars /\ mode' = mode
    BY Zenon
       DEF CreateBegin, DropBegin, SyncBegin, PinRemoved, CreateMeta, CreateMetaFails,
           CreateAddFails, EnsurePin, EnsureUndoLog, EnsureUndoPin, DropUnpin, DropMetaFails,
           DropRepin, Stop, StopSynced, Exit, procVars
  <1>2. UNCHANGED <<fd, mem, buf, dirty>> /\ Loaded' = Loaded
    BY <1>1, Zenon DEF memVars, Loaded
  <1>3. CASE \E n \in Names : PinRemoved(n)
    <2>1. UNCHANGED <<pc, cur, stage, marked, any>>
      BY <1>3, Zenon DEF PinRemoved, itemVars
    <2> QED
      BY <1>1, <1>2, <2>1, Zenon DEF BufInv
  <1>4. CASE ~\E n \in Names : PinRemoved(n)
    <2>1. pc # "bpf" /\ pc' \notin {"stage", "bpf", "restore", "sync_fsync", "sync_meta"}
      BY <1>4, Zenon
         DEF CreateBegin, DropBegin, SyncBegin, CreateMeta, CreateMetaFails, CreateAddFails,
             EnsurePin, EnsureUndoLog, EnsureUndoPin, DropUnpin, DropMetaFails, DropRepin, Stop,
             StopSynced, Exit, Idle, Goto, Return
    <2> QED
      BY <1>1, <1>2, <2>1, BufFrame, ZenonT(60)
  <1> QED
    BY <1>3, <1>4, Zenon

(* A filter joins or leaves the set.                                       *)
LEMMA SetBuf ==
  ASSUME TypeOK, ControlInv, BufInv,
         CreateAdd \/ DropMeta \/ DropLog \/ LoadPublish \/ \E n \in Names : FreeFilter(n)
  PROVE  BufInv'
  <1>1. /\ cur \in Names /\ fd \in [Names -> Maps \cup {NoMap}] /\ mem \in [Names -> MetaStates]
        /\ buf \in [Names -> Seq(Digests)] /\ dirty \in [Names -> BOOLEAN]
    BY Zenon DEF TypeOK, ControlType, SetType, BufType
  <1>2. CASE CreateAdd \/ LoadPublish
    <2>1. pc \in NewPcs
      BY <1>2 DEF CreateAdd, LoadPublish, NewPcs, MakePcs
    <2>2. newmap # NoMap /\ cur \notin Loaded
      BY <2>1, Zenon DEF ControlInv, PcInv
    <2>3. buf[cur] = <<>>
      BY <1>1, <2>2, Zenon DEF BufInv
    <2>4. /\ UNCHANGED <<buf, dirty, mode>> /\ fd' = [fd EXCEPT ![cur] = newmap]
          /\ \A n \in Names : n # cur => mem'[n] = mem[n]
      BY <1>1, <1>2, Zenon DEF CreateAdd, LoadPublish, procVars
    <2>5. \A n \in Loaded : n \in Loaded'
      BY <1>1, <2>2, <2>4, ZenonT(60) DEF Loaded
    <2>6. pc # "bpf" /\ pc' \notin {"stage", "bpf", "restore", "sync_fsync", "sync_meta"}
      BY <1>2 DEF CreateAdd, LoadPublish, Goto, Return
    <2> QED
      BY <2>3, <2>4, <2>5, <2>6, BufFrame, ZenonT(60)
  <1>3. ASSUME NEW n \in Names, Forget(n), mode' = mode, pc # "bpf",
               pc' \notin {"stage", "bpf", "restore", "sync_fsync", "sync_meta"}
        PROVE  BufInv'
    <2>1. buf'[n] = <<>> /\ \A k \in Names : k # n => /\ fd'[k] = fd[k] /\ mem'[k] = mem[k]
                                                      /\ buf'[k] = buf[k] /\ dirty'[k] = dirty[k]
      BY <1>1, <1>3, Zenon DEF Forget
    <2> QED
      BY <1>3, <2>1, ZenonT(60) DEF BufInv, Loaded
  <1>4. CASE DropLog
    <2>1. Forget(cur) /\ mode' = mode /\ pc = "drop_log" /\ pc' = "idle"
      BY <1>4, Zenon DEF DropLog, Return, procVars
    <2> QED
      BY <1>1, <1>3, <2>1
  <1>5. CASE DropMeta
    <2>1. CASE HasData(mem[cur])
      <3>1. UNCHANGED <<fd, mem, buf, dirty, mode>> /\ pc = "drop_meta" /\ pc' = "drop_log"
        BY <1>5, <2>1, Zenon DEF DropMeta, Goto, memVars, procVars
      <3>2. pc # "bpf" /\ pc' \notin {"stage", "bpf", "restore", "sync_fsync", "sync_meta"}
        BY <3>1
      <3> QED
        BY <3>1, <3>2, BufFrame, Zenon DEF Loaded
    <2>2. CASE ~HasData(mem[cur])
      <3>1. Forget(cur) /\ mode' = mode /\ pc = "drop_meta" /\ pc' = "idle"
        BY <1>5, <2>2, Zenon DEF DropMeta, Return, procVars
      <3> QED
        BY <1>1, <1>3, <3>1
    <2> QED
      BY <2>1, <2>2, Zenon
  <1>6. ASSUME NEW n \in Names, FreeFilter(n) PROVE BufInv'
    <2>1. Forget(n) /\ mode' = mode /\ pc = "free" /\ pc' = "free"
      BY <1>6, Zenon DEF FreeFilter, Goto, procVars
    <2> QED
      BY <1>3, <2>1
  <1> QED
    BY <1>2, <1>4, <1>5, <1>6, Zenon

(* A start: nothing is buffered before it, and mode may be another one.    *)
LEMMA LoadBuf ==
  ASSUME TypeOK, ControlInv, BufInv, Start \/ (Load /\ ~LoadPublish) \/ Kill \/ HostCrash
  PROVE  BufInv'
  <1>1. CASE Start
    <2>1. \A n \in Names : buf[n] = <<>>
      BY <1>1, Zenon DEF Start, ControlInv, PcInv, BufInv
    <2>2. buf' = buf /\ pc' = "load"
      BY <1>1, Zenon DEF Start, Goto, memVars
    <2> QED
      BY <2>1, <2>2 DEF BufInv
  <1>2. CASE Kill \/ HostCrash
    <2>1. buf' = [n \in Names |-> <<>>] /\ pc' = "down"
      BY <1>2, Zenon DEF Kill, HostCrash, ProcessGone
    <2> QED
      BY <2>1 DEF BufInv
  <1>3. CASE Load /\ ~LoadPublish
    <2>1. UNCHANGED memVars /\ mode' = mode
      BY <1>3, ZenonT(60)
         DEF Load, LoadPinned, LoadEmpty, LoadReplay, LoadStale, LoadUnreadable, RecoverStale,
             LoadRefuse, LoadPin, LoadFails, LoadDone, CleanupOrphanPins, Listen, procVars
    <2>2. pc # "bpf" /\ pc' \notin {"stage", "bpf", "restore", "sync_fsync", "sync_meta"}
      BY <1>3, ZenonT(60)
         DEF Load, LoadPinned, LoadEmpty, LoadReplay, LoadStale, LoadUnreadable, RecoverStale,
             LoadRefuse, LoadPin, LoadFails, LoadDone, CleanupOrphanPins, Listen, Entry, Goto,
             Return, LoadPcs
    <2> QED
      BY <2>1, <2>2, BufFrame, Zenon DEF memVars, Loaded
  <1> QED
    BY <1>1, <1>2, <1>3, Zenon

(* A step that changes the filter of the handler alone.                    *)
LEMMA BufCur ==
  ASSUME BufInv, cur \in Loaded, UNCHANGED <<fd, mode, cur>>,
         \A n \in Names : n # cur => mem'[n] = mem[n] /\ buf'[n] = buf[n] /\ dirty'[n] = dirty[n],
         mode = "periodic" => /\ buf'[cur] # <<>> => mem'[cur] = "dirty" /\ (dirty'[cur] \/ pc' = "bpf")
                              /\ pc' = "bpf" /\ stage'.buf # <<>> => stage'.dirty /\ (marked' => any')
                              /\ pc' \in {"stage", "restore"} /\ marked' /\ ~any' => buf'[cur] = <<>>,
         pc' \in {"sync_fsync", "sync_meta"} => buf'[cur] = <<>>
  PROVE  BufInv'
  <1>1. Loaded' = Loaded
    BY Zenon DEF Loaded
  <1>2. \A n \in Names : buf'[n] # <<>> => n \in Loaded'
    BY <1>1, Zenon DEF BufInv
  <1>3. mode = "periodic" =>
          \A n \in Names : buf'[n] # <<>> => mem'[n] = "dirty" /\ (dirty'[n] \/ (pc' = "bpf" /\ n = cur))
    BY ZenonT(60) DEF BufInv
  <1> QED
    BY <1>2, <1>3, Zenon DEF BufInv

(* The steps of an ADD before its digest is in a buffer.                   *)
LEMMA MakeDurableBuf ==
  ASSUME TypeOK, ControlInv, BufInv,
         (\E n \in Names, batch \in Batches : AddBegin(n, batch)) \/ EnsureLog \/ EnsureMeta \/ MarkDirty
  PROVE  BufInv'
  <1>1. /\ cur \in Names /\ mem \in [Names -> MetaStates]
        /\ buf \in [Names -> Seq(Digests)] /\ dirty \in [Names -> BOOLEAN]
    BY Zenon DEF TypeOK, ControlType, SetType, BufType
  <1>2. CASE \E n \in Names, batch \in Batches : AddBegin(n, batch)
    <2>1. UNCHANGED <<fd, mem, buf, dirty, mode, marked>> /\ pc = "idle" /\ pc' \in {"pin", "mark", "stage"}
      BY <1>2, Zenon DEF AddBegin, AfterDurable, Idle, memVars, procVars
    <2>2. ~marked
      BY <2>1 DEF ControlInv, AddInv
    <2>3. pc # "bpf" /\ pc' \notin {"bpf", "sync_fsync", "sync_meta"}
      BY <2>1
    <2> QED
      BY <2>1, <2>2, <2>3, Zenon DEF BufInv, Loaded
  <1>3. CASE EnsureLog
    <2>1. pc = "create_log" /\ pc' \in {"set_has_data", "undo_pin"} /\ UNCHANGED <<fd, mem, mode, cur>>
      BY <1>3, ZenonT(60) DEF EnsureLog, Goto, procVars
    <2>2. cur \in Loaded
      BY <2>1 DEF ControlInv, PcInv, AddPcs
    <2>3. /\ \A n \in Names : n # cur => buf'[n] = buf[n] /\ dirty'[n] = dirty[n]
          /\ buf'[cur] = <<>> \/ (buf'[cur] = buf[cur] /\ dirty'[cur] = dirty[cur])
      BY <1>1, <1>3, Zenon DEF EnsureLog
    <2>4. pc # "bpf" /\ pc' \notin {"stage", "bpf", "restore", "sync_fsync", "sync_meta"}
      BY <2>1
    <2>5. mode = "periodic" /\ buf'[cur] # <<>> => mem'[cur] = "dirty" /\ dirty'[cur]
      BY <1>1, <2>1, <2>3, <2>4, Zenon DEF BufInv
    <2> QED
      BY <2>1, <2>2, <2>3, <2>4, <2>5, BufCur, Zenon
  <1>4. CASE EnsureMeta \/ MarkDirty
    <2>1. /\ pc \in {"set_has_data", "mark"} /\ pc' \in {"undo_log", "mark", "stage", "idle"}
          /\ UNCHANGED <<fd, buf, dirty, mode, cur>>
      BY <1>4, ZenonT(60)
         DEF EnsureMeta, MarkDirty, UpdateMeta, AfterDurable, Goto, Return, memVars, procVars
    <2>2. cur \in Loaded
      BY <2>1, SMTT(30) DEF ControlInv, PcInv, AddPcs
    <2>3. mem[cur] # "dirty" /\ pc # "bpf" /\ pc' \notin {"bpf", "sync_fsync", "sync_meta"}
      BY <2>1 DEF ControlInv, PcInv, AddInv, EnsurePcs
    <2>4. mode = "periodic" => buf[cur] = <<>>
      BY <1>1, <2>3, Zenon DEF BufInv
    <2>5. \A n \in Names : n # cur => mem'[n] = mem[n]
      BY <1>1, <1>4, Zenon DEF EnsureMeta, MarkDirty, UpdateMeta, memVars
    <2> QED
      BY <2>1, <2>2, <2>3, <2>4, <2>5, BufCur, Zenon
  <1> QED
    BY <1>2, <1>3, <1>4, Zenon

(* A digest is buffered, and put into the map.                             *)
LEMMA StageBuf ==
  ASSUME TypeOK, ControlInv, BufInv, StageDigest \/ BpfAdd
  PROVE  BufInv'
  <1>1. /\ cur \in Names /\ buf \in [Names -> Seq(Digests)] /\ dirty \in [Names -> BOOLEAN]
    BY Zenon DEF TypeOK, ControlType, BufType, SetType
  <1>2. pc \in {"stage", "bpf"}
    BY ZenonT(60) DEF StageDigest, BpfAdd
  <1>3. cur \in Loaded /\ (mode = "periodic" => mem[cur] = "dirty")
    BY <1>2 DEF ControlInv, PcInv, AddInv, AddPcs
  <1>4. UNCHANGED <<fd, mem, mode, cur>>
    BY Zenon DEF StageDigest, BpfAdd, procVars
  <1>5. CASE StageDigest
    <2>1. pc = "stage" /\ dirty' = dirty
      BY <1>5, Zenon DEF StageDigest
    <2>2. \A n \in Names : n # cur => buf'[n] = buf[n]
      BY <1>1, <1>5, Zenon DEF StageDigest, FlushFails
    <2>3. pc # "bpf"
      BY <2>1
    <2>4. mode = "periodic" /\ buf[cur] # <<>> => dirty[cur]
      BY <1>1, <2>3, Zenon DEF BufInv
    <2>5. mode = "periodic" /\ marked /\ ~any => buf[cur] = <<>>
      BY <2>1 DEF BufInv
    <2>6. CASE UNCHANGED buf /\ Abort
      <3>1. pc' \in {"restore", "idle"} /\ (pc' = "restore" => marked /\ ~any)
        BY <2>6, Zenon DEF Abort, Goto, Return, itemVars
      <3>2. pc' \notin {"bpf", "stage", "sync_fsync", "sync_meta"}
        BY <3>1
      <3>3. mode = "periodic" => /\ buf'[cur] # <<>> => mem'[cur] = "dirty" /\ dirty'[cur]
                                 /\ pc' = "restore" => buf'[cur] = <<>>
        BY <1>3, <1>4, <2>1, <2>4, <2>5, <2>6, <3>1, Zenon
      <3> QED
        BY <1>3, <1>4, <2>1, <2>2, <3>2, <3>3, BufCur, ZenonT(60)
    <2>7. CASE /\ stage' = [buf |-> buf[cur], dirty |-> dirty[cur], file |-> log[cur]]
               /\ pc' = IF mode = "always" THEN "write" ELSE "bpf"
               /\ UNCHANGED <<marked, any>>
      <3>1. stage'.buf = buf[cur] /\ stage'.dirty = dirty[cur]
        BY <2>7
      <3>2. pc' \in {"write", "bpf"} /\ (mode = "periodic" => pc' = "bpf")
        BY <2>7
      <3>3. pc' \notin {"stage", "restore", "sync_fsync", "sync_meta"}
        BY <3>2
      <3> HIDE <2>7
      <3>4. UNCHANGED <<marked, any>>
        BY <2>7, Zenon
      <3>5. mode = "periodic" => /\ mem'[cur] = "dirty" /\ pc' = "bpf"
                                 /\ stage'.buf # <<>> => stage'.dirty /\ (marked' => any')
        BY <1>3, <1>4, <2>4, <2>5, <3>1, <3>2, <3>4, Zenon
      <3> QED
        BY <1>3, <1>4, <2>1, <2>2, <3>3, <3>5, BufCur, ZenonT(60)
    <2> QED
      BY <1>5, <2>6, <2>7, Zenon DEF StageDigest, FlushFails
  <1>6. CASE BpfAdd
    <2>1. buf' = buf /\ pc' \in {"stage", "idle"} /\ (pc' = "stage" => any')
      BY <1>6 DEF BpfAdd, Return
    <2>2. (mode = "periodic" => dirty'[cur]) /\ \A n \in Names : n # cur => dirty'[n] = dirty[n]
      BY <1>1, <1>6, Zenon DEF BpfAdd
    <2>3. pc' \notin {"bpf", "restore", "sync_fsync", "sync_meta"}
      BY <2>1
    <2> QED
      BY <1>3, <1>4, <2>1, <2>2, <2>3, BufCur, ZenonT(60)
  <1> QED
    BY <1>5, <1>6, Zenon

(* The steps of an "always" daemon, and what undoes an item.               *)
LEMMA UndoBuf ==
  ASSUME TypeOK, ControlInv, BufInv, StageWrite \/ StageFsync \/ BpfAddFails \/ RollbackTruncate \/ RestoreClean
  PROVE  BufInv'
  <1>1. /\ cur \in Names /\ buf \in [Names -> Seq(Digests)] /\ dirty \in [Names -> BOOLEAN]
        /\ mem \in [Names -> MetaStates]
    BY Zenon DEF TypeOK, ControlType, BufType, SetType
  <1>2. pc \in {"write", "fsync", "bpf", "truncate", "restore"}
    BY ZenonT(60) DEF StageWrite, StageFsync, BpfAddFails, RollbackTruncate, RestoreClean
  <1>3. cur \in Loaded
    BY <1>2 DEF ControlInv, PcInv, AddPcs
  <1>4. /\ UNCHANGED <<fd, mode, cur>>
        /\ \A n \in Names : n # cur => mem'[n] = mem[n] /\ buf'[n] = buf[n] /\ dirty'[n] = dirty[n]
    BY <1>1, ZenonT(60)
       DEF StageWrite, StageFsync, BpfAddFails, RollbackTruncate, RestoreClean, UpdateMeta, Flush,
           FlushFails, memVars, procVars
  <1>5. pc' \notin {"sync_fsync", "sync_meta"}
    BY Zenon
       DEF StageWrite, StageFsync, BpfAddFails, RollbackTruncate, RestoreClean, Abort, Goto, Return
  <1>6. CASE mode # "periodic"
    BY <1>3, <1>4, <1>5, <1>6, BufCur, Zenon
  <1>7. CASE mode = "periodic" /\ BpfAddFails
    <2>1. pc = "bpf" /\ mode # "always" /\ mem' = mem
      BY <1>7 DEF BpfAddFails
    <2>2. /\ buf' = [buf EXCEPT ![cur] = IF Len(stage.buf) = BufCap THEN <<>> ELSE stage.buf]
          /\ dirty' = [dirty EXCEPT ![cur] = stage.dirty] /\ Abort
      BY <1>7, <2>1, Zenon DEF BpfAddFails
    <2>3. dirty'[cur] = stage.dirty /\ (buf'[cur] # <<>> => stage.buf # <<>>)
      BY <1>1, <2>2, ZenonT(60)
    <2>4. mem[cur] = "dirty" /\ (stage.buf # <<>> => stage.dirty /\ (marked => any))
      BY <1>7, <2>1 DEF BufInv, ControlInv, AddInv
    <2>5. pc' \in {"restore", "idle"} /\ (pc' = "restore" => marked /\ ~any)
      BY <2>2, Zenon DEF Abort, Goto, Return
    <2>6. pc' # "bpf" /\ pc' # "stage"
      BY <2>5
    <2>7. (buf'[cur] # <<>> => mem'[cur] = "dirty" /\ dirty'[cur]) /\ (pc' = "restore" => buf'[cur] = <<>>)
      BY <2>1, <2>3, <2>4, <2>5, Zenon
    <2>8. pc' \in {"stage", "restore"} => buf'[cur] = <<>>
      BY <2>6, <2>7
    <2> QED
      BY <1>3, <1>4, <1>5, <2>6, <2>7, <2>8, BufCur, ZenonT(60)
  <1>8. CASE mode = "periodic" /\ RestoreClean
    <2>1. pc = "restore" /\ buf' = buf /\ pc' = "idle"
      BY <1>8, ZenonT(60) DEF RestoreClean, UpdateMeta, Return, memVars
    <2>2. buf[cur] = <<>> /\ pc' \notin {"bpf", "stage", "restore"}
      BY <1>8, <2>1, SMTT(30) DEF BufInv, ControlInv, AddInv
    <2> QED
      BY <1>3, <1>4, <1>5, <2>1, <2>2, BufCur, Zenon
  <1>9. CASE mode = "periodic" /\ (StageWrite \/ StageFsync \/ RollbackTruncate)
    BY <1>9 DEF StageWrite, StageFsync, RollbackTruncate, ControlInv, AddInv
  <1> QED
    BY <1>6, <1>7, <1>8, <1>9, Zenon

LEMMA SyncBuf == ASSUME TypeOK, ControlInv, BufInv, Sync PROVE BufInv'
  <1>1. /\ cur \in Names /\ buf \in [Names -> Seq(Digests)] /\ dirty \in [Names -> BOOLEAN]
        /\ mem \in [Names -> MetaStates]
    BY ZenonT(60) DEF TypeOK, ControlType, BufType, SetType
  <1>2. pc \in SyncPcs
    BY DEF Sync, SyncWrite, SyncFsync, SyncMeta, SyncPcs
  <1>3. cur \in Loaded
    BY <1>2 DEF ControlInv, PcInv
  <1>4. /\ UNCHANGED <<fd, mode, cur>>
        /\ \A n \in Names : n # cur => mem'[n] = mem[n] /\ buf'[n] = buf[n] /\ dirty'[n] = dirty[n]
    BY <1>1, ZenonT(60)
       DEF Sync, SyncWrite, SyncFsync, SyncMeta, UpdateMeta, Flush, FlushFails, memVars, procVars
  <1>5. pc' \notin {"stage", "bpf", "restore"} /\ pc # "bpf"
    BY DEF Sync, SyncWrite, SyncFsync, SyncMeta, Goto, Return
  <1>6. CASE buf'[cur] = <<>>
    BY <1>3, <1>4, <1>5, <1>6, BufCur, Zenon
  <1>7. CASE buf'[cur] # <<>>
    <2>1. SyncWrite /\ FlushFails(cur) /\ Return
      <3>1. CASE SyncWrite
        <4>1. ~Flush(cur)
          BY <1>1, <1>7, Zenon DEF Flush
        <4> QED
          BY <3>1, <4>1, Zenon DEF SyncWrite
      <3>2. CASE SyncFsync \/ SyncMeta
        <4>1. buf' = buf /\ pc \in {"sync_fsync", "sync_meta"}
          BY <3>2, Zenon DEF SyncFsync, SyncMeta, UpdateMeta, memVars
        <4> QED
          BY <1>7, <4>1, Zenon DEF BufInv
      <3> QED
        BY <3>1, <3>2, Zenon DEF Sync
    <2>2. buf' = buf /\ mem' = mem /\ dirty' = dirty /\ pc' = "idle"
      BY <2>1, Zenon DEF SyncWrite, FlushFails, Return
    <2>3. pc' \notin {"sync_fsync", "sync_meta"}
      BY <2>2
    <2>4. mode = "periodic" => mem[cur] = "dirty" /\ dirty[cur]
      BY <1>1, <1>5, <1>7, <2>2, Zenon DEF BufInv
    <2> QED
      BY <1>3, <1>4, <1>5, <2>2, <2>3, <2>4, BufCur, Zenon
  <1> QED
    BY <1>6, <1>7, Zenon

(* What waits in the buffer of a "periodic" daemon is known to be pending: *)
(* log_dirty makes the timer write it, and log_clean=0 on disk warns a     *)
(* restart that comes first.  Torn writes, lost directory entries and      *)
(* failing reads included.                                                 *)
THEOREM PendingMarked == Spec => []PendingIsMarked
  <1>1. Init => BufInv
    BY DEF Init, BufInv
  <1>2. TypeOK /\ ControlInv /\ BufInv /\ [Next]_vars => BufInv'
    <2> SUFFICES ASSUME TypeOK, ControlInv, BufInv, [Next]_vars PROVE BufInv'
      OBVIOUS
    <2>1. CASE Next
      BY <2>1, OthersBuf, SetBuf, LoadBuf, MakeDurableBuf, StageBuf, UndoBuf, SyncBuf, Zenon
         DEF Next, Daemon, Environment, Requests, Create, Add, Drop, Shutdown
    <2>2. CASE UNCHANGED vars
      <3>1. UNCHANGED <<fd, mem, buf, dirty, mode, pc, cur, stage, marked, any>>
        BY <2>2, Zenon DEF vars, memVars, procVars, itemVars
      <3> QED
        BY <3>1, Zenon DEF BufInv, Loaded
    <2> QED
      BY <2>1, <2>2, Zenon
  <1>3. TypeOK /\ ControlInv /\ BufInv => PendingIsMarked
    <2> SUFFICES ASSUME ControlInv, BufInv, pc = "idle", mode = "periodic", NEW n \in Names, buf[n] # <<>>
                 PROVE  dirty[n] /\ meta[n] = "dirty"
      BY Zenon DEF PendingIsMarked
    <2>1. n \in Loaded /\ mem[n] = "dirty" /\ dirty[n]
      BY DEF BufInv
    <2>2. mem[n] = meta[n]
      BY <2>1 DEF ControlInv, SetInv
    <2> QED
      BY <2>1, <2>2, Zenon
  <1> QED
    BY <1>1, <1>2, <1>3, ControlInvariant, PTL DEF Spec
=============================================================================
