------------------------- MODULE VolumeManagerProofs -------------------------
(***************************************************************************)
(* Theorems about VolumeManager for every value of its constants.          *)
(*                                                                         *)
(* Part 1: type correctness and lock ownership.  Neither is inductive      *)
(* alone: a step reads the locals that earlier steps set and indexes a     *)
(* list that only the holder of a mutex may change.  Inv adds both facts,  *)
(* and one lemma per conjunct of Inv goes through the actions.             *)
(***************************************************************************)
EXTENDS VolumeManager, TLAPS

Inv == /\ TypeOK
       /\ LockOwnership
       /\ LocalsReady
       /\ ImagesPresent

-----------------------------------------------------------------------------
(* Operators. *)

\* The inode ids in a list of files are inode ids.
LEMMA InodesType ==
    ASSUME NEW s \in Seq(FileTask)
    PROVE  InodesOf(s) \subseteq InodeIds
  <1>1. \A k \in DOMAIN s : s[k] \in FileTask
    OBVIOUS
  <1> QED BY <1>1 DEF InodesOf, FileTask

\* The pending files with a new volume id are a list of files of the same length.
LEMMA SetVolumeType ==
    ASSUME NEW v \in VolumeIds, MemoryType,
           pending_files' = [k \in DOMAIN pending_files |->
                               [pending_files[k] EXCEPT !.volume_id = v]]
    PROVE  pending_files' \in Seq(FileRecord) /\ Len(pending_files') = Len(pending_files)
  <1>1. \A k \in DOMAIN pending_files : pending_files[k] \in FileRecord
    BY DEF MemoryType
  <1>2. \A k \in DOMAIN pending_files : [pending_files[k] EXCEPT !.volume_id = v] \in FileRecord
    BY <1>1 DEF FileRecord
  <1>3. DOMAIN pending_files = 1 .. Len(pending_files) /\ Len(pending_files) \in Nat
    BY DEF MemoryType
  <1>4. pending_files' \in [1 .. Len(pending_files) -> FileRecord]
    BY <1>2, <1>3
  <1> QED BY <1>3, <1>4

\* The pending files with a new offset for one of them likewise.
LEMMA SetOffsetType ==
    ASSUME NEW k \in DOMAIN pending_files, NEW o \in Nat, MemoryType,
           pending_files' = [pending_files EXCEPT ![k].offset_in_volume = o]
    PROVE  pending_files' \in Seq(FileRecord) /\ Len(pending_files') = Len(pending_files)
  <1>1. pending_files[k] \in FileRecord
    BY DEF MemoryType
  <1>2. [pending_files[k] EXCEPT !.offset_in_volume = o] \in FileRecord
    BY <1>1 DEF FileRecord
  <1>3. pending_files' = [pending_files EXCEPT
                            ![k] = [pending_files[k] EXCEPT !.offset_in_volume = o]]
    OBVIOUS
  <1> QED BY <1>2, <1>3 DEF MemoryType

\* A return resets the locals to values of their types and records inode ids only.
LEMMA ReturnType ==
    ASSUME NEW t \in Threads, NEW code, LocalsType, HistoryType, Return(t, code)
    PROVE  /\ LocalsType'
           /\ accepted' \in SUBSET InodeIds
  <1>1. InodesOf(tasks[t]) \subseteq InodeIds
    BY InodesType DEF LocalsType
  <1>2. LocalsType'
    BY DEF LocalsType, Return, Goto, Pcs, FileContents
  <1>3. accepted \in SUBSET InodeIds
    BY DEF HistoryType
  <1>4. accepted' = accepted \cup InodesOf(tasks[t]) \/ accepted' = accepted
    BY DEF Return
  <1> QED BY <1>1, <1>2, <1>3, <1>4

LEMMA GotoType ==
    ASSUME NEW t \in Threads, NEW label \in Pcs, LocalsType, Goto(t, label)
    PROVE  pc' \in [Threads -> Pcs]
  BY DEF LocalsType, Goto

\* After an iteration a loop variable is again positive.
LEMMA NextFileType ==
    ASSUME NEW t \in Threads, NEW label \in Pcs, LocalsType, NextFile(t, label)
    PROVE  /\ pc' \in [Threads -> Pcs]
           /\ index' \in [Threads -> Nat \ {0}]
  <1>1. index \in [Threads -> Nat \ {0}] /\ pc \in [Threads -> Pcs]
    BY DEF LocalsType
  <1>2. \/ index' = [index EXCEPT ![t] = 1] /\ pc' = [pc EXCEPT ![t] = label]
        \/ index' = [index EXCEPT ![t] = @ + 1] /\ pc' = pc
    BY DEF NextFile, Goto
  <1> QED BY <1>1, <1>2

\* An image with one more metadata record is an image.
LEMMA AppendMetaType ==
    ASSUME NEW image \in Image, NEW file \in FileRecord
    PROVE  [image EXCEPT !.metas = Append(@, file)] \in Image
  <1>1. Append(image.metas, file) \in Seq(FileRecord)
    BY DEF Image
  <1> QED BY <1>1 DEF Image

\* The header a pack starts from, and the header with one more file in it.
LEMMA PlannedType ==
    ASSUME NEW v \in VolumeIds, MemoryType
    PROVE  [volume_id |-> v, file_count |-> Len(pending_files),
            user_data_offset |-> HeaderLen + RecordLen * Len(pending_files),
            user_data_size |-> 0] \in VolumeRecord
  <1>1. Len(pending_files) \in Nat
    BY DEF MemoryType
  <1>2. HeaderLen + RecordLen * Len(pending_files) \in Nat
    BY <1>1, SizesAssumption
  <1> QED BY <1>1, <1>2 DEF VolumeRecord

LEMMA PlacedType ==
    ASSUME NEW m \in VolumeRecord, NEW file \in FileRecord
    PROVE  [m EXCEPT !.user_data_size = @ + CompressedSize[file.path]] \in VolumeRecord
  <1>1. CompressedSize[file.path] \in Nat
    BY SizesAssumption DEF FileRecord
  <1> QED BY <1>1 DEF VolumeRecord

\* What is read back as a file is the content of some path, never None or Torn.
LEMMA FramesType ==
    ASSUME NEW file \in FileRecord, DiskType,
           file.volume_id \in VolumeIds, images[file.volume_id] # None
    PROVE  Frames(file) \subseteq Paths
  BY DEF Frames, DiskType, Image, Extent, FileRecord

\* What a read may make of it is that or Torn, never None.
LEMMA DecompressedType ==
    ASSUME NEW file \in FileRecord, DiskType,
           file.volume_id \in VolumeIds, images[file.volume_id] # None
    PROVE  Decompressed(file) \subseteq FileContents \ {None}
  BY FramesType, IdsAssumption DEF Decompressed, FileContents

-----------------------------------------------------------------------------
(* Types. *)

LEMMA MemoryStep ==
    ASSUME NEW t \in Threads, Inv, Call(t) \/ Step(t)
    PROVE  MemoryType'
  <1> USE DEF Inv, TypeOK, MemoryType
  <1>1. CASE PushFile(t)
    <2>1. tasks[t][index[t]] \in FileTask
      BY <1>1 DEF PushFile, LocalsType, LocalsReady, LocalsReadyAt, AddPcs
    <2> QED BY <1>1, <2>1, SizesAssumption DEF PushFile, Size, FileTask, FileRecord
  <1>2. CASE PlanVolume(t)
    <2>1. PICK v \in VolumeIds :
            pending_files' = [k \in DOMAIN pending_files |->
                                [pending_files[k] EXCEPT !.volume_id = v]]
      BY <1>2 DEF PlanVolume, GenerateVolumeId
    <2>2. pending_files' \in Seq(FileRecord)
      BY <2>1, SetVolumeType
    <2> QED BY <1>2, <2>2 DEF PlanVolume
  <1>3. CASE PlaceFile(t)
    <2>1. NextOffset(volume_meta[t]) \in Nat
      BY <1>3 DEF PlaceFile, NextOffset, LocalsType, LocalsReady, LocalsReadyAt,
                  LockedPackPcs, VolumeRecord
    <2>2. index[t] \in DOMAIN pending_files
      BY <1>3 DEF PlaceFile, LocalsType, LocalsReady, LocalsReadyAt
    <2>3. pending_files' \in Seq(FileRecord)
      BY <1>3, <2>1, <2>2, SetOffsetType DEF PlaceFile
    <2> QED BY <1>3, <2>3 DEF PlaceFile
  <1>4. CASE WriteMeta(t)
    <2>1. pending_files[index[t]] \in FileRecord
      BY <1>4 DEF WriteMeta, LocalsType, LocalsReady, LocalsReadyAt
    <2> QED BY <1>4, <2>1 DEF WriteMeta, CachePlace, FileRecord
  <1>5. CASE MountRecord(t)
    <2>1. images[volume_meta[t].volume_id] \in Image
      BY <1>5 DEF MountRecord, LocalsType, LocalsReady, LocalsReadyAt, DiskType,
                  LockedPackPcs, VolumeRecord
    <2>2. images[volume_meta[t].volume_id].metas[index[t]] \in FileRecord
      BY <1>5, <2>1 DEF MountRecord, Image, LocalsType
    <2> QED BY <1>5, <2>2 DEF MountRecord, FileRecord
  <1>6. CASE FinishPack(t)
    BY <1>6 DEF FinishPack, ClearPending, LocalsType, LocalsReady, LocalsReadyAt,
                LockedPackPcs, VolumeRecord
  <1>7. CASE FinishMount(t)
    BY <1>7 DEF FinishMount, LocalsType, LocalsReady, LocalsReadyAt, VolumeRecord
  <1>8. CASE Unmount(t)
    BY <1>8 DEF Unmount
  <1>9. CASE \/ CallAdd(t) \/ CallBatch(t) \/ CallPack(t) \/ CallMount(t) \/ CallRead(t)
             \/ CompressFile(t) \/ CompressFileFails(t) \/ JoinCompress(t)
             \/ JoinCompressFails(t) \/ CheckRoom(t) \/ PushTooLarge(t) \/ LockPack(t)
             \/ NothingToPack(t) \/ WriteHeader(t) \/ ReadTemps(t) \/ JoinWrites(t)
             \/ MountRecordFails(t) \/ ReadImage(t) \/ ReadImageFails(t)
             \/ FillOutput(t) \/ FillOutputFails(t)
    BY <1>9 DEF CallAdd, CallBatch, CallPack, CallMount, CallRead, CompressFile,
                CompressFileFails, JoinCompress, JoinCompressFails, CheckRoom,
                PushTooLarge, LockPack, NothingToPack, WriteHeader, ReadTemps,
                JoinWrites, MountRecordFails, ReadImage, ReadImageFails, FillOutput,
                FillOutputFails, memVars
  <1>10. CASE \/ WriteHeaderFails(t) \/ WriteMetaFails(t) \/ ReadTempsFails(t)
              \/ JoinWritesFails(t)
    BY <1>10 DEF WriteHeaderFails, WriteMetaFails, ReadTempsFails, JoinWritesFails,
                 PackFails
  <1> QED BY <1>1, <1>2, <1>3, <1>4, <1>5, <1>6, <1>7, <1>8, <1>9, <1>10
          DEF Call, Step, CollectStep, PackStep, MountReadStep

LEMMA DiskStep ==
    ASSUME NEW t \in Threads, Inv, Call(t) \/ Step(t)
    PROVE  DiskType'
  <1> USE DEF Inv, TypeOK, DiskType
  <1>1. CASE CompressFile(t) \/ CompressFileFails(t)
    <2>1. tasks[t][1] \in FileTask
      BY <1>1 DEF CompressFile, CompressFileFails, LocalsType, LocalsReady,
                  LocalsReadyAt, AddPcs
    <2> QED BY <1>1, <2>1 DEF CompressFile, CompressFileFails, LeaveTemp, FileTask,
                              FileContents
  <1>2. CASE WriteHeader(t)
    <2>1. volume_meta[t] \in VolumeRecord
      BY <1>2 DEF WriteHeader, LocalsType, LocalsReady, LocalsReadyAt, LockedPackPcs
    <2>2. [header |-> volume_meta[t], metas |-> <<>>, data |-> {}] \in Image
      BY <2>1 DEF Image
    <2> QED BY <1>2, <2>1, <2>2 DEF WriteHeader, VolumeRecord
  <1>3. CASE WriteHeaderFails(t)
    <2>1. [header |-> Torn, metas |-> <<>>, data |-> {}] \in Image
      BY DEF Image
    <2> QED BY <1>3, <2>1 DEF WriteHeaderFails, PackFails
  <1>4. CASE WriteMeta(t)
    <2> DEFINE v == volume_meta[t].volume_id
               file == pending_files[index[t]]
    <2>1. file \in FileRecord
      BY <1>4 DEF WriteMeta, LocalsType, MemoryType, LocalsReady, LocalsReadyAt
    <2>2. v \in VolumeIds /\ images[v] # None
      BY <1>4 DEF WriteMeta, LocalsType, LocalsReady, LocalsReadyAt, LockedPackPcs,
                  VolumeRecord
    <2>3. images[v] \in Image
      BY <2>2
    <2>4. [images[v] EXCEPT !.metas = Append(@, file)] \in Image
      BY <2>1, <2>3, AppendMetaType
    <2>5. images' = [images EXCEPT ![v] = [images[v] EXCEPT !.metas = Append(@, file)]]
      BY <1>4 DEF WriteMeta
    <2> QED BY <1>4, <2>4, <2>5 DEF WriteMeta
  <1>5. CASE FinishPack(t)
    BY <1>5 DEF FinishPack, DeleteTemps, FileContents
  <1>6. CASE ReadImage(t)
    BY <1>6 DEF ReadImage, FileContents
  <1>7. CASE FillOutput(t)
    BY <1>7 DEF FillOutput, LocalsType, FileContents
  <1>8. CASE \/ WriteMetaFails(t) \/ ReadTempsFails(t) \/ JoinWritesFails(t)
    BY <1>8 DEF WriteMetaFails, ReadTempsFails, JoinWritesFails, PackFails
  <1>9. CASE \/ Call(t)
             \/ JoinCompress(t) \/ JoinCompressFails(t) \/ CheckRoom(t) \/ PushFile(t)
             \/ PushTooLarge(t) \/ LockPack(t) \/ NothingToPack(t) \/ PlanVolume(t)
             \/ PlaceFile(t) \/ ReadTemps(t) \/ JoinWrites(t) \/ MountRecord(t)
             \/ MountRecordFails(t) \/ FinishMount(t) \/ ReadImageFails(t)
             \/ FillOutputFails(t)
    BY <1>9 DEF Call, CallAdd, CallBatch, CallPack, CallMount, CallRead, Unmount,
                JoinCompress, JoinCompressFails, CheckRoom, PushFile, PushTooLarge,
                LockPack, NothingToPack, PlanVolume, PlaceFile, ReadTemps, JoinWrites,
                MountRecord, MountRecordFails, FinishMount, ReadImageFails,
                FillOutputFails, diskVars
  <1> QED BY <1>1, <1>2, <1>3, <1>4, <1>5, <1>6, <1>7, <1>8, <1>9
          DEF Step, CollectStep, PackStep, MountReadStep

\* A task keeps its type when its future is dropped.
LEMMA DropFuturesType ==
    ASSUME NEW t \in Threads, SyncType, DropFutures(t)
    PROVE  /\ pool' \in SUBSET (CompressTask \cup WriteTask)
           /\ failed' \in SUBSET (Threads \X Nat)
  <1>1. \A task \in pool : [task EXCEPT !.owner = None] \in CompressTask \cup WriteTask
    BY DEF SyncType, CompressTask, WriteTask
  <1> QED BY <1>1 DEF SyncType, DropFutures

LEMMA WriteTaskType ==
    ASSUME NEW t \in Threads, NEW k \in DOMAIN pending_files, Inv,
           pc[t] \in LockedPackPcs, TempPresent(pending_files[k])
    PROVE  WriteTaskOf(t, k) \in WriteTask
  <1>1. pending_files[k] \in FileRecord /\ k \in Nat
    BY DEF Inv, TypeOK, MemoryType
  <1>2. temp_files[pending_files[k].inode_id] \in Paths \cup {Torn}
    BY <1>1 DEF Inv, TypeOK, DiskType, TempPresent, FileRecord, FileContents
  <1>3. volume_meta[t].volume_id \in VolumeIds
    BY DEF Inv, TypeOK, LocalsType, LocalsReady, LocalsReadyAt, VolumeRecord
  <1> QED BY <1>1, <1>2, <1>3, SizesAssumption
          DEF WriteTaskOf, WriteTask, Extent, FileRecord

LEMMA SyncStep ==
    ASSUME NEW t \in Threads, Inv, Call(t) \/ Step(t)
    PROVE  SyncType'
  <1> USE DEF Inv, TypeOK, SyncType
  <1>1. CASE CallBatch(t)
    <2>1. PICK n \in 1 .. MaxBatch : \E s \in [1 .. n -> FileTask] :
            pool' = pool \cup {[kind |-> "compress", owner |-> t, k |-> k,
                                inode_id |-> s[k].inode_id, path |-> s[k].path] : k \in 1 .. n}
      BY <1>1 DEF CallBatch
    <2>2. pool' \in SUBSET (CompressTask \cup WriteTask)
      BY <2>1 DEF CompressTask, FileTask
    <2> QED BY <1>1, <2>2 DEF CallBatch, lockVars
  <1>2. CASE ReadTemps(t)
    <2>1. \A k \in DOMAIN pending_files : WriteTaskOf(t, k) \in WriteTask
      BY <1>2, WriteTaskType DEF ReadTemps, LockedPackPcs
    <2> QED BY <1>2, <2>1 DEF ReadTemps, lockVars
  <1>3. CASE JoinCompressFails(t)
    BY <1>3, DropFuturesType DEF JoinCompressFails, lockVars
  <1>4. CASE JoinWritesFails(t)
    BY <1>4, DropFuturesType DEF JoinWritesFails, PackFails, ReleaseLocks
  <1>5. CASE \/ PushFile(t) \/ PushTooLarge(t) \/ LockPack(t) \/ NothingToPack(t)
             \/ PlanVolume(t) \/ WriteHeaderFails(t) \/ WriteMetaFails(t)
             \/ ReadTempsFails(t) \/ FinishPack(t)
    BY <1>5 DEF PushFile, PushTooLarge, LockPack, NothingToPack, PlanVolume,
                WriteHeaderFails, WriteMetaFails, ReadTempsFails, FinishPack,
                PackFails, ReleaseLocks, poolVars
  <1>6. CASE \/ CallAdd(t) \/ CallPack(t) \/ CallMount(t) \/ CallRead(t) \/ Unmount(t)
             \/ CompressFile(t) \/ CompressFileFails(t) \/ JoinCompress(t)
             \/ CheckRoom(t) \/ PlaceFile(t) \/ WriteHeader(t) \/ WriteMeta(t)
             \/ JoinWrites(t) \/ MountReadStep(t)
    BY <1>6 DEF CallAdd, CallPack, CallMount, CallRead, Unmount, CompressFile,
                CompressFileFails, JoinCompress, CheckRoom, PlaceFile, WriteHeader,
                WriteMeta, JoinWrites, MountReadStep, MountRecord, MountRecordFails,
                FinishMount, ReadImage, ReadImageFails, FillOutput, FillOutputFails,
                lockVars, poolVars
  <1> QED BY <1>1, <1>2, <1>3, <1>4, <1>5, <1>6
          DEF Call, Step, CollectStep, PackStep

\* The steps that only set the program counter, or that and the trigger.
LEMMA PcType ==
    ASSUME NEW t \in Threads, NEW label \in Pcs, NEW why \in Triggers, LocalsType,
           Goto(t, label), UNCHANGED <<tasks, packVars, readVars>>,
           trigger' = trigger \/ trigger' = [trigger EXCEPT ![t] = why]
    PROVE  LocalsType'
  BY GotoType DEF LocalsType, packVars, readVars

LEMMA LocalsStep ==
    ASSUME NEW t \in Threads, Inv, Call(t) \/ Step(t)
    PROVE  LocalsType'
  <1> USE DEF Inv, TypeOK
  <1> USE DEF Pcs, AddPcs, UnlockedPackPcs, LockedPackPcs, MountReadPcs
  <1>1. CASE CallAdd(t)
    <2>1. PICK i \in InodeIds, p \in Paths :
            tasks' = [tasks EXCEPT ![t] = <<[inode_id |-> i, path |-> p]>>]
      BY <1>1 DEF CallAdd, GenerateInodeId
    <2>2. <<[inode_id |-> i, path |-> p]>> \in Seq(FileTask)
      BY DEF FileTask
    <2> QED BY <1>1, <2>1, <2>2 DEF CallAdd, Goto, LocalsType, packVars, readVars
  <1>2. CASE CallBatch(t)
    <2>1. PICK n \in 1 .. MaxBatch : \E s \in [1 .. n -> FileTask] :
            tasks' = [tasks EXCEPT ![t] = s]
      BY <1>2 DEF CallBatch
    <2>2. PICK s \in [1 .. n -> FileTask] : tasks' = [tasks EXCEPT ![t] = s]
      BY <2>1
    <2>3. s \in Seq(FileTask)
      BY BoundsAssumption
    <2> QED BY <1>2, <2>2, <2>3 DEF CallBatch, Goto, LocalsType, packVars, readVars
  <1>3. CASE CallMount(t)
    <2>1. PICK v \in VolumeIds :
            /\ images[v] # None /\ images[v].header # Torn
            /\ volume_meta' = [volume_meta EXCEPT ![t] = images[v].header]
      BY <1>3 DEF CallMount
    <2>2. images[v].header \in VolumeRecord
      BY <2>1 DEF DiskType, Image
    <2> QED BY <1>3, <2>1, <2>2 DEF CallMount, Goto, LocalsType, addVars, readVars
  <1>4. CASE CallRead(t)
    BY <1>4 DEF CallRead, Goto, MemoryType, LocalsType, addVars, packVars
  <1>5. CASE PushFile(t)
    <2>1. CASE /\ index' = [index EXCEPT ![t] = @ + 1]
               /\ UNCHANGED <<pc, addVars, volume_meta, readVars>>
      <3>1. index[t] + 1 \in Nat \ {0}
        BY DEF LocalsType
      <3> QED BY <2>1, <3>1 DEF LocalsType, addVars, readVars
    <2>2. CASE /\ index' = [index EXCEPT ![t] = 1]
               /\ trigger' = [trigger EXCEPT ![t] = "AutoThreshold"]
               /\ Goto(t, "lock_pack")
               /\ UNCHANGED <<tasks, volume_meta, readVars>>
      BY <2>2 DEF LocalsType, Goto, Triggers, readVars
    <2>3. CASE Return(t, "SUCCESS")
      BY <2>3, ReturnType
    <2> QED BY <1>5, <2>1, <2>2, <2>3 DEF PushFile
  <1>6. CASE PlanVolume(t)
    <2>1. PICK v \in VolumeIds :
            volume_meta' = [volume_meta EXCEPT ![t] =
                [volume_id |-> v, file_count |-> Len(pending_files),
                 user_data_offset |-> HeaderLen + RecordLen * Len(pending_files),
                 user_data_size |-> 0]]
      BY <1>6 DEF PlanVolume, GenerateVolumeId
    <2>2. volume_meta' \in [Threads -> VolumeRecord \cup {None}]
      BY <2>1, PlannedType DEF LocalsType
    <2> QED BY <1>6, <2>2 DEF PlanVolume, LocalsType, Goto, addVars, readVars
  <1>7. CASE PlaceFile(t)
    <2>1. volume_meta[t] \in VolumeRecord
      BY <1>7 DEF PlaceFile, LocalsType, LocalsReady, LocalsReadyAt
    <2>2. pending_files[index[t]] \in FileRecord
      BY <1>7 DEF PlaceFile, MemoryType, LocalsType, LocalsReady, LocalsReadyAt
    <2> DEFINE placed == [volume_meta[t] EXCEPT !.user_data_size =
                            @ + CompressedSize[pending_files[index[t]].path]]
    <2>4. placed \in VolumeRecord
      BY <2>1, <2>2, PlacedType
    <2>5. volume_meta' = [volume_meta EXCEPT ![t] = placed]
      BY <1>7 DEF PlaceFile
    <2>6. volume_meta' \in [Threads -> VolumeRecord \cup {None}]
      BY <2>4, <2>5 DEF LocalsType
    <2> QED BY <1>7, <2>6, NextFileType DEF PlaceFile, LocalsType, addVars, readVars
  <1>8. CASE WriteMeta(t)
    BY <1>8, NextFileType DEF WriteMeta, LocalsType, addVars, readVars
  <1>9. CASE FinishPack(t)
    BY <1>9, ReturnType DEF FinishPack, LocalsType, Goto, readVars
  <1>10. CASE MountRecord(t)
    BY <1>10 DEF MountRecord, LocalsType, addVars, readVars
  <1>11. CASE ReadImage(t)
    <2>1. Decompressed(metadata[t]) \subseteq FileContents
      BY <1>11, DecompressedType DEF ReadImage, LocalsType, LocalsReady, LocalsReadyAt
    <2> QED BY <1>11, <2>1 DEF ReadImage, LocalsType, Goto, addVars, packVars
  <1>12. CASE CompressFile(t)
    BY <1>12, ReturnType DEF CompressFile, LocalsType, Goto, addVars, packVars, readVars
  <1>13. CASE \/ CallPack(t) \/ JoinCompress(t) \/ CheckRoom(t) \/ LockPack(t)
              \/ WriteHeader(t) \/ ReadTemps(t) \/ JoinWrites(t)
    BY <1>13, PcType DEF CallPack, JoinCompress, CheckRoom, LockPack, WriteHeader,
                         ReadTemps, JoinWrites, Triggers, addVars
  <1>14. CASE \/ CompressFileFails(t) \/ JoinCompressFails(t) \/ PushTooLarge(t)
              \/ NothingToPack(t) \/ WriteHeaderFails(t) \/ WriteMetaFails(t)
              \/ ReadTempsFails(t) \/ JoinWritesFails(t) \/ MountRecordFails(t)
              \/ FinishMount(t) \/ ReadImageFails(t) \/ FillOutput(t)
              \/ FillOutputFails(t)
    <2>1. \E code : Return(t, code)
      BY <1>14 DEF CompressFileFails, JoinCompressFails, PushTooLarge, NothingToPack,
                   WriteHeaderFails, WriteMetaFails, ReadTempsFails, JoinWritesFails,
                   MountRecordFails, FinishMount, ReadImageFails, FillOutput,
                   FillOutputFails, PackFails
    <2> QED BY <2>1, ReturnType
  <1>15. CASE Unmount(t)
    BY <1>15 DEF Unmount, LocalsType, addVars, packVars, readVars
  <1> QED BY <1>1, <1>2, <1>3, <1>4, <1>5, <1>6, <1>7, <1>8, <1>9, <1>10, <1>11, <1>12,
             <1>13, <1>14, <1>15
          DEF Call, Step, CollectStep, PackStep, MountReadStep

\* What a step of a thread may do to the history.
LEMMA HistoryFrame ==
    ASSUME NEW t \in Threads, Call(t) \/ Step(t)
    PROVE  /\ calls' = calls \/ calls' = calls + 1
           /\ faults' = faults \/ faults' = faults + 1
           /\ crashes' = crashes
           /\ UNCHANGED source \/ CallAdd(t) \/ CallBatch(t)
           /\ UNCHANGED sealed \/ FinishPack(t)
           /\ \/ UNCHANGED delivered
              \/ delivered' = [delivered EXCEPT ![t] = None]
              \/ FillOutput(t)
           /\ UNCHANGED accepted \/ \E code : Return(t, code)
  <1> USE DEF CallAdd, CallBatch, CallPack, CallMount, CallRead, Unmount, Begin,
        CollectStep, CompressFile, CompressFileFails, JoinCompress, JoinCompressFails,
        CheckRoom, PushFile, PushTooLarge, PackStep, LockPack, NothingToPack, PlanVolume,
        PlaceFile, WriteHeader, WriteHeaderFails, WriteMeta, WriteMetaFails, ReadTemps,
        ReadTempsFails, JoinWrites, JoinWritesFails, FinishPack, DeleteTemps, PackFails,
        MountReadStep, MountRecord, MountRecordFails, FinishMount, ReadImage,
        ReadImageFails, FillOutput, FillOutputFails, Fault, NoFault, answers, counters
  <1>1. CASE Call(t)
    BY <1>1 DEF Call
  <1>2. CASE CollectStep(t)
    BY <1>2
  <1>3. CASE PackStep(t)
    BY <1>3
  <1>4. CASE MountReadStep(t)
    BY <1>4
  <1> QED BY <1>1, <1>2, <1>3, <1>4 DEF Step

LEMMA HistoryStep ==
    ASSUME NEW t \in Threads, Inv, Call(t) \/ Step(t)
    PROVE  HistoryType'
  <1> USE DEF Inv, TypeOK, HistoryType
  <1>1. calls' \in Nat /\ faults' \in Nat /\ crashes' \in Nat
    BY HistoryFrame
  <1>2. source' \in [InodeIds -> Paths \cup {None}]
    <2>1. CASE CallAdd(t)
      BY <2>1 DEF CallAdd, GenerateInodeId
    <2>2. CASE CallBatch(t)
      <3>1. PICK n \in 1 .. MaxBatch : \E s \in [1 .. n -> FileTask] :
              source' = [i \in InodeIds |->
                          IF i \in InodesOf(s)
                          THEN s[CHOOSE k \in 1 .. n : s[k].inode_id = i].path
                          ELSE source[i]]
        BY <2>2 DEF CallBatch
      <3>2. PICK s \in [1 .. n -> FileTask] :
              source' = [i \in InodeIds |->
                          IF i \in InodesOf(s)
                          THEN s[CHOOSE k \in 1 .. n : s[k].inode_id = i].path
                          ELSE source[i]]
        BY <3>1
      <3>3. ASSUME NEW i \in InodesOf(s)
            PROVE  s[CHOOSE k \in 1 .. n : s[k].inode_id = i].path \in Paths
        <4>1. \E k \in 1 .. n : s[k].inode_id = i
          BY DEF InodesOf
        <4>2. (CHOOSE k \in 1 .. n : s[k].inode_id = i) \in 1 .. n
          BY <4>1
        <4> QED BY <4>2 DEF FileTask
      <3> QED BY <3>2, <3>3
    <2>3. CASE UNCHANGED source
      BY <2>3
    <2> QED BY <2>1, <2>2, <2>3, HistoryFrame
  <1>3. delivered' \in [Threads -> FileRecord \cup {None}]
    <2>1. delivered \in [Threads -> FileRecord \cup {None}]
      OBVIOUS
    <2>2. CASE FillOutput(t)
      <3>1. metadata[t] \in FileRecord \cup {None}
        BY DEF LocalsType
      <3> QED BY <2>1, <2>2, <3>1 DEF FillOutput
    <2> QED BY <2>1, <2>2, HistoryFrame
  <1>4. accepted' \in SUBSET InodeIds
    <2>1. accepted \in SUBSET InodeIds
      OBVIOUS
    <2> QED BY <2>1, HistoryFrame, ReturnType
  <1>5. sealed' \in SUBSET VolumeIds
    <2>1. CASE FinishPack(t)
      <3>1. volume_meta[t] \in VolumeRecord
        BY <2>1 DEF FinishPack, LocalsType, LocalsReady, LocalsReadyAt, LockedPackPcs
      <3>2. volume_meta[t].volume_id \in VolumeIds
        BY <3>1 DEF VolumeRecord
      <3>3. sealed' = sealed \cup {volume_meta[t].volume_id}
        BY <2>1 DEF FinishPack
      <3> QED BY <3>2, <3>3
    <2> QED BY <2>1, HistoryFrame
  <1> QED BY <1>1, <1>2, <1>3, <1>4, <1>5

-----------------------------------------------------------------------------
(* Mutexes. *)

\* A returning thread gives back what it holds.
LEMMA LockReturn ==
    ASSUME NEW t \in Threads, NEW code, Inv, Return(t, code),
           pack_mutex' = IF pack_mutex = t THEN None ELSE pack_mutex,
           state_mutex' = IF state_mutex = t THEN None ELSE state_mutex
    PROVE  LockOwnership'
  <1>1. /\ pc' = [pc EXCEPT ![t] = "idle"]
        /\ index' = [index EXCEPT ![t] = 1]
    BY DEF Return, Goto
  <1> QED BY <1>1, IdsAssumption
          DEF Inv, TypeOK, LockOwnership, InPack, InState, LockedPackPcs, LocalsType

LEMMA LockStep ==
    ASSUME NEW t \in Threads, Inv, Call(t) \/ Step(t)
    PROVE  LockOwnership'
  <1> USE IdsAssumption
      DEF Inv, TypeOK, LockOwnership, InPack, InState, LockedPackPcs, LocalsType, SyncType
  <1>1. CASE Call(t)
    <2>1. /\ UNCHANGED lockVars
          /\ pc[t] = "idle"
          /\ pc' = [pc EXCEPT ![t] = pc'[t]]
          /\ pc'[t] \in {"idle", "compress", "pool_compress", "lock_pack", "mount",
                        "read_image"}
      BY <1>1 DEF Call, CallAdd, CallBatch, CallPack, CallMount, CallRead, Unmount, Begin,
                  Goto
    <2>2. /\ pc' = [pc EXCEPT ![t] = pc'[t]]
          /\ UNCHANGED index \/ index' = [index EXCEPT ![t] = 1]
      BY <2>1, <1>1 DEF Call, CallAdd, CallBatch, CallPack, CallMount, CallRead, Unmount,
                        packVars
    <2> QED BY <2>1, <2>2 DEF lockVars
  \* Returns of a thread that holds no mutex.
  <1>2. CASE \/ CompressFileFails(t) \/ JoinCompressFails(t) \/ MountRecordFails(t)
             \/ FinishMount(t) \/ ReadImageFails(t) \/ FillOutput(t) \/ FillOutputFails(t)
    <2>1. /\ \E code : Return(t, code)
          /\ pack_mutex # t /\ state_mutex # t
          /\ UNCHANGED lockVars
      BY <1>2 DEF CompressFileFails, JoinCompressFails, MountRecordFails, FinishMount,
                  ReadImageFails, FillOutput, FillOutputFails
    <2> QED BY <2>1, LockReturn DEF lockVars
  <1>3. CASE CompressFile(t)
    <2>1. pack_mutex # t /\ state_mutex # t /\ UNCHANGED lockVars
      BY <1>3 DEF CompressFile
    <2>2. CASE Goto(t, "check") /\ UNCHANGED packVars
      BY <1>3, <2>1, <2>2 DEF CompressFile, LocalsReady, LocalsReadyAt, Goto, packVars, lockVars
    <2>3. CASE Return(t, "VOLUME_FULL")
      BY <2>1, <2>3, LockReturn DEF lockVars
    <2> QED BY <1>3, <2>2, <2>3 DEF CompressFile
  <1>4. CASE JoinCompress(t) \/ CheckRoom(t)
    <2>1. index[t] = 1 /\ pack_mutex # t /\ state_mutex # t
      BY <1>4 DEF JoinCompress, CheckRoom, LocalsReady, LocalsReadyAt
    <2>2. /\ UNCHANGED <<index, pack_mutex, state_mutex>>
          /\ \E label \in {"check", "push", "lock_pack"} : pc' = [pc EXCEPT ![t] = label]
      BY <1>4 DEF JoinCompress, CheckRoom, Goto, lockVars, packVars
    <2> QED BY <2>1, <2>2
  \* The append loop holds state_mutex_ between its iterations.
  <1>5. CASE PushFile(t)
    <2>1. pack_mutex # t /\ pack_mutex' = pack_mutex /\ state_mutex \in {None, t}
      BY <1>5 DEF PushFile
    <2>2. CASE /\ state_mutex' = t
               /\ index' = [index EXCEPT ![t] = @ + 1]
               /\ pc' = pc
      BY <1>5, <2>1, <2>2 DEF PushFile
    <2>3. CASE /\ state_mutex' = None
               /\ index' = [index EXCEPT ![t] = 1]
               /\ Goto(t, "lock_pack")
      BY <2>1, <2>3 DEF Goto
    <2>4. CASE state_mutex' = None /\ Return(t, "SUCCESS")
      BY <2>1, <2>4, LockReturn
    <2> QED BY <1>5, <2>2, <2>3, <2>4 DEF PushFile
  <1>6. CASE PushTooLarge(t)
    <2>1. /\ pack_mutex # t /\ pack_mutex' = pack_mutex
          /\ state_mutex \in {None, t} /\ state_mutex' = None
          /\ Return(t, "VOLUME_FULL")
      BY <1>6 DEF PushTooLarge
    <2> QED BY <2>1, LockReturn
  \* The pack takes one mutex, then the other.
  <1>7. CASE LockPack(t)
    BY <1>7 DEF LockPack, Goto, packVars
  <1>8. CASE NothingToPack(t)
    <2>1. /\ pack_mutex = t /\ pack_mutex' = None
          /\ state_mutex # t /\ state_mutex' = state_mutex
          /\ Return(t, "INVALID_PARAMETER")
      BY <1>8 DEF NothingToPack
    <2> QED BY <2>1, LockReturn
  <1>9. CASE PlanVolume(t)
    BY <1>9 DEF PlanVolume, Goto
  \* It works under both.
  <1>10. CASE PlaceFile(t) \/ WriteMeta(t)
    BY <1>10 DEF PlaceFile, WriteMeta, NextFile, Goto, lockVars
  <1>11. CASE WriteHeader(t) \/ ReadTemps(t) \/ JoinWrites(t)
    BY <1>11 DEF WriteHeader, ReadTemps, JoinWrites, Goto, lockVars, packVars
  \* It releases both at every return.
  <1>12. CASE \/ WriteHeaderFails(t) \/ WriteMetaFails(t) \/ ReadTempsFails(t)
              \/ JoinWritesFails(t)
    <2>1. /\ pack_mutex = t /\ state_mutex = t
          /\ PackFails(t, "IO_ERROR")
      BY <1>12 DEF WriteHeaderFails, WriteMetaFails, ReadTempsFails, JoinWritesFails
    <2> QED BY <2>1, LockReturn DEF PackFails, ReleaseLocks
  <1>13. CASE FinishPack(t)
    <2>1. /\ pack_mutex = t /\ state_mutex = t
          /\ pack_mutex' = None /\ state_mutex' = None
          /\ index[t] = 1
      BY <1>13 DEF FinishPack, ReleaseLocks, LocalsReady, LocalsReadyAt
    <2>2. CASE Goto(t, "push") /\ UNCHANGED index
      BY <2>1, <2>2 DEF Goto
    <2>3. CASE Return(t, "SUCCESS")
      BY <2>1, <2>3, LockReturn
    <2> QED BY <1>13, <2>2, <2>3 DEF FinishPack
  <1>14. CASE MountRecord(t) \/ ReadImage(t)
    <2>1. pack_mutex # t /\ state_mutex # t
      BY <1>14 DEF MountRecord, ReadImage
    <2>2. UNCHANGED <<pack_mutex, state_mutex>>
      BY <1>14 DEF MountRecord, ReadImage, lockVars
    <2>3. \/ pc' = pc /\ pc[t] = "mount" /\ index' = [index EXCEPT ![t] = @ + 1]
          \/ pc' = [pc EXCEPT ![t] = "fill_output"] /\ index' = index
      BY <1>14 DEF MountRecord, ReadImage, Goto, packVars
    <2> QED BY <2>1, <2>2, <2>3
  <1> QED BY <1>1, <1>2, <1>3, <1>4, <1>5, <1>6, <1>7, <1>8, <1>9, <1>10, <1>11, <1>12,
             <1>13, <1>14
          DEF Step, CollectStep, PackStep, MountReadStep

-----------------------------------------------------------------------------
(* Locals and images. *)

LocalsOf(u) == <<pc[u], tasks[u], index[u], trigger[u], volume_meta[u], metadata[u],
                 content[u]>>

ImagesKept == \A v \in VolumeIds : images[v] # None => images'[v] # None

\* No step deletes an image file.
LEMMA ImagesStep ==
    ASSUME NEW t \in Threads, Inv, Call(t) \/ Step(t)
    PROVE  ImagesKept
  <1> USE NoneAssumption DEF Inv, TypeOK, DiskType, ImagesKept
  <1>1. CASE WriteHeader(t)
    <2>1. volume_meta[t] \in VolumeRecord
      BY <1>1 DEF WriteHeader, LocalsType, LocalsReady, LocalsReadyAt, LockedPackPcs
    <2>2. [header |-> volume_meta[t], metas |-> <<>>, data |-> {}] \in Image
      BY <2>1 DEF Image
    <2> QED BY <1>1, <2>2 DEF WriteHeader
  <1>2. CASE WriteHeaderFails(t)
    <2>1. [header |-> Torn, metas |-> <<>>, data |-> {}] \in Image
      BY DEF Image
    <2> QED BY <1>2, <2>1 DEF WriteHeaderFails
  <1>3. CASE WriteMeta(t)
    <2> DEFINE v == volume_meta[t].volume_id
               image == [images[v] EXCEPT !.metas = Append(@, pending_files[index[t]])]
    <2>1. v \in VolumeIds
      BY <1>3 DEF WriteMeta, LocalsType, LocalsReady, LocalsReadyAt, LockedPackPcs,
                  VolumeRecord
    <2>2. images' = [images EXCEPT ![v] = image]
      BY <1>3 DEF WriteMeta
    <2>3. images'[v] = image
      BY <2>1, <2>2
    <2>4. image \in Image
      <3>1. images[v] \in Image
        BY <1>3, <2>1 DEF WriteMeta, LocalsReady, LocalsReadyAt
      <3>2. pending_files[index[t]] \in FileRecord
        BY <1>3 DEF WriteMeta, LocalsType, MemoryType, LocalsReady, LocalsReadyAt
      <3> QED BY <3>1, <3>2, AppendMetaType
    <2> QED BY <2>2, <2>3, <2>4
  <1>4. CASE \/ Call(t) \/ CollectStep(t) \/ MountReadStep(t)
             \/ LockPack(t) \/ NothingToPack(t) \/ PlanVolume(t) \/ PlaceFile(t)
             \/ WriteMetaFails(t) \/ ReadTemps(t) \/ ReadTempsFails(t) \/ JoinWrites(t)
             \/ JoinWritesFails(t) \/ FinishPack(t)
    <2>1. UNCHANGED images
      BY <1>4 DEF Call, CallAdd, CallBatch, CallPack, CallMount, CallRead, Unmount,
             CollectStep, CompressFile, CompressFileFails, JoinCompress,
             JoinCompressFails, CheckRoom, PushFile, PushTooLarge, MountReadStep,
             MountRecord, MountRecordFails, FinishMount, ReadImage, ReadImageFails,
             FillOutput, FillOutputFails, LockPack, NothingToPack, PlanVolume, PlaceFile,
             WriteMetaFails, ReadTemps, ReadTempsFails, JoinWrites, JoinWritesFails,
             FinishPack, diskVars
    <2> QED BY <2>1
  <1> QED BY <1>1, <1>2, <1>3, <1>4 DEF Step, PackStep

\* A step of one thread leaves the locals of the others alone.
LEMMA OthersStep ==
    ASSUME NEW t \in Threads, NEW u \in Threads \ {t}, LocalsType, Call(t) \/ Step(t)
    PROVE  LocalsOf(u)' = LocalsOf(u)
  <1> USE DEF LocalsType, LocalsOf, Return, Goto, addVars, packVars, readVars
  <1>1. CASE Call(t)
    BY <1>1 DEF Call, CallAdd, CallBatch, CallPack, CallMount, CallRead, Unmount
  <1>2. CASE CollectStep(t)
    BY <1>2 DEF CollectStep, CompressFile, CompressFileFails, JoinCompress,
                JoinCompressFails, CheckRoom, PushFile, PushTooLarge
  <1>3. CASE PackStep(t)
    BY <1>3 DEF PackStep, LockPack, NothingToPack, PlanVolume, PlaceFile, WriteHeader,
                WriteHeaderFails, WriteMeta, WriteMetaFails, ReadTemps, ReadTempsFails,
                JoinWrites, JoinWritesFails, FinishPack, PackFails, NextFile
  <1>4. CASE MountReadStep(t)
    BY <1>4 DEF MountReadStep, MountRecord, MountRecordFails, FinishMount, ReadImage,
                ReadImageFails, FillOutput, FillOutputFails
  <1> QED BY <1>1, <1>2, <1>3, <1>4 DEF Step

\* A thread in a loop over the pending files holds state_mutex_, which keeps every
\* other thread from changing the list.
LEMMA PendingStable ==
    ASSUME NEW t \in Threads, NEW u \in Threads \ {t}, Inv, Call(t) \/ Step(t),
           pc[u] \in {"place", "header", "metas"}
    PROVE  UNCHANGED pending_files
  <1>1. state_mutex = u /\ state_mutex # t /\ state_mutex # None
    BY IdsAssumption DEF Inv, LockOwnership, InState, LockedPackPcs
  <1>2. pc[t] \notin LockedPackPcs /\ ~(pc[t] = "push" /\ index[t] > 1)
    BY <1>1 DEF Inv, LockOwnership, InState
  <1>3. ~(PlanVolume(t) \/ PlaceFile(t) \/ FinishPack(t) \/ PushFile(t))
    BY <1>1, <1>2 DEF PlanVolume, PlaceFile, FinishPack, PushFile, LockedPackPcs
  <1>4. CASE Call(t)
    BY <1>4 DEF Call, CallAdd, CallBatch, CallPack, CallMount, CallRead, Unmount, memVars
  <1>5. CASE CollectStep(t)
    BY <1>3, <1>5 DEF CollectStep, CompressFile, CompressFileFails, JoinCompress,
                      JoinCompressFails, CheckRoom, PushTooLarge, memVars
  <1>6. CASE PackStep(t)
    BY <1>3, <1>6 DEF PackStep, LockPack, NothingToPack, WriteHeader, WriteHeaderFails,
                      WriteMeta, WriteMetaFails, ReadTemps, ReadTempsFails, JoinWrites,
                      JoinWritesFails, PackFails, memVars
  <1>7. CASE MountReadStep(t)
    BY <1>7 DEF MountReadStep, MountRecord, MountRecordFails, FinishMount, ReadImage,
                ReadImageFails, FillOutput, FillOutputFails, memVars
  <1> QED BY <1>4, <1>5, <1>6, <1>7 DEF Step

LEMMA ReturnReady ==
    ASSUME NEW t \in Threads, NEW code, LocalsType, Return(t, code)
    PROVE  LocalsReadyAt(t)'
  <1>1. pc'[t] = "idle" /\ index'[t] = 1 /\ trigger'[t] = None
    BY DEF LocalsType, Return, Goto
  <1> QED BY <1>1, NoneAssumption DEF LocalsReadyAt, AddPcs, LockedPackPcs, Triggers

LEMMA ReadyFrame ==
    ASSUME NEW u \in Threads, LocalsReadyAt(u), LocalsType, ImagesKept,
           LocalsOf(u)' = LocalsOf(u),
           pc[u] \in {"place", "header", "metas"} => UNCHANGED pending_files
    PROVE  LocalsReadyAt(u)'
  <1> DEFINE packing == pc[u] \in {"metas", "read_temps", "join_writes", "finish", "mount"}
             reading == pc[u] \in {"read_image", "fill_output"}
  <1>1. packing => volume_meta[u].volume_id \in VolumeIds
    BY DEF LocalsType, LocalsReadyAt, VolumeRecord, LockedPackPcs
  <1>2. /\ pc'[u] = pc[u] /\ tasks'[u] = tasks[u] /\ index'[u] = index[u]
        /\ trigger'[u] = trigger[u] /\ volume_meta'[u] = volume_meta[u]
        /\ metadata'[u] = metadata[u] /\ content'[u] = content[u]
    BY DEF LocalsOf
  <1>3. packing => images'[volume_meta[u].volume_id] # None
    BY <1>1 DEF LocalsReadyAt, ImagesKept
  <1>4. reading => images'[metadata[u].volume_id] # None
    BY DEF LocalsReadyAt, ImagesKept
  <1> QED BY <1>2, <1>3, <1>4 DEF LocalsReadyAt

LEMMA OwnReady ==
    ASSUME NEW t \in Threads, Inv, Call(t) \/ Step(t)
    PROVE  LocalsReadyAt(t)'
  <1> USE NoneAssumption DEF Inv, TypeOK, LocalsType, LocalsReady
  <1>0. ImagesKept
    BY ImagesStep
  \* The calls that keep the locals of an idle thread as they are.
  <1>1. CASE CallPack(t) \/ Unmount(t)
    <2>1. /\ pc'[t] \in {"idle", "lock_pack"}
          /\ index'[t] = 1
          /\ \/ trigger'[t] = "Manual"
             \/ trigger'[t] = trigger[t] /\ tasks'[t] = tasks[t]
      BY <1>1 DEF CallPack, Unmount, Begin, Goto, LocalsReadyAt, addVars, packVars
    <2> QED BY <2>1 DEF LocalsReadyAt, AddPcs, LockedPackPcs
  <1>2. CASE CallAdd(t) \/ CallBatch(t)
    <2>1. /\ pc'[t] \in {"compress", "pool_compress"}
          /\ index'[t] = 1
      BY <1>2 DEF CallAdd, CallBatch, Begin, Goto, LocalsReadyAt, packVars
    <2>2. tasks'[t] # <<>>
      <3>1. CASE CallAdd(t)
        <4>1. PICK task : tasks' = [tasks EXCEPT ![t] = <<task>>]
          BY <3>1 DEF CallAdd
        <4> QED BY <4>1
      <3>2. CASE CallBatch(t)
        <4>1. PICK n \in 1 .. MaxBatch : \E s \in [1 .. n -> FileTask] :
                tasks' = [tasks EXCEPT ![t] = s]
          BY <3>2 DEF CallBatch
        <4>2. PICK s \in [1 .. n -> FileTask] : tasks' = [tasks EXCEPT ![t] = s]
          BY <4>1
        <4>3. 1 \in DOMAIN s
          BY BoundsAssumption
        <4> QED BY <4>2, <4>3
      <3> QED BY <1>2, <3>1, <3>2
    <2> QED BY <2>1, <2>2 DEF LocalsReadyAt, AddPcs, LockedPackPcs
  <1>3. CASE CallMount(t)
    <2>1. PICK v \in VolumeIds :
            /\ images[v] # None /\ images[v].header # Torn
            /\ volume_meta' = [volume_meta EXCEPT ![t] = images[v].header]
      BY <1>3 DEF CallMount
    <2>2. volume_meta'[t] = images[v].header /\ images[v].header \in VolumeRecord
      BY <2>1 DEF DiskType, Image
    <2>3. images'[images[v].header.volume_id] # None
      BY <1>0, <2>1 DEF ImagesPresent, ImagesKept
    <2>4. pc'[t] = "mount" /\ trigger'[t] = trigger[t] /\ tasks'[t] = tasks[t]
      BY <1>3 DEF CallMount, Goto, addVars
    <2> QED BY <2>2, <2>3, <2>4 DEF LocalsReadyAt, AddPcs, LockedPackPcs
  <1>4. CASE CallRead(t)
    <2>1. PICK i \in InodeIds : /\ file_metadata_cache[i] # None
                                /\ file_metadata_cache[i].volume_id \in mounted_volumes
                                /\ metadata' = [metadata EXCEPT ![t] = file_metadata_cache[i]]
      BY <1>4 DEF CallRead
    <2>2. /\ metadata'[t] # None
          /\ metadata'[t].volume_id \in VolumeIds
          /\ images'[metadata'[t].volume_id] # None
      BY <1>0, <2>1 DEF ImagesPresent, ImagesKept, MemoryType
    <2>3. /\ pc'[t] = "read_image" /\ index'[t] = 1
          /\ trigger'[t] = trigger[t] /\ tasks'[t] = tasks[t]
      BY <1>4 DEF CallRead, Begin, Goto, LocalsReadyAt, addVars, packVars
    <2> QED BY <2>2, <2>3 DEF LocalsReadyAt, AddPcs, LockedPackPcs
  <1>5. CASE CompressFile(t) /\ ~Return(t, "VOLUME_FULL")
    <2>1. pc'[t] = "check" /\ index'[t] = 1 /\ tasks'[t] # <<>>
      BY <1>5 DEF CompressFile, Goto, LocalsReadyAt, AddPcs, addVars, packVars
    <2> QED BY <2>1 DEF LocalsReadyAt, AddPcs, LockedPackPcs
  <1>6. CASE JoinCompress(t) \/ CheckRoom(t)
    <2>1. /\ pc'[t] \in {"check", "push", "lock_pack"}
          /\ index'[t] = 1
          /\ tasks'[t] = tasks[t] /\ tasks[t] # <<>>
      BY <1>6 DEF JoinCompress, CheckRoom, Goto, LocalsReadyAt, AddPcs, addVars, packVars
    <2>2. 1 <= Len(tasks[t])
      BY <2>1
    <2> QED BY <2>1, <2>2 DEF LocalsReadyAt, AddPcs, LockedPackPcs
  <1>7. CASE PushFile(t) /\ ~Return(t, "SUCCESS")
    <2>1. CASE index[t] < Len(tasks[t])
      <3>1. /\ pc'[t] = "push" /\ index'[t] = index[t] + 1
            /\ tasks'[t] = tasks[t] /\ tasks[t] # <<>>
        BY <1>7, <2>1 DEF PushFile, LocalsReadyAt, AddPcs, addVars
      <3> QED BY <2>1, <3>1 DEF LocalsReadyAt, LockedPackPcs
    <2>2. CASE /\ index' = [index EXCEPT ![t] = 1]
               /\ trigger' = [trigger EXCEPT ![t] = "AutoThreshold"]
               /\ Goto(t, "lock_pack")
      BY <2>2 DEF Goto, LocalsReadyAt, AddPcs, LockedPackPcs
    <2> QED BY <1>7, <2>1, <2>2 DEF PushFile
  <1>8. CASE LockPack(t)
    <2>1. /\ pc'[t] = "lock_state" /\ index'[t] = 1
          /\ trigger'[t] = trigger[t] /\ tasks'[t] = tasks[t]
      BY <1>8 DEF LockPack, Goto, LocalsReadyAt, addVars, packVars
    <2> QED BY <2>1 DEF LocalsReadyAt, AddPcs, LockedPackPcs
  <1>9. CASE PlanVolume(t)
    <2>1. /\ pc'[t] = "place" /\ index'[t] = 1
          /\ trigger'[t] = trigger[t] /\ tasks'[t] = tasks[t]
      BY <1>9 DEF PlanVolume, Goto, addVars
    <2>2. volume_meta'[t] # None
      <3>1. PICK v \in VolumeIds : volume_meta' = [volume_meta EXCEPT ![t] =
                [volume_id |-> v, file_count |-> Len(pending_files),
                 user_data_offset |-> HeaderLen + RecordLen * Len(pending_files),
                 user_data_size |-> 0]]
        BY <1>9 DEF PlanVolume, GenerateVolumeId
      <3>2. volume_meta'[t] \in VolumeRecord
        BY <3>1, PlannedType
      <3> QED BY <3>2
    <2>3. 1 <= Len(pending_files')
      <3>1. PICK v \in VolumeIds :
              pending_files' = [k \in DOMAIN pending_files |->
                                  [pending_files[k] EXCEPT !.volume_id = v]]
        BY <1>9 DEF PlanVolume, GenerateVolumeId
      <3>2. Len(pending_files') = Len(pending_files)
        BY <3>1, SetVolumeType
      <3> QED BY <1>9, <3>2 DEF PlanVolume, MemoryType
    <2> QED BY <2>1, <2>2, <2>3 DEF LocalsReadyAt, AddPcs, LockedPackPcs
  <1>10. CASE PlaceFile(t)
    <2>1. volume_meta[t] \in VolumeRecord /\ index[t] \in DOMAIN pending_files
      BY <1>10 DEF PlaceFile, LocalsReadyAt, LockedPackPcs, MemoryType
    <2>2. volume_meta'[t] # None
      <3>1. pending_files[index[t]] \in FileRecord
        BY <2>1 DEF MemoryType
      <3> DEFINE placed == [volume_meta[t] EXCEPT !.user_data_size =
                              @ + CompressedSize[pending_files[index[t]].path]]
      <3>2. placed \in VolumeRecord
        BY <2>1, <3>1, PlacedType
      <3>3. volume_meta' = [volume_meta EXCEPT ![t] = placed]
        BY <1>10 DEF PlaceFile
      <3> HIDE DEF placed
      <3>4. volume_meta'[t] = placed
        BY <3>3
      <3> QED BY <3>2, <3>4
    <2>3. Len(pending_files') = Len(pending_files)
      <3>1. NextOffset(volume_meta[t]) \in Nat
        BY <2>1 DEF NextOffset, VolumeRecord
      <3> QED BY <1>10, <2>1, <3>1, SetOffsetType DEF PlaceFile
    <2>4. \/ pc'[t] = "header" /\ index'[t] = 1
          \/ /\ pc'[t] = "place" /\ index'[t] = index[t] + 1
             /\ index[t] # Len(pending_files)
      BY <1>10 DEF PlaceFile, NextFile, Goto
    <2>5. index'[t] <= Len(pending_files')
      BY <2>1, <2>3, <2>4 DEF MemoryType
    <2>6. trigger'[t] = trigger[t] /\ tasks'[t] = tasks[t]
      BY <1>10 DEF PlaceFile, addVars
    <2> QED BY <1>10, <2>2, <2>4, <2>5, <2>6 DEF PlaceFile, LocalsReadyAt, AddPcs, LockedPackPcs
  <1>11. CASE WriteHeader(t)
    <2>1. volume_meta[t] \in VolumeRecord /\ volume_meta[t].volume_id \in VolumeIds
      BY <1>11 DEF WriteHeader, LocalsReadyAt, LockedPackPcs, VolumeRecord
    <2>2. [header |-> volume_meta[t], metas |-> <<>>, data |-> {}] \in Image
      BY <2>1 DEF Image
    <2>3. images'[volume_meta[t].volume_id] # None
      BY <1>11, <2>1, <2>2 DEF WriteHeader, DiskType
    <2>4. /\ pc'[t] = "metas" /\ index'[t] = 1
          /\ volume_meta'[t] = volume_meta[t]
          /\ trigger'[t] = trigger[t] /\ tasks'[t] = tasks[t]
      BY <1>11 DEF WriteHeader, Goto, addVars, packVars, LocalsReadyAt
    <2>5. pending_files' = pending_files
      BY <1>11 DEF WriteHeader, memVars
    <2>6. 1 <= Len(pending_files')
      BY <1>11, <2>5 DEF WriteHeader, LocalsReadyAt
    <2> QED BY <2>1, <2>3, <2>4, <2>6, <1>11 DEF WriteHeader, LocalsReadyAt, AddPcs,
                                                LockedPackPcs
  <1>12. CASE WriteMeta(t)
    <2>1. volume_meta[t] # None /\ volume_meta[t].volume_id \in VolumeIds
      BY <1>12 DEF WriteMeta, LocalsReadyAt, LockedPackPcs, VolumeRecord
    <2>2. images'[volume_meta[t].volume_id] # None
      BY <1>0, <1>12, <2>1 DEF WriteMeta, LocalsReadyAt, ImagesKept
    <2>3. \/ pc'[t] = "read_temps" /\ index'[t] = 1
          \/ /\ pc'[t] = "metas" /\ index'[t] = index[t] + 1
             /\ index[t] # Len(pending_files)
      BY <1>12 DEF WriteMeta, NextFile, Goto
    <2>4. /\ volume_meta'[t] = volume_meta[t]
          /\ trigger'[t] = trigger[t] /\ tasks'[t] = tasks[t]
          /\ pending_files' = pending_files
      BY <1>12 DEF WriteMeta, addVars
    <2>5. index'[t] <= Len(pending_files') \/ pc'[t] = "read_temps"
      BY <1>12, <2>3, <2>4 DEF WriteMeta, LocalsReadyAt, MemoryType
    <2> QED BY <1>12, <2>1, <2>2, <2>3, <2>4, <2>5 DEF WriteMeta, LocalsReadyAt, AddPcs,
                                                      LockedPackPcs
  <1>13. CASE ReadTemps(t) \/ JoinWrites(t)
    <2>1. /\ pc[t] \in {"read_temps", "join_writes"}
          /\ pc'[t] \in {"join_writes", "finish"}
          /\ index'[t] = 1
          /\ volume_meta'[t] = volume_meta[t]
          /\ trigger'[t] = trigger[t] /\ tasks'[t] = tasks[t]
      BY <1>13 DEF ReadTemps, JoinWrites, Goto, addVars, packVars, LocalsReadyAt
    <2>2. volume_meta[t] # None /\ volume_meta[t].volume_id \in VolumeIds
      BY <2>1 DEF LocalsReadyAt, LockedPackPcs, VolumeRecord
    <2>3. images'[volume_meta[t].volume_id] # None
      BY <1>0, <2>1, <2>2 DEF LocalsReadyAt, ImagesKept
    <2> QED BY <2>1, <2>2, <2>3 DEF LocalsReadyAt, AddPcs, LockedPackPcs
  <1>14. CASE FinishPack(t)
    <2>1. CASE Return(t, "SUCCESS")
      BY <2>1, ReturnReady
    <2>2. CASE trigger[t] = "AutoOverflow"
      <3>1. /\ pc'[t] = "push" /\ trigger'[t] = None
            /\ index'[t] = 1 /\ tasks'[t] = tasks[t] /\ tasks[t] # <<>>
        BY <1>14, <2>2 DEF FinishPack, Goto, LocalsReadyAt
      <3>2. 1 <= Len(tasks[t])
        BY <3>1
      <3> QED BY <3>1, <3>2 DEF LocalsReadyAt, LockedPackPcs, Triggers
    <2> QED BY <1>14, <2>1, <2>2 DEF FinishPack
  <1>15. CASE MountRecord(t)
    <2>1. /\ pc[t] = "mount" /\ pc'[t] = "mount"
          /\ volume_meta'[t] = volume_meta[t]
          /\ trigger'[t] = trigger[t] /\ tasks'[t] = tasks[t]
      BY <1>15 DEF MountRecord, addVars
    <2>2. volume_meta[t] # None /\ volume_meta[t].volume_id \in VolumeIds
      BY <2>1 DEF LocalsReadyAt, VolumeRecord
    <2>3. images'[volume_meta[t].volume_id] # None
      BY <1>0, <2>1, <2>2 DEF LocalsReadyAt, ImagesKept
    <2> QED BY <2>1, <2>2, <2>3 DEF LocalsReadyAt, AddPcs, LockedPackPcs
  <1>16. CASE ReadImage(t)
    <2>1. /\ pc'[t] = "fill_output" /\ index'[t] = 1
          /\ metadata'[t] = metadata[t]
          /\ trigger'[t] = trigger[t] /\ tasks'[t] = tasks[t]
      BY <1>16 DEF ReadImage, Goto, addVars, packVars, LocalsReadyAt
    <2>2. images'[metadata[t].volume_id] # None
      BY <1>0, <1>16 DEF ReadImage, LocalsReadyAt, ImagesKept
    <2>3. content'[t] # None
      <3>1. PICK p \in Decompressed(metadata[t]) : content' = [content EXCEPT ![t] = p]
        BY <1>16 DEF ReadImage
      <3>2. p # None
        BY <1>16, <3>1, DecompressedType DEF ReadImage, LocalsReadyAt
      <3> QED BY <3>1, <3>2
    <2> QED BY <1>16, <2>1, <2>2, <2>3 DEF ReadImage, LocalsReadyAt, AddPcs, LockedPackPcs
  <1>17. CASE \E code : Return(t, code)
    BY <1>17, ReturnReady
  <1>18. \/ \E code : Return(t, code)
         \/ CallPack(t) \/ Unmount(t) \/ CallAdd(t) \/ CallBatch(t) \/ CallMount(t)
         \/ CallRead(t)
         \/ CompressFile(t) \/ JoinCompress(t) \/ CheckRoom(t) \/ PushFile(t)
         \/ LockPack(t) \/ PlanVolume(t) \/ PlaceFile(t) \/ WriteHeader(t) \/ WriteMeta(t)
         \/ ReadTemps(t) \/ JoinWrites(t) \/ FinishPack(t) \/ MountRecord(t) \/ ReadImage(t)
    BY DEF Call, Step, CollectStep, PackStep, MountReadStep, CompressFileFails,
           JoinCompressFails, PushTooLarge, NothingToPack, WriteHeaderFails, WriteMetaFails,
           ReadTempsFails, JoinWritesFails, PackFails, MountRecordFails, FinishMount,
           ReadImageFails, FillOutput, FillOutputFails
  <1> QED BY <1>1, <1>2, <1>3, <1>4, <1>5, <1>6, <1>7, <1>8, <1>9, <1>10, <1>11, <1>12,
             <1>13, <1>14, <1>15, <1>16, <1>17, <1>18

LEMMA ReadyStep ==
    ASSUME NEW t \in Threads, Inv, Call(t) \/ Step(t)
    PROVE  LocalsReady'
  <1>1. ASSUME NEW u \in Threads \ {t}
        PROVE  LocalsReadyAt(u)'
    <2>1. LocalsReadyAt(u) /\ LocalsType
      BY DEF Inv, TypeOK, LocalsReady
    <2>2. ImagesKept
      BY ImagesStep
    <2>3. LocalsOf(u)' = LocalsOf(u)
      BY <2>1, OthersStep
    <2>4. pc[u] \in {"place", "header", "metas"} => UNCHANGED pending_files
      BY PendingStable
    <2> QED BY <2>1, <2>2, <2>3, <2>4, ReadyFrame
  <1>2. LocalsReadyAt(t)'
    BY OwnReady
  <1> QED BY <1>1, <1>2 DEF LocalsReady

-----------------------------------------------------------------------------
(* The images that mounted volumes, queued writes and headers refer to. *)

\* Only a pack or a mount that ends inserts a volume id, one whose image is there.
LEMMA MountedStep ==
    ASSUME NEW t \in Threads, Inv, Call(t) \/ Step(t), NEW v \in mounted_volumes'
    PROVE  images'[v] # None
  <1>1. ImagesKept
    BY ImagesStep
  <1>2. CASE FinishPack(t) \/ FinishMount(t)
    <2>1. v \in mounted_volumes \/ v = volume_meta[t].volume_id
      BY <1>2 DEF FinishPack, FinishMount
    <2>2. volume_meta[t].volume_id \in VolumeIds /\ images[volume_meta[t].volume_id] # None
      BY <1>2 DEF FinishPack, FinishMount, Inv, TypeOK, LocalsType, LocalsReady,
                  LocalsReadyAt, LockedPackPcs, VolumeRecord
    <2> QED BY <1>1, <2>1, <2>2 DEF Inv, TypeOK, MemoryType, ImagesPresent, ImagesKept
  <1>3. CASE mounted_volumes' \subseteq mounted_volumes
    BY <1>1, <1>3 DEF Inv, TypeOK, MemoryType, ImagesPresent, ImagesKept
  <1>4. ~(FinishPack(t) \/ FinishMount(t)) => mounted_volumes' \subseteq mounted_volumes
    <2>1. CASE Call(t)
      BY <2>1 DEF Call, CallAdd, CallBatch, CallPack, CallMount, CallRead, Unmount, memVars
    <2>2. CASE CollectStep(t)
      BY <2>2 DEF CollectStep, CompressFile, CompressFileFails, JoinCompress,
                  JoinCompressFails, CheckRoom, PushFile, PushTooLarge, memVars
    <2>3. CASE PackStep(t)
      BY <2>3 DEF PackStep, LockPack, NothingToPack, PlanVolume, PlaceFile, WriteHeader,
                  WriteHeaderFails, WriteMeta, WriteMetaFails, ReadTemps, ReadTempsFails,
                  JoinWrites, JoinWritesFails, PackFails, memVars
    <2>4. CASE MountReadStep(t)
      BY <2>4 DEF MountReadStep, MountRecord, MountRecordFails, ReadImage, ReadImageFails,
                  FillOutput, FillOutputFails, memVars
    <2> QED BY <2>1, <2>2, <2>3, <2>4 DEF Step
  <1> QED BY <1>2, <1>3, <1>4

\* A write task is enqueued for the image the pack has just created.
LEMMA WritesStep ==
    ASSUME NEW t \in Threads, Inv, Call(t) \/ Step(t), NEW task \in pool',
           task.kind = "write"
    PROVE  images'[task.volume_id] # None
  <1>1. ImagesKept
    BY ImagesStep
  <1>2. CASE \E old \in pool : task.kind = old.kind /\ task.volume_id = old.volume_id
    <2>1. PICK old \in pool : task.kind = old.kind /\ task.volume_id = old.volume_id
      BY <1>2
    <2>2. old.volume_id \in VolumeIds /\ images[old.volume_id] # None
      BY <2>1 DEF Inv, TypeOK, SyncType, CompressTask, WriteTask, ImagesPresent
    <2> QED BY <1>1, <2>1, <2>2 DEF ImagesKept
  <1>3. CASE ReadTemps(t)
    <2>1. volume_meta[t].volume_id \in VolumeIds /\ images[volume_meta[t].volume_id] # None
      BY <1>3 DEF ReadTemps, Inv, TypeOK, LocalsType, LocalsReady, LocalsReadyAt,
                  LockedPackPcs, VolumeRecord
    <2>2. task \in pool \/ \E k \in DOMAIN pending_files : task = WriteTaskOf(t, k)
      BY <1>3 DEF ReadTemps
    <2>3. task \in pool \/ task.volume_id = volume_meta[t].volume_id
      BY <2>2 DEF WriteTaskOf
    <2> QED BY <1>1, <1>2, <2>1, <2>3 DEF ImagesKept
  <1>4. CASE CallBatch(t)
    <2>1. PICK n \in 1 .. MaxBatch : \E s \in [1 .. n -> FileTask] :
            pool' = pool \cup {[kind |-> "compress", owner |-> t, k |-> k,
                                inode_id |-> s[k].inode_id, path |-> s[k].path] : k \in 1 .. n}
      BY <1>4 DEF CallBatch
    <2>2. task \in pool
      BY <2>1
    <2> QED BY <1>2, <2>2
  <1>5. CASE DropFutures(t)
    <2>1. PICK old \in pool :
            task = IF old.owner = t THEN [old EXCEPT !.owner = None] ELSE old
      BY <1>5 DEF DropFutures
    <2>2. task.kind = old.kind
      BY <2>1 DEF Inv, TypeOK, SyncType, CompressTask, WriteTask
    <2>3. old \in WriteTask
      BY <2>2 DEF Inv, TypeOK, SyncType, CompressTask, WriteTask
    <2>4. task.volume_id = old.volume_id
      BY <2>1, <2>3 DEF WriteTask
    <2> QED BY <1>2, <2>2, <2>4
  <1>6. CASE UNCHANGED pool
    BY <1>2, <1>6
  <1>7. ReadTemps(t) \/ CallBatch(t) \/ DropFutures(t) \/ UNCHANGED pool
    <2>1. CASE Call(t)
      BY <2>1 DEF Call, CallAdd, CallPack, CallMount, CallRead, Unmount, poolVars
    <2>2. CASE CollectStep(t)
      BY <2>2 DEF CollectStep, CompressFile, CompressFileFails, JoinCompress,
                  JoinCompressFails, CheckRoom, PushFile, PushTooLarge, poolVars
    <2>3. CASE PackStep(t)
      BY <2>3 DEF PackStep, LockPack, NothingToPack, PlanVolume, PlaceFile, WriteHeader,
                  WriteHeaderFails, WriteMeta, WriteMetaFails, ReadTempsFails,
                  JoinWrites, JoinWritesFails, FinishPack, poolVars
    <2>4. CASE MountReadStep(t)
      BY <2>4 DEF MountReadStep, MountRecord, MountRecordFails, FinishMount, ReadImage,
                  ReadImageFails, FillOutput, FillOutputFails, poolVars
    <2> QED BY <2>1, <2>2, <2>3, <2>4 DEF Step
  <1> QED BY <1>3, <1>4, <1>5, <1>6, <1>7

\* The header a pack writes names the file it is written to; no step changes it later.
LEMMA HeaderStep ==
    ASSUME NEW t \in Threads, Inv, Call(t) \/ Step(t), NEW v \in VolumeIds,
           images'[v] # None, images'[v].header # Torn
    PROVE  images'[v].header.volume_id = v
  <1> USE DEF Inv, TypeOK, DiskType, ImagesPresent
  <1>1. CASE WriteHeader(t)
    BY <1>1 DEF WriteHeader
  <1>2. CASE WriteHeaderFails(t)
    BY <1>2 DEF WriteHeaderFails
  <1>3. CASE WriteMeta(t)
    <2>1. \/ images'[v] = images[v]
          \/ /\ v = volume_meta[t].volume_id
             /\ images'[v] = [images[v] EXCEPT !.metas = Append(@, pending_files[index[t]])]
      BY <1>3 DEF WriteMeta
    <2>2. images[v] # None
      BY <1>3, <2>1 DEF WriteMeta, LocalsReady, LocalsReadyAt
    <2>3. images[v] \in Image
      BY <2>2
    <2>4. images'[v].header = images[v].header
      BY <2>1, <2>3 DEF Image
    <2> QED BY <2>2, <2>4
  <1>4. CASE UNCHANGED images
    BY <1>4
  <1>5. WriteHeader(t) \/ WriteHeaderFails(t) \/ WriteMeta(t) \/ UNCHANGED images
    <2>1. CASE Call(t)
      BY <2>1 DEF Call, CallAdd, CallBatch, CallPack, CallMount, CallRead, Unmount, diskVars
    <2>2. CASE CollectStep(t)
      BY <2>2 DEF CollectStep, CompressFile, CompressFileFails, JoinCompress,
                  JoinCompressFails, CheckRoom, PushFile, PushTooLarge, diskVars
    <2>3. CASE PackStep(t)
      BY <2>3 DEF PackStep, LockPack, NothingToPack, PlanVolume, PlaceFile,
                  WriteMetaFails, ReadTemps, ReadTempsFails, JoinWrites, JoinWritesFails,
                  FinishPack, diskVars
    <2>4. CASE MountReadStep(t)
      BY <2>4 DEF MountReadStep, MountRecord, MountRecordFails, FinishMount, ReadImage,
                  ReadImageFails, FillOutput, FillOutputFails, diskVars
    <2> QED BY <2>1, <2>2, <2>3, <2>4 DEF Step
  <1> QED BY <1>1, <1>2, <1>3, <1>4, <1>5

LEMMA ThreadInv ==
    ASSUME NEW t \in Threads, Inv, Call(t) \/ Step(t)
    PROVE  Inv'
  <1>1. TypeOK'
    BY MemoryStep, DiskStep, SyncStep, LocalsStep, HistoryStep DEF TypeOK
  <1>2. LockOwnership'
    BY LockStep
  <1>3. LocalsReady'
    BY ReadyStep
  <1>4. ImagesPresent'
    BY MountedStep, WritesStep, HeaderStep DEF ImagesPresent
  <1> QED BY <1>1, <1>2, <1>3, <1>4 DEF Inv
-----------------------------------------------------------------------------
(* Workers, crashes, and the theorems. *)

\* The data area after a write is a set of extents.
LEMMA OverwriteType ==
    ASSUME NEW data \in SUBSET Extent, NEW e \in Extent
    PROVE  Overwrite(data, e) \in SUBSET Extent
  BY DEF Overwrite

\* A task that ended is gone, and fails the future of an owner only.
LEMMA PoolEffect ==
    ASSUME NEW task \in pool, RunTask(task)
    PROVE  /\ pool' = pool \ {task}
           /\ \/ failed' = failed
              \/ task.owner # None /\ failed' = failed \cup {<<task.owner, task.k>>}
           /\ faults' \in {faults, faults + 1}
  <1>1. CASE RunCompress(task) \/ RunWrite(task)
    BY <1>1 DEF RunCompress, RunWrite, counters
  <1>2. CASE RunCompressFails(task) \/ RunWriteFails(task)
    <2>1. TaskFails(task)
      BY <1>2 DEF RunCompressFails, RunWriteFails
    <2> QED BY <2>1 DEF TaskFails, Fault
  <1> QED BY <1>1, <1>2 DEF RunTask

\* What a worker leaves of the disk and the pool.
LEMMA WorkerEffect ==
    ASSUME NEW task \in pool, Inv, RunTask(task)
    PROVE  /\ SyncType' /\ DiskType'
           /\ pool' \subseteq pool
           /\ \A v \in VolumeIds : images[v] # None => /\ images'[v] # None
                                                       /\ images'[v].header = images[v].header
           /\ \A v \in VolumeIds : images'[v] # None => images[v] # None
           /\ faults' \in Nat
  <1> USE NoneAssumption DEF Inv, TypeOK, DiskType, SyncType, HistoryType
  <1>1. CASE RunCompress(task) \/ RunCompressFails(task)
    <2>1. task \in CompressTask
      BY <1>1 DEF RunCompress, RunCompressFails, CompressTask, WriteTask
    <2>2. task.inode_id \in InodeIds /\ task.path \in Paths /\ task.owner \in Threads \cup {None}
          /\ task.k \in Nat
      BY <2>1 DEF CompressTask
    <2>3. temp_files' \in [InodeIds -> FileContents]
      BY <1>1, <2>2 DEF RunCompress, RunCompressFails, LeaveTemp, FileContents
    <2>4. UNCHANGED <<images, output_files, lockVars>>
      BY <1>1 DEF RunCompress, RunCompressFails
    <2>6. failed' \in SUBSET (Threads \X Nat)
      BY <2>2, PoolEffect
    <2> QED BY <2>3, <2>4, <2>6, PoolEffect DEF lockVars
  <1>2. CASE RunWrite(task) \/ RunWriteFails(task)
    <2>1. task \in WriteTask
      BY <1>2 DEF RunWrite, RunWriteFails, CompressTask, WriteTask
    <2>2. task.volume_id \in VolumeIds /\ task.extent \in Extent
          /\ task.owner \in Threads \cup {None} /\ task.k \in Nat
      BY <2>1 DEF WriteTask
    <2> DEFINE id == task.volume_id
               torn == [task.extent EXCEPT !.content = Torn]
               Written(e) == [images[id] EXCEPT !.data = Overwrite(@, e)]
    <2>3. torn \in Extent
      BY <2>2 DEF Extent
    <2>4. images[id] \in Image
      BY <1>2, <2>2 DEF ImagesPresent, RunWrite, RunWriteFails
    <2>5. ASSUME NEW e \in Extent
          PROVE  Written(e) \in Image /\ Written(e).header = images[id].header
      <3>1. images[id].data \in SUBSET Extent
        BY <2>4 DEF Image
      <3>2. Overwrite(images[id].data, e) \in SUBSET Extent
        BY <3>1, OverwriteType
      <3> QED BY <2>4, <3>2 DEF Image
    <2>6. images' = images \/ \E e \in Extent : images' = [images EXCEPT ![id] = Written(e)]
      <3>1. CASE RunWrite(task)
        <4>1. images' = [images EXCEPT ![id] = Written(task.extent)]
          BY <3>1 DEF RunWrite
        <4> QED BY <2>2, <4>1
      <3>2. CASE RunWriteFails(task)
        <4>1. images' = images \/ images' = [images EXCEPT ![id] = Written(torn)]
          BY <3>2 DEF RunWriteFails
        <4> QED BY <2>3, <4>1
      <3> QED BY <1>2, <3>1, <3>2
    <2> HIDE DEF Written, torn
    <2>7. /\ images' \in [VolumeIds -> Image \cup {None}]
          /\ \A v \in VolumeIds : images[v] # None => /\ images'[v] # None
                                                      /\ images'[v].header = images[v].header
          /\ \A v \in VolumeIds : images'[v] # None => images[v] # None
      BY <2>2, <2>4, <2>5, <2>6
    <2>8. UNCHANGED <<temp_files, output_files, lockVars>>
      BY <1>2 DEF RunWrite, RunWriteFails
    <2>10. failed' \in SUBSET (Threads \X Nat)
      BY <2>2, PoolEffect
    <2> QED BY <2>7, <2>8, <2>10, PoolEffect DEF lockVars
  <1> QED BY <1>1, <1>2 DEF RunTask

\* A worker changes no local of a thread and deletes no image.
LEMMA WorkerInv ==
    ASSUME NEW task \in pool, Inv, RunTask(task)
    PROVE  Inv'
  <1>1. /\ UNCHANGED <<memVars, lockVars, pc, addVars, packVars, readVars, source, sealed,
                    answers>>
        /\ UNCHANGED <<calls, crashes>>
    BY DEF RunTask, RunCompress, RunCompressFails, RunWrite, RunWriteFails, counters
  <1>2. MemoryType' /\ LocalsType'
    BY <1>1 DEF Inv, TypeOK, MemoryType, LocalsType, memVars, addVars, packVars, readVars
  <1>3. HistoryType'
    BY <1>1, WorkerEffect DEF Inv, TypeOK, HistoryType, answers
  <1>4. TypeOK'
    BY <1>2, <1>3, WorkerEffect DEF TypeOK
  <1>5. LockOwnership'
    BY <1>1 DEF Inv, LockOwnership, InPack, InState, lockVars, packVars
  <1>6. ImagesKept
    BY WorkerEffect DEF ImagesKept
  <1>7. LocalsReady'
    <2>1. ASSUME NEW u \in Threads
          PROVE  LocalsReadyAt(u)'
      <3>1. LocalsOf(u)' = LocalsOf(u) /\ UNCHANGED pending_files
        BY <1>1 DEF LocalsOf, memVars, addVars, packVars, readVars
      <3> QED BY <1>6, <3>1, ReadyFrame DEF Inv, TypeOK, LocalsReady
    <2> QED BY <2>1 DEF LocalsReady
  <1>8. ImagesPresent'
    <2>1. \A v \in mounted_volumes' : images'[v] # None
      BY <1>1, <1>6 DEF Inv, TypeOK, MemoryType, ImagesPresent, ImagesKept, memVars
    <2>2. ASSUME NEW other \in pool', other.kind = "write"
          PROVE  images'[other.volume_id] # None
      <3>1. other \in pool
        BY <2>2, WorkerEffect
      <3>2. other.volume_id \in VolumeIds /\ images[other.volume_id] # None
        BY <2>2, <3>1 DEF Inv, TypeOK, SyncType, CompressTask, WriteTask, ImagesPresent
      <3> QED BY <1>6, <3>2 DEF ImagesKept
    <2>3. ASSUME NEW v \in VolumeIds, images'[v] # None, images'[v].header # Torn
          PROVE  images'[v].header.volume_id = v
      <3>1. images[v] # None /\ images'[v].header = images[v].header
        BY <2>3, WorkerEffect
      <3> QED BY <2>3, <3>1 DEF Inv, ImagesPresent
    <2> QED BY <2>1, <2>2, <2>3 DEF ImagesPresent
  <1> QED BY <1>4, <1>5, <1>7, <1>8 DEF Inv

\* A new process has no locals, holds no mutex and has mounted nothing.
LEMMA CrashInv ==
    ASSUME Inv, Crash
    PROVE  Inv'
  <1> USE IdsAssumption, NoneAssumption DEF Inv, TypeOK, Crash
  <1>1. MemoryType' /\ SyncType' /\ HistoryType'
    BY DEF MemoryType, SyncType, HistoryType, NoInodes, Unset
  <1>2. DiskType'
    BY DEF DiskType, diskVars
  <1>3. LocalsType'
    BY DEF LocalsType, Unset, Pcs, FileContents
  <1>4. LockOwnership'
    BY DEF LockOwnership, InPack, InState, LockedPackPcs
  <1>5. LocalsReady'
    BY DEF LocalsReady, LocalsReadyAt, AddPcs, LockedPackPcs, Triggers, Unset
  <1>6. ImagesPresent'
    BY DEF ImagesPresent, diskVars
  <1> QED BY <1>1, <1>2, <1>3, <1>4, <1>5, <1>6

LEMMA InitInv == Init => Inv
  <1> SUFFICES ASSUME Init
               PROVE  Inv
    OBVIOUS
  <1> USE IdsAssumption, NoneAssumption DEF Init
  <1>1. MemoryType /\ SyncType /\ HistoryType
    BY DEF MemoryType, SyncType, HistoryType, NoInodes, Unset
  <1>2. DiskType
    BY DEF DiskType, NoInodes, FileContents
  <1>3. LocalsType
    BY DEF LocalsType, Unset, Pcs, FileContents
  <1>4. LockOwnership
    BY DEF LockOwnership, InPack, InState, LockedPackPcs
  <1>5. LocalsReady
    BY DEF LocalsReady, LocalsReadyAt, AddPcs, LockedPackPcs, Triggers, Unset
  <1>6. ImagesPresent
    BY DEF ImagesPresent
  <1> QED BY <1>1, <1>2, <1>3, <1>4, <1>5, <1>6 DEF Inv, TypeOK

LEMMA StutterInv == Inv /\ UNCHANGED vars => Inv'
  BY DEF Inv, TypeOK, MemoryType, DiskType, SyncType, LocalsType, HistoryType,
         LockOwnership, InPack, InState, LocalsReady, LocalsReadyAt, ImagesPresent,
         vars, memVars, diskVars, lockVars, poolVars, addVars, packVars, readVars,
         answers, counters

LEMMA NextInv == Inv /\ [Next]_vars => Inv'
  <1> SUFFICES ASSUME Inv, [Next]_vars
               PROVE  Inv'
    OBVIOUS
  <1>1. CASE \E t \in Threads : Call(t) \/ Step(t)
    BY <1>1, ThreadInv
  <1>2. CASE Worker
    BY <1>2, WorkerInv DEF Worker
  <1>3. CASE Crash
    BY <1>3, CrashInv
  <1>4. CASE Stop \/ UNCHANGED vars
    BY <1>4, StutterInv DEF Stop
  <1> QED BY <1>1, <1>2, <1>3, <1>4 DEF Next

\* Inv is an invariant of every instance.
LEMMA Invariance == Spec => []Inv
  BY InitInv, NextInv, PTL DEF Spec

\* Every variable keeps its type: what one operation leaves behind in memory, on
\* disk or in the pool is something the others can work on.
THEOREM TypeCorrect == Spec => []TypeOK
  <1>1. Inv => TypeOK
    BY DEF Inv
  <1> QED BY <1>1, Invariance, PTL

\* pack_mutex_ and state_mutex_ are held exactly in the code they protect, on every
\* path including the error returns of PackVolumeInternal and of the append loop.
THEOREM LocksOwned == Spec => []LockOwnership
  <1>1. Inv => LockOwnership
    BY DEF Inv
  <1> QED BY <1>1, Invariance, PTL

\* No step reads a local that was not set or an element past the end of a list, and
\* a pack, a mount or a read in progress has its image on disk.
THEOREM StepsReady == Spec => []LocalsReady
  <1>1. Inv => LocalsReady
    BY DEF Inv
  <1> QED BY <1>1, Invariance, PTL

\* Mounted volumes and queued writes have their image, headers the id of their file.
THEOREM ImagesOnDisk == Spec => []ImagesPresent
  <1>1. Inv => ImagesPresent
    BY DEF Inv
  <1> QED BY <1>1, Invariance, PTL
=============================================================================
