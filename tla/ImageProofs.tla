----------------------------- MODULE ImageProofs -----------------------------
(***************************************************************************)
(* Part 3 of the theorems about VolumeManager: what an image holds.        *)
(*                                                                         *)
(* An image is written by several hands: the pack writes the header and    *)
(* the records under both mutexes, pool tasks write the data, and a task   *)
(* of a pack that failed writes after the mutexes were released, to an     *)
(* image others may try to mount.  The invariant ties together what the    *)
(* pack has planned, what it has written, what every image holds and what  *)
(* the queued writes are still going to write: nothing in an image is ever *)
(* changed, only added to.                                                 *)
(***************************************************************************)
EXTENDS StagingProofs

\* The pack has written the header of its image.
ImagedPcs == {"metas", "read_temps", "join_writes", "finish"}

DataStart(n) == HeaderLen + RecordLen * n

Start(file) == file.offset_in_volume
End(file) == Start(file) + CompressedSize[file.path]

\* The files at the places S of a list lie one after the other between lo and hi.
LaidOut(files, S, lo, hi) ==
    \A k \in S : /\ lo <= Start(files[k])
                 /\ End(files[k]) <= hi
                 /\ \A j \in S : j < k => End(files[j]) <= Start(files[k])

\* The bytes of a file, where its record says.
ExtentOf(file) == [offset |-> Start(file), size |-> CompressedSize[file.path],
                   content |-> file.path]
Written(file) == CompressedSize[file.path] = 0
                 \/ ExtentOf(file) \in images[file.volume_id].data

\* The files a pack has given their place.
PlacedFiles(t) == {k \in DOMAIN pending_files : pc[t] = "place" => k < index[t]}

NoWrites(v) == \A task \in pool : task.kind = "write" => task.volume_id # v

\* The header a pack works with describes the pending files, and its volume is new.
PlannedAt(t) ==
    LET m == volume_meta[t]
    IN pc[t] \in LockedPackPcs =>
          /\ m.file_count = Len(pending_files)
          /\ m.user_data_offset = DataStart(Len(pending_files))
          /\ \A k \in DOMAIN pending_files : pending_files[k].volume_id = m.volume_id
          /\ LaidOut(pending_files, PlacedFiles(t), m.user_data_offset,
                     m.user_data_offset + m.user_data_size)
          /\ m.volume_id \notin mounted_volumes
          /\ \A u \in Threads : pc[u] = "mount" => volume_meta[u].volume_id # m.volume_id
          /\ pc[t] \in {"place", "header"} => images[m.volume_id] = None

\* The pool has not finished, or failed to finish, the write of the k-th file.
BeingWritten(t, k) ==
    \/ <<t, k>> \in failed
    \/ \E task \in pool : /\ task.kind = "write" /\ task.owner = t /\ task.k = k
                          /\ task.volume_id = volume_meta[t].volume_id

\* The image of a pack holds the records written so far, and before it is mounted the
\* bytes of every file.
ImagedAt(t) ==
    LET m == volume_meta[t]
        image == images[m.volume_id]
    IN pc[t] \in ImagedPcs =>
          /\ image.header = m
          /\ Len(image.metas) = IF pc[t] = "metas" THEN index[t] - 1 ELSE Len(pending_files)
          /\ \A k \in DOMAIN image.metas : image.metas[k] = pending_files[k]
          /\ pc[t] \in {"metas", "read_temps"} => image.data = {} /\ NoWrites(m.volume_id)
          /\ pc[t] = "join_writes" =>
                \A k \in DOMAIN pending_files : Written(pending_files[k]) \/ BeingWritten(t, k)
          /\ pc[t] = "finish" => \A k \in DOMAIN pending_files : Written(pending_files[k])

Torned(e) == [e EXCEPT !.content = Torn]

\* The records of an image are laid out where its header says, and its data are bytes
\* of its files in their places, whole or torn.
ImageSound(v) ==
    LET image == images[v]
        metas == image.metas
    IN images[v] # None =>
          /\ \A k \in DOMAIN metas : metas[k].volume_id = v
          /\ image.header = Torn => metas = <<>>
          /\ image.header # Torn =>
                /\ Len(metas) <= image.header.file_count
                /\ LaidOut(metas, DOMAIN metas, DataStart(image.header.file_count),
                           image.header.user_data_offset + image.header.user_data_size)
          /\ \A d \in image.data :
                d.size # 0 /\ \E k \in DOMAIN metas : d \in {ExtentOf(metas[k]),
                                                             Torned(ExtentOf(metas[k]))}

\* A queued write writes a file of its image in its place, for the first time.
WriteSound(task) ==
    LET image == images[task.volume_id]
    IN task.kind = "write" =>
          /\ task.k \in DOMAIN image.metas
          /\ task.extent = ExtentOf(image.metas[task.k])
          /\ \A d \in image.data : ~Overlap(d, task.extent)
          /\ \A other \in pool : /\ other.kind = "write"
                                 /\ other.volume_id = task.volume_id
                                 /\ other.k = task.k
                                 => other = task

\* What packs and their pool tasks do to images.
Layout ==
    /\ \A t \in Threads : PlannedAt(t) /\ ImagedAt(t)
    /\ \A v \in VolumeIds : ImageSound(v)
    /\ \A task \in pool : WriteSound(task)

\* The image has its header and all its records.
Whole(image) == image.header # Torn /\ Len(image.metas) = image.header.file_count

\* Nothing is taken out of an image, and nothing added to the records of a whole one.
ImageGrows ==
    \A v \in VolumeIds : images[v] # None =>
       /\ images'[v] # None
       /\ images'[v].header = images[v].header
       /\ \A k \in DOMAIN images[v].metas : /\ k \in DOMAIN images'[v].metas
                                            /\ images'[v].metas[k] = images[v].metas[k]
       /\ images[v].data \subseteq images'[v].data
       /\ Whole(images[v]) => images'[v].metas = images[v].metas

-----------------------------------------------------------------------------
(* The pack in progress. *)

\* There is one pack at a time.
LEMMA OnePack ==
    ASSUME Inv, NEW t \in Threads, NEW u \in Threads,
           pc[t] \in LockedPackPcs, pc[u] \in LockedPackPcs
    PROVE  t = u
  BY DEF Inv, LockOwnership, InState

\* What a pack works with.
LEMMA PackLocals ==
    ASSUME Inv, NEW t \in Threads, pc[t] \in LockedPackPcs
    PROVE  /\ volume_meta[t] \in VolumeRecord
           /\ volume_meta[t].volume_id \in VolumeIds
           /\ pending_files \in Seq(FileRecord)
           /\ index[t] \in Nat \ {0}
           /\ pc[t] \in {"place", "header", "metas"} => index[t] \in DOMAIN pending_files
           /\ pc[t] \in ImagedPcs => images[volume_meta[t].volume_id] \in Image
  <1> USE DEF Inv, TypeOK, LocalsType, MemoryType, DiskType, LocalsReady, LocalsReadyAt
  <1>1. volume_meta[t] \in VolumeRecord
    OBVIOUS
  <1>2. volume_meta[t].volume_id \in VolumeIds
    BY <1>1 DEF VolumeRecord
  <1>3. pc[t] \in {"place", "header", "metas"} => index[t] \in DOMAIN pending_files
    OBVIOUS
  <1>4. pc[t] \in ImagedPcs => images[volume_meta[t].volume_id] \in Image
    BY <1>2 DEF ImagedPcs
  <1> QED BY <1>1, <1>2, <1>3, <1>4

\* Nobody else touches what a pack works with.
LEMMA PackAside ==
    ASSUME Inv, NEW t \in Threads, NEW u \in Threads \ {t}, Call(t) \/ Step(t),
           pc[u] \in LockedPackPcs
    PROVE  /\ pc[t] \notin LockedPackPcs
           /\ UNCHANGED <<pending_files, images>>
           /\ LocalsOf(u)' = LocalsOf(u)
           /\ \/ mounted_volumes' \subseteq mounted_volumes
              \/ /\ pc[t] = "mount"
                 /\ mounted_volumes' = mounted_volumes \cup {volume_meta[t].volume_id}
  <1>1. pc[t] \notin LockedPackPcs
    BY OnePack
  <1>2. state_mutex = u /\ state_mutex # t /\ state_mutex # None
    BY IdsAssumption DEF Inv, LockOwnership, InState
  <1>3. ~(pc[t] = "push" /\ index[t] > 1)
    BY <1>2 DEF Inv, LockOwnership, InState
  <1>4. LocalsOf(u)' = LocalsOf(u)
    BY OthersStep DEF Inv, TypeOK
  <1>5. CASE Call(t)
    BY <1>1, <1>4, <1>5 DEF Call, CallAdd, CallBatch, CallPack, CallMount, CallRead, Unmount,
                            memVars, diskVars
  <1>6. CASE CollectStep(t)
    <2>1. ~PushFile(t)
      BY <1>2, <1>3 DEF PushFile
    <2> QED BY <1>1, <1>4, <1>6, <2>1 DEF CollectStep, CompressFile, CompressFileFails,
               JoinCompress, JoinCompressFails, CheckRoom, PushTooLarge, memVars, diskVars
  <1>7. CASE PackStep(t)
    BY <1>1, <1>2, <1>4, <1>7 DEF PackStep, LockPack, NothingToPack, PlanVolume, PlaceFile,
       WriteHeader, WriteHeaderFails, WriteMeta, WriteMetaFails, ReadTemps, ReadTempsFails,
       JoinWrites, JoinWritesFails, FinishPack, LockedPackPcs, memVars, diskVars
  <1>8. CASE MountReadStep(t)
    BY <1>1, <1>4, <1>8 DEF MountReadStep, MountRecord, MountRecordFails, FinishMount,
       ReadImage, ReadImageFails, FillOutput, FillOutputFails, memVars, diskVars
  <1> QED BY <1>5, <1>6, <1>7, <1>8 DEF Step

-----------------------------------------------------------------------------
(* Images only grow. *)

\* The steps of a thread that write to an image.
LEMMA ImagesEffect ==
    ASSUME NEW t \in Threads, Call(t) \/ Step(t)
    PROVE  LET v == volume_meta[t].volume_id
           IN \/ UNCHANGED images
              \/ /\ WriteHeader(t) \/ WriteHeaderFails(t)
                 /\ \E h \in {volume_meta[t], Torn} :
                       images' = [images EXCEPT ![v] =
                                     [header |-> h, metas |-> <<>>, data |-> {}]]
              \/ /\ WriteMeta(t)
                 /\ images' = [images EXCEPT ![v].metas = Append(@, pending_files[index[t]])]
  <1>1. CASE WriteHeader(t)
    BY <1>1 DEF WriteHeader
  <1>2. CASE WriteHeaderFails(t)
    BY <1>2 DEF WriteHeaderFails
  <1>3. CASE WriteMeta(t)
    BY <1>3 DEF WriteMeta
  <1>4. CASE Call(t)
    BY <1>4 DEF Call, CallAdd, CallBatch, CallPack, CallMount, CallRead, Unmount, diskVars
  <1>5. CASE CollectStep(t)
    BY <1>5 DEF CollectStep, CompressFile, CompressFileFails, JoinCompress,
                JoinCompressFails, CheckRoom, PushFile, PushTooLarge, diskVars
  <1>6. CASE PackStep(t) /\ ~WriteHeader(t) /\ ~WriteHeaderFails(t) /\ ~WriteMeta(t)
    BY <1>6 DEF PackStep, LockPack, NothingToPack, PlanVolume, PlaceFile, WriteMetaFails,
                ReadTemps, ReadTempsFails, JoinWrites, JoinWritesFails, FinishPack, diskVars
  <1>7. CASE MountReadStep(t)
    BY <1>7 DEF MountReadStep, MountRecord, MountRecordFails, FinishMount, ReadImage,
                ReadImageFails, FillOutput, FillOutputFails, diskVars
  <1> QED BY <1>1, <1>2, <1>3, <1>4, <1>5, <1>6, <1>7 DEF Step

\* A record is appended to an image that is not whole yet.
LEMMA AppendEffect ==
    ASSUME NEW t \in Threads, Inv, Layout, WriteMeta(t)
    PROVE  LET v == volume_meta[t].volume_id
           IN /\ v \in VolumeIds /\ images[v] \in Image /\ images'[v] \in Image
              /\ images'[v].header = images[v].header
              /\ images[v].header = volume_meta[t]
              /\ images'[v].data = images[v].data
              /\ Len(images[v].metas) = index[t] - 1
              /\ Len(images'[v].metas) = index[t]
              /\ \A k \in DOMAIN images'[v].metas : images'[v].metas[k] = pending_files[k]
              /\ \A k \in DOMAIN images[v].metas : k \in DOMAIN images'[v].metas
              /\ index[t] <= images[v].header.file_count
              /\ \A w \in VolumeIds : w # v => images'[w] = images[w]
  <1> DEFINE v == volume_meta[t].volume_id
             file == pending_files[index[t]]
             s == images[v].metas
  <1>1. pc[t] = "metas" /\ pc[t] \in LockedPackPcs /\ pc[t] \in ImagedPcs
    BY DEF WriteMeta, LockedPackPcs, ImagedPcs
  <1>2. /\ v \in VolumeIds /\ images[v] \in Image
        /\ index[t] \in DOMAIN pending_files /\ pending_files \in Seq(FileRecord)
    BY <1>1, PackLocals
  <1>3. images' = [images EXCEPT ![v].metas = Append(@, file)]
    BY DEF WriteMeta
  <1>4. file \in FileRecord /\ s \in Seq(FileRecord)
    BY <1>2 DEF Image
  <1>5. /\ images[v].header = volume_meta[t]
        /\ Len(s) = index[t] - 1
        /\ \A k \in DOMAIN s : s[k] = pending_files[k]
        /\ volume_meta[t].file_count = Len(pending_files)
    BY <1>1 DEF Layout, PlannedAt, ImagedAt
  <1>6. images'[v] = [images[v] EXCEPT !.metas = Append(s, file)]
    BY <1>2, <1>3 DEF Inv, TypeOK, DiskType
  <1>7. /\ images'[v].metas = Append(s, file)
        /\ images'[v].header = images[v].header
        /\ images'[v].data = images[v].data
    BY <1>2, <1>6 DEF Image
  <1>8. images'[v] \in Image
    BY <1>2, <1>4, <1>6, AppendMetaType
  <1>9. \A w \in VolumeIds : w # v => images'[w] = images[w]
    BY <1>2, <1>3 DEF Inv, TypeOK, DiskType
  <1> HIDE DEF v, file, s
  <1>10. /\ Len(Append(s, file)) = Len(s) + 1
         /\ Append(s, file)[Len(s) + 1] = file
         /\ \A k \in DOMAIN s : k \in DOMAIN Append(s, file) /\ Append(s, file)[k] = s[k]
         /\ DOMAIN Append(s, file) = DOMAIN s \cup {Len(s) + 1}
    BY <1>4
  <1>11. index[t] \in Nat
    BY <1>2
  <1>12. /\ Len(images'[v].metas) = index[t]
         /\ \A k \in DOMAIN s : k \in DOMAIN images'[v].metas
    BY <1>5, <1>7, <1>10, <1>11
  <1>13. \A k \in DOMAIN images'[v].metas : images'[v].metas[k] = pending_files[k]
    BY <1>5, <1>7, <1>10, <1>11 DEF file
  <1>14. index[t] <= Len(pending_files)
    BY <1>2
  <1> QED BY <1>2, <1>5, <1>7, <1>8, <1>9, <1>12, <1>13, <1>14 DEF v, s

LEMMA GrowThread ==
    ASSUME NEW t \in Threads, Inv, Layout, Call(t) \/ Step(t)
    PROVE  ImageGrows
  <1>1. CASE UNCHANGED images
    BY <1>1 DEF ImageGrows
  <1>2. CASE WriteHeader(t) \/ WriteHeaderFails(t)
    <2>1. pc[t] = "header" /\ pc[t] \in LockedPackPcs
      BY <1>2 DEF WriteHeader, WriteHeaderFails, LockedPackPcs
    <2>2. images[volume_meta[t].volume_id] = None
      BY <2>1 DEF Layout, PlannedAt
    <2>3. \A v \in VolumeIds : images[v] # None => images'[v] = images[v]
      BY <1>2, <2>2 DEF WriteHeader, WriteHeaderFails, Inv, TypeOK, DiskType
    <2> QED BY <2>3 DEF ImageGrows
  <1>3. CASE WriteMeta(t)
    <2> DEFINE v == volume_meta[t].volume_id
    <2>1. /\ v \in VolumeIds /\ images[v] \in Image /\ images'[v] \in Image
          /\ images'[v].header = images[v].header
          /\ images'[v].data = images[v].data
          /\ Len(images[v].metas) = index[t] - 1
          /\ \A k \in DOMAIN images'[v].metas : images'[v].metas[k] = pending_files[k]
          /\ \A k \in DOMAIN images[v].metas : k \in DOMAIN images'[v].metas
          /\ index[t] <= images[v].header.file_count
          /\ \A w \in VolumeIds : w # v => images'[w] = images[w]
      BY <1>3, AppendEffect
    <2>2. pc[t] \in ImagedPcs /\ index[t] \in Nat
      BY <1>3 DEF WriteMeta, ImagedPcs, Inv, TypeOK, LocalsType
    <2>3. \A k \in DOMAIN images[v].metas : images[v].metas[k] = pending_files[k]
      BY <2>2 DEF Layout, ImagedAt
    <2>4. images'[v] # None
      BY <2>1, NoneAssumption
    <2>5. ~Whole(images[v])
      <3>1. CASE images[v].header = Torn
        BY <3>1 DEF Whole
      <3>2. CASE images[v].header # Torn
        <4>1. images[v].header.file_count \in Nat
          BY <2>1, <3>2 DEF Image, VolumeRecord
        <4> QED BY <2>1, <2>2, <4>1 DEF Whole
      <3> QED BY <3>1, <3>2
    <2> HIDE DEF v
    <2> QED BY <2>1, <2>3, <2>4, <2>5 DEF ImageGrows
  <1> QED BY <1>1, <1>2, <1>3, ImagesEffect

\* A thread writes no data.
LEMMA ThreadData ==
    ASSUME NEW t \in Threads, Inv, Layout, Call(t) \/ Step(t),
           NEW v \in VolumeIds, images[v] # None
    PROVE  images'[v].data = images[v].data
  <1>1. CASE WriteHeader(t) \/ WriteHeaderFails(t)
    <2>1. pc[t] = "header" /\ pc[t] \in LockedPackPcs
      BY <1>1 DEF WriteHeader, WriteHeaderFails, LockedPackPcs
    <2>2. images[volume_meta[t].volume_id] = None
      BY <2>1 DEF Layout, PlannedAt
    <2> QED BY <1>1, <2>2 DEF WriteHeader, WriteHeaderFails, Inv, TypeOK, DiskType
  <1>2. CASE WriteMeta(t)
    BY <1>2, AppendEffect
  <1> QED BY <1>1, <1>2, ImagesEffect

\* A write adds its extent, whole or torn, to the data of its image and changes nothing.
LEMMA WriteEffect ==
    ASSUME NEW task \in pool, Inv, Layout, RunTask(task), task.kind = "write"
    PROVE  LET v == task.volume_id
           IN /\ v \in VolumeIds /\ images[v] \in Image /\ images'[v] \in Image
              /\ images'[v].header = images[v].header
              /\ images'[v].metas = images[v].metas
              /\ images[v].data \subseteq images'[v].data
              /\ \A d \in images'[v].data :
                    \/ d \in images[v].data
                    \/ d.size # 0 /\ d \in {task.extent, Torned(task.extent)}
              /\ \A w \in VolumeIds : w # v => images'[w] = images[w]
              /\ \/ task.extent.size = 0
                 \/ task.extent \in images'[v].data
                 \/ RunWriteFails(task)
  <1> DEFINE v == task.volume_id
  <1>1. v \in VolumeIds /\ task.extent \in Extent
    BY DEF Inv, TypeOK, SyncType, CompressTask, WriteTask
  <1>2. images[v] \in Image
    BY <1>1 DEF Inv, TypeOK, DiskType, ImagesPresent
  <1>3. \A d \in images[v].data : ~Overlap(d, task.extent)
    BY DEF Layout, WriteSound
  <1>4. ASSUME NEW e \in {task.extent, Torned(task.extent)}
        PROVE  /\ e.size = task.extent.size
               /\ Overwrite(images[v].data, e) =
                     images[v].data \cup (IF e.size = 0 THEN {} ELSE {e})
    <2>1. e.offset = task.extent.offset /\ e.size = task.extent.size
      BY <1>1 DEF Torned, Extent
    <2> QED BY <1>3, <2>1 DEF Overwrite, Overlap
  <1>5. ASSUME NEW e \in {task.extent, Torned(task.extent)},
               images' = [images EXCEPT ![v].data = Overwrite(@, e)]
        PROVE  /\ images'[v].header = images[v].header
               /\ images'[v].metas = images[v].metas
               /\ images'[v].data = images[v].data \cup (IF e.size = 0 THEN {} ELSE {e})
               /\ \A w \in VolumeIds : w # v => images'[w] = images[w]
    BY <1>1, <1>2, <1>4, <1>5 DEF Image, Inv, TypeOK, DiskType
  <1>6. images'[v] \in Image
    BY <1>1, <1>2, NoneAssumption, WorkerEffect DEF DiskType
  <1>8. CASE RunWrite(task)
    <2>1. images' = [images EXCEPT ![v].data = Overwrite(@, task.extent)]
      BY <1>8 DEF RunWrite
    <2> QED BY <1>1, <1>2, <1>5, <1>6, <2>1
  <1>9. CASE RunWriteFails(task)
    <2>1. UNCHANGED images
          \/ images' = [images EXCEPT ![v].data = Overwrite(@, Torned(task.extent))]
      BY <1>9 DEF RunWriteFails, Torned
    <2>2. CASE UNCHANGED images
      BY <1>1, <1>2, <1>9, <2>2
    <2>3. CASE images' = [images EXCEPT ![v].data = Overwrite(@, Torned(task.extent))]
      BY <1>1, <1>2, <1>5, <1>6, <1>9, <2>3
    <2> QED BY <2>1, <2>2, <2>3
  <1> QED BY <1>8, <1>9 DEF RunTask, RunCompress, RunCompressFails

LEMMA CompressEffect ==
    ASSUME NEW task \in pool, RunTask(task), task.kind # "write"
    PROVE  UNCHANGED images
  BY DEF RunTask, RunCompress, RunCompressFails, RunWrite, RunWriteFails

LEMMA GrowWorker ==
    ASSUME NEW task \in pool, Inv, Layout, RunTask(task)
    PROVE  ImageGrows
  <1>1. CASE task.kind = "write"
    BY <1>1, WriteEffect, NoneAssumption DEF ImageGrows
  <1>2. CASE task.kind # "write"
    BY <1>2, CompressEffect DEF ImageGrows
  <1> QED BY <1>1, <1>2

-----------------------------------------------------------------------------
(* The records and the data of every image. *)

\* Files laid out one after the other share no byte.
LEMMA LaidApart ==
    ASSUME NEW files \in Seq(FileRecord), NEW S \in SUBSET DOMAIN files, NEW lo, NEW hi,
           LaidOut(files, S, lo, hi), NEW j \in S, NEW k \in S, j # k
    PROVE  /\ ~Overlap(ExtentOf(files[j]), ExtentOf(files[k]))
           /\ ~Overlap(Torned(ExtentOf(files[j])), ExtentOf(files[k]))
  <1>1. files[j] \in FileRecord /\ files[k] \in FileRecord /\ j \in Nat /\ k \in Nat
    OBVIOUS
  <1>2. /\ Start(files[j]) \in Nat /\ CompressedSize[files[j].path] \in Nat
        /\ Start(files[k]) \in Nat /\ CompressedSize[files[k].path] \in Nat
    BY <1>1, SizesAssumption DEF Start, FileRecord
  <1>3. \/ Start(files[j]) + CompressedSize[files[j].path] <= Start(files[k])
        \/ Start(files[k]) + CompressedSize[files[k].path] <= Start(files[j])
    BY <1>1 DEF LaidOut, End
  <1> QED BY <1>2, <1>3 DEF Overlap, ExtentOf, Torned

LEMMA ImageSoundThread ==
    ASSUME NEW t \in Threads, Inv, Layout, Call(t) \/ Step(t), NEW v \in VolumeIds
    PROVE  ImageSound(v)'
  <1>0. ImageSound(v)
    BY DEF Layout
  <1>1. CASE images'[v] = images[v]
    BY <1>0, <1>1 DEF ImageSound
  <1>2. ASSUME NEW h \in {volume_meta[t], Torn}, WriteHeader(t) \/ WriteHeaderFails(t),
               images'[v] = [header |-> h, metas |-> <<>>, data |-> {}]
        PROVE  ImageSound(v)'
    <2>1. pc[t] \in LockedPackPcs
      BY <1>2 DEF WriteHeader, WriteHeaderFails, LockedPackPcs
    <2>2. h # Torn => h.file_count \in Nat
      BY <2>1, PackLocals DEF VolumeRecord
    <2> QED BY <1>2, <2>2 DEF ImageSound, LaidOut
  <1>3. CASE WriteMeta(t) /\ v = volume_meta[t].volume_id
    <2>1. /\ images'[v] \in Image
          /\ images'[v].header = volume_meta[t]
          /\ images'[v].data = images[v].data
          /\ Len(images'[v].metas) = index[t]
          /\ \A k \in DOMAIN images'[v].metas : images'[v].metas[k] = pending_files[k]
          /\ index[t] <= images'[v].header.file_count
      BY <1>3, AppendEffect
    <2>2. pc[t] = "metas" /\ pc[t] \in LockedPackPcs /\ pc[t] \in ImagedPcs
      BY <1>3 DEF WriteMeta, LockedPackPcs, ImagedPcs
    <2>3. /\ volume_meta[t] \in VolumeRecord /\ index[t] \in DOMAIN pending_files
          /\ pending_files \in Seq(FileRecord)
      BY <2>2, PackLocals
    <2>4. /\ volume_meta[t].user_data_offset = DataStart(volume_meta[t].file_count)
          /\ \A k \in DOMAIN pending_files : pending_files[k].volume_id = v
          /\ LaidOut(pending_files, DOMAIN pending_files, volume_meta[t].user_data_offset,
                     volume_meta[t].user_data_offset + volume_meta[t].user_data_size)
      BY <1>3, <2>2 DEF Layout, PlannedAt, PlacedFiles
    <2>5. images'[v].data = {}
      BY <1>3, <2>1, <2>2 DEF Layout, ImagedAt
    <2>6. DOMAIN images'[v].metas \subseteq DOMAIN pending_files
      <3>1. images'[v].metas \in Seq(FileRecord)
        BY <2>1 DEF Image
      <3> QED BY <2>1, <2>3, <3>1
    <2>7. LaidOut(images'[v].metas, DOMAIN images'[v].metas,
                  DataStart(volume_meta[t].file_count),
                  volume_meta[t].user_data_offset + volume_meta[t].user_data_size)
      BY <2>1, <2>4, <2>6 DEF LaidOut
    <2> QED BY <2>1, <2>3, <2>4, <2>5, <2>6, <2>7, TornAssumption DEF ImageSound
  <1>4. CASE WriteMeta(t) /\ v # volume_meta[t].volume_id
    BY <1>1, <1>4, AppendEffect
  <1>5. CASE WriteHeader(t) \/ WriteHeaderFails(t)
    <2>1. \/ images'[v] = images[v]
          \/ \E h \in {volume_meta[t], Torn} :
                images'[v] = [header |-> h, metas |-> <<>>, data |-> {}]
      BY <1>5 DEF WriteHeader, WriteHeaderFails, Inv, TypeOK, DiskType
    <2> QED BY <1>1, <1>2, <1>5, <2>1
  <1> QED BY <1>1, <1>3, <1>4, <1>5, ImagesEffect

LEMMA ImageSoundWorker ==
    ASSUME NEW task \in pool, Inv, Layout, RunTask(task), NEW v \in VolumeIds
    PROVE  ImageSound(v)'
  <1>0. ImageSound(v)
    BY DEF Layout
  <1>1. CASE images'[v] = images[v]
    BY <1>0, <1>1 DEF ImageSound
  <1>2. CASE task.kind = "write" /\ v = task.volume_id
    <2>1. /\ images[v] \in Image
          /\ images'[v].header = images[v].header
          /\ images'[v].metas = images[v].metas
          /\ \A d \in images'[v].data :
                \/ d \in images[v].data
                \/ d.size # 0 /\ d \in {task.extent, Torned(task.extent)}
      BY <1>2, WriteEffect
    <2>2. task.k \in DOMAIN images[v].metas /\ task.extent = ExtentOf(images[v].metas[task.k])
      BY <1>2 DEF Layout, WriteSound
    <2>3. images[v] # None
      BY <2>1, NoneAssumption
    <2> QED BY <1>0, <2>1, <2>2, <2>3 DEF ImageSound
  <1>3. CASE task.kind = "write" /\ v # task.volume_id
    BY <1>1, <1>3, WriteEffect
  <1>4. CASE task.kind # "write"
    BY <1>1, <1>4, CompressEffect
  <1> QED BY <1>2, <1>3, <1>4

-----------------------------------------------------------------------------
(* The queued writes. *)

\* A queued write was there before, with the same owner or with none any more, or is
\* one of those the pack has just enqueued.
LEMMA WriteTasksStep ==
    ASSUME NEW t \in Threads, Inv, FreshIds, Staging, Call(t) \/ Step(t),
           NEW task \in pool', task.kind = "write"
    PROVE  \/ \E old \in pool :
                 /\ old.kind = "write" /\ old.volume_id = task.volume_id
                 /\ old.k = task.k /\ old.extent = task.extent
                 /\ \/ old.owner # t /\ task = old
                    \/ old.owner = t /\ task = [old EXCEPT !.owner = None]
           \/ ReadTemps(t) /\ \E k \in DOMAIN pending_files : task = WriteTaskOf(t, k)
  <1>1. CASE task \in pool /\ task.owner # t
    BY <1>1
  <1>2. ASSUME NEW old \in pool, old.owner = t, task = [old EXCEPT !.owner = None]
        PROVE  /\ old.kind = "write" /\ old.volume_id = task.volume_id
               /\ old.k = task.k /\ old.extent = task.extent
    <2>1. old \in CompressTask \/ old \in WriteTask
      BY DEF Inv, TypeOK, SyncType
    <2>2. old.kind = task.kind
      BY <1>2, <2>1 DEF CompressTask, WriteTask
    <2>3. old \in WriteTask
      BY <2>1, <2>2 DEF CompressTask
    <2> QED BY <1>2, <2>2, <2>3 DEF WriteTask
  <1>3. ASSUME NEW k, task = [kind |-> "compress", owner |-> t, k |-> k,
                              inode_id |-> tasks'[t][k].inode_id, path |-> tasks'[t][k].path]
        PROVE  FALSE
    BY <1>3
  <1> QED BY <1>1, <1>2, <1>3, PoolStep DEF Staging

\* The writes a pack enqueues are those of its records.
LEMMA EnqueuedWrite ==
    ASSUME NEW t \in Threads, Inv, Staging, Layout, ReadTemps(t),
           NEW k \in DOMAIN pending_files
    PROVE  LET task == WriteTaskOf(t, k)
               v == volume_meta[t].volume_id
           IN /\ task.kind = "write" /\ task.owner = t /\ task.k = k /\ task.volume_id = v
              /\ v \in VolumeIds /\ images[v] # None
              /\ images[v].data = {} /\ NoWrites(v)
              /\ k \in DOMAIN images[v].metas
              /\ task.extent = ExtentOf(images[v].metas[k])
              /\ images[v].metas[k] = pending_files[k]
  <1> DEFINE v == volume_meta[t].volume_id
  <1>1. pc[t] = "read_temps" /\ pc[t] \in LockedPackPcs /\ pc[t] \in ImagedPcs
    BY DEF ReadTemps, LockedPackPcs, ImagedPcs
  <1>2. v \in VolumeIds /\ images[v] \in Image /\ pending_files \in Seq(FileRecord)
    BY <1>1, PackLocals
  <1>3. /\ Len(images[v].metas) = Len(pending_files)
        /\ \A j \in DOMAIN images[v].metas : images[v].metas[j] = pending_files[j]
        /\ images[v].data = {} /\ NoWrites(v)
    BY <1>1 DEF Layout, ImagedAt
  <1>4. k \in DOMAIN images[v].metas
    <2>1. images[v].metas \in Seq(FileRecord)
      BY <1>2 DEF Image
    <2> QED BY <1>2, <1>3, <2>1
  <1>5. temp_files[pending_files[k].inode_id] = pending_files[k].path
    BY DEF Staging, TempsStaged, Staged
  <1>6. pending_files[k].path \in Paths
    <2>1. pending_files[k] \in FileRecord
      BY <1>2
    <2> QED BY <2>1 DEF FileRecord
  <1>7. WriteTaskOf(t, k).extent = ExtentOf(pending_files[k])
    BY <1>5, <1>6, IdsAssumption DEF WriteTaskOf, ExtentOf, Start
  <1> QED BY <1>2, <1>3, <1>4, <1>7, NoneAssumption DEF WriteTaskOf

LEMMA WriteSoundThread ==
    ASSUME NEW t \in Threads, Inv, FreshIds, Staging, Layout, Call(t) \/ Step(t),
           NEW task \in pool'
    PROVE  WriteSound(task)'
  <1> SUFFICES ASSUME task.kind = "write"
               PROVE  WriteSound(task)'
    BY DEF WriteSound
  <1>1. ImageGrows
    BY GrowThread
  <1>2. ASSUME NEW old \in pool, old.kind = "write", old.volume_id = task.volume_id,
               old.k = task.k, old.extent = task.extent,
               \/ old.owner # t /\ task = old
               \/ old.owner = t /\ task = [old EXCEPT !.owner = None]
        PROVE  WriteSound(task)'
    <2> DEFINE v == old.volume_id
    <2>1. v \in VolumeIds /\ images[v] # None
      BY <1>2 DEF Inv, TypeOK, SyncType, CompressTask, WriteTask, ImagesPresent
    <2>2. /\ old.k \in DOMAIN images[v].metas
          /\ old.extent = ExtentOf(images[v].metas[old.k])
          /\ \A d \in images[v].data : ~Overlap(d, old.extent)
          /\ \A other \in pool : /\ other.kind = "write"
                                 /\ other.volume_id = v
                                 /\ other.k = old.k
                                 => other = old
      BY <1>2 DEF Layout, WriteSound
    <2>3. images'[v].data = images[v].data
      BY <2>1, ThreadData
    <2>4. old.k \in DOMAIN images'[v].metas /\ images'[v].metas[old.k] = images[v].metas[old.k]
      BY <1>1, <2>1, <2>2 DEF ImageGrows
    <2>5. ASSUME NEW other \in pool', other.kind = "write", other.volume_id = v,
                 other.k = old.k
          PROVE  other = task
      <3>1. ASSUME NEW k \in DOMAIN pending_files, ReadTemps(t), other = WriteTaskOf(t, k)
            PROVE  FALSE
        BY <1>2, <2>5, <3>1, EnqueuedWrite DEF NoWrites
      <3> QED BY <1>2, <2>2, <2>5, <3>1, WriteTasksStep
    <2> QED BY <1>2, <2>2, <2>3, <2>4, <2>5 DEF WriteSound
  <1>3. ASSUME ReadTemps(t), NEW k \in DOMAIN pending_files, task = WriteTaskOf(t, k)
        PROVE  WriteSound(task)'
    <2> DEFINE v == volume_meta[t].volume_id
    <2>1. /\ task.k = k /\ task.volume_id = v
          /\ v \in VolumeIds /\ images[v] # None
          /\ images[v].data = {} /\ NoWrites(v)
          /\ k \in DOMAIN images[v].metas
          /\ task.extent = ExtentOf(images[v].metas[k])
      BY <1>3, EnqueuedWrite
    <2>2. UNCHANGED images
      BY <1>3 DEF ReadTemps, diskVars
    <2>3. ASSUME NEW other \in pool', other.kind = "write", other.volume_id = v, other.k = k
          PROVE  other = task
      <3>1. ~\E old \in pool : old.kind = "write" /\ old.volume_id = other.volume_id
        BY <2>1, <2>3 DEF NoWrites
      <3>2. PICK j \in DOMAIN pending_files : other = WriteTaskOf(t, j)
        BY <2>3, <3>1, WriteTasksStep
      <3>3. other.k = j
        BY <1>3, <3>2, EnqueuedWrite
      <3> QED BY <1>3, <2>3, <3>2, <3>3
    <2> QED BY <2>1, <2>2, <2>3 DEF WriteSound
  <1> QED BY <1>2, <1>3, WriteTasksStep

LEMMA WriteSoundWorker ==
    ASSUME NEW task \in pool, Inv, Layout, RunTask(task), NEW other \in pool'
    PROVE  WriteSound(other)'
  <1> SUFFICES ASSUME other.kind = "write"
               PROVE  WriteSound(other)'
    BY DEF WriteSound
  <1> DEFINE v == other.volume_id
  <1>1. other \in pool /\ other # task /\ pool' \subseteq pool
    BY PoolEffect
  <1>2. v \in VolumeIds /\ images[v] \in Image
    BY <1>1 DEF Inv, TypeOK, SyncType, DiskType, CompressTask, WriteTask, ImagesPresent
  <1>3. WriteSound(other)
    BY <1>1 DEF Layout
  <1>4. CASE images'[v] = images[v]
    BY <1>1, <1>3, <1>4 DEF WriteSound
  <1>5. CASE task.kind = "write" /\ v = task.volume_id
    <2> DEFINE metas == images[v].metas
    <2>1. /\ images'[v].metas = images[v].metas
          /\ \A d \in images'[v].data :
                \/ d \in images[v].data
                \/ d \in {task.extent, Torned(task.extent)}
      BY <1>5, WriteEffect
    <2>2. /\ other.k \in DOMAIN metas /\ other.extent = ExtentOf(metas[other.k])
          /\ \A d \in images[v].data : ~Overlap(d, other.extent)
      BY <1>3 DEF WriteSound
    <2>3. /\ task.k \in DOMAIN metas /\ task.extent = ExtentOf(metas[task.k])
          /\ task.k # other.k
      BY <1>1, <1>3, <1>5 DEF Layout, WriteSound
    <2>4. metas \in Seq(FileRecord)
      BY <1>2 DEF Image
    <2>5. PICK lo, hi : LaidOut(metas, DOMAIN metas, lo, hi)
      <3>1. ImageSound(v) /\ images[v] # None
        BY <1>2, NoneAssumption DEF Layout
      <3>2. metas # <<>>
        BY <2>2
      <3> QED BY <3>1, <3>2 DEF ImageSound
    <2> HIDE DEF metas
    <2>6. /\ ~Overlap(task.extent, other.extent)
          /\ ~Overlap(Torned(task.extent), other.extent)
      BY <2>2, <2>3, <2>4, <2>5, LaidApart
    <2>7. \A d \in images'[v].data : ~Overlap(d, other.extent)
      BY <2>1, <2>2, <2>6
    <2> QED BY <1>1, <1>3, <2>1, <2>7 DEF WriteSound
  <1>6. CASE task.kind = "write" /\ v # task.volume_id
    BY <1>2, <1>4, <1>6, WriteEffect
  <1>7. CASE task.kind # "write"
    BY <1>4, <1>7, CompressEffect
  <1> QED BY <1>5, <1>6, <1>7

-----------------------------------------------------------------------------
(* The plan of a pack. *)

\* The steps a thread makes while it holds both mutexes.
LEMMA PackPcStep ==
    ASSUME NEW t \in Threads, Inv, Call(t) \/ Step(t), pc'[t] \in LockedPackPcs
    PROVE  \/ PlanVolume(t)
           \/ /\ pc[t] \in LockedPackPcs
              /\ \/ PlaceFile(t) \/ WriteHeader(t) \/ WriteMeta(t) \/ ReadTemps(t)
                 \/ JoinWrites(t)
  <1> USE DEF Inv, TypeOK, LocalsType, LockedPackPcs, Return, Goto
  <1>1. CASE Call(t)
    BY <1>1 DEF Call, CallAdd, CallBatch, CallPack, CallMount, CallRead, Unmount, Begin
  <1>2. CASE CollectStep(t)
    BY <1>2 DEF CollectStep, CompressFile, CompressFileFails, JoinCompress,
                JoinCompressFails, CheckRoom, PushFile, PushTooLarge
  <1>3. CASE PackStep(t)
    BY <1>3 DEF PackStep, LockPack, NothingToPack, PlaceFile, WriteHeader,
                WriteHeaderFails, WriteMeta, WriteMetaFails, ReadTemps, ReadTempsFails,
                JoinWrites, JoinWritesFails, FinishPack, PackFails
  <1>4. CASE MountReadStep(t)
    BY <1>4 DEF MountReadStep, MountRecord, MountRecordFails, FinishMount, ReadImage,
                ReadImageFails, FillOutput, FillOutputFails
  <1> QED BY <1>1, <1>2, <1>3, <1>4 DEF Step

\* The steps that lead into the loop of a mount.
LEMMA MountPcStep ==
    ASSUME NEW t \in Threads, Inv, Call(t) \/ Step(t), pc'[t] = "mount"
    PROVE  CallMount(t) \/ MountRecord(t)
  <1> USE DEF Inv, TypeOK, LocalsType, Return, Goto
  <1>1. CASE Call(t)
    BY <1>1 DEF Call, CallAdd, CallBatch, CallPack, CallRead, Unmount, Begin
  <1>2. CASE CollectStep(t)
    BY <1>2 DEF CollectStep, CompressFile, CompressFileFails, JoinCompress,
                JoinCompressFails, CheckRoom, PushFile, PushTooLarge
  <1>3. CASE PackStep(t)
    BY <1>3 DEF PackStep, LockPack, NothingToPack, PlanVolume, PlaceFile, WriteHeader,
                WriteHeaderFails, WriteMeta, WriteMetaFails, ReadTemps, ReadTempsFails,
                JoinWrites, JoinWritesFails, FinishPack, PackFails, NextFile
  <1>4. CASE MountReadStep(t)
    BY <1>4 DEF MountReadStep, MountRecordFails, FinishMount, ReadImage,
                ReadImageFails, FillOutput, FillOutputFails
  <1> QED BY <1>1, <1>2, <1>3, <1>4 DEF Step

\* A mount begins with the header of an image no pack works on.
LEMMA CallMountEffect ==
    ASSUME NEW t \in Threads, Inv, CallMount(t)
    PROVE  \E v \in VolumeIds :
              /\ images[v] # None /\ images[v].header # Torn
              /\ volume_meta'[t] = images[v].header
              /\ volume_meta'[t].volume_id = v
              /\ index'[t] = 1
              /\ \A u \in Threads : pc[u] \in LockedPackPcs => volume_meta[u].volume_id # v
  <1>1. PICK v \in VolumeIds :
          /\ images[v] # None /\ ~BeingPacked(v) /\ images[v].header # Torn
          /\ volume_meta' = [volume_meta EXCEPT ![t] = images[v].header]
    BY DEF CallMount
  <1>2. images[v].header.volume_id = v
    BY <1>1 DEF Inv, ImagesPresent
  <1> QED BY <1>1, <1>2 DEF CallMount, BeingPacked, Inv, TypeOK, LocalsType

LEMMA PlannedOthers ==
    ASSUME NEW t \in Threads, Inv, Layout, Call(t) \/ Step(t), NEW u \in Threads \ {t}
    PROVE  PlannedAt(u)'
  <1> SUFFICES ASSUME pc'[u] \in LockedPackPcs
               PROVE  PlannedAt(u)'
    BY DEF PlannedAt
  <1>1. LocalsOf(u)' = LocalsOf(u)
    BY OthersStep DEF Inv, TypeOK
  <1>2. /\ pc[u] \in LockedPackPcs /\ pc'[u] = pc[u] /\ index'[u] = index[u]
        /\ volume_meta'[u] = volume_meta[u]
    BY <1>1 DEF LocalsOf
  <1>3. /\ UNCHANGED <<pending_files, images>>
        /\ \/ mounted_volumes' \subseteq mounted_volumes
           \/ /\ pc[t] = "mount"
              /\ mounted_volumes' = mounted_volumes \cup {volume_meta[t].volume_id}
    BY <1>2, PackAside
  <1>4. PlannedAt(u)
    BY DEF Layout
  <1>5. volume_meta[u].volume_id \notin mounted_volumes'
    BY <1>2, <1>3, <1>4 DEF PlannedAt
  <1>6. ASSUME NEW w \in Threads, pc'[w] = "mount"
        PROVE  volume_meta'[w].volume_id # volume_meta[u].volume_id
    <2>1. CASE w # t
      <3>1. LocalsOf(w)' = LocalsOf(w)
        BY <2>1, OthersStep DEF Inv, TypeOK
      <3> QED BY <1>2, <1>4, <1>6, <3>1 DEF LocalsOf, PlannedAt
    <2>2. CASE w = t
      <3>1. CASE MountRecord(t)
        BY <1>2, <1>4, <2>2, <3>1 DEF MountRecord, PlannedAt
      <3>2. CASE CallMount(t)
        BY <1>2, <2>2, <3>2, CallMountEffect
      <3> QED BY <1>6, <2>2, <3>1, <3>2, MountPcStep
    <2> QED BY <2>1, <2>2
  <1>7. PlacedFiles(u)' = PlacedFiles(u)
    BY <1>2, <1>3 DEF PlacedFiles
  <1> QED BY <1>2, <1>3, <1>4, <1>5, <1>6, <1>7 DEF PlannedAt

\* A new volume is not mounted, nor is anybody about to mount it.
LEMMA PlanStep ==
    ASSUME NEW t \in Threads, Inv, FreshIds, PlanVolume(t)
    PROVE  PlannedAt(t)'
  <1>1. PICK v \in GenerateVolumeId :
          /\ volume_meta' = [volume_meta EXCEPT ![t] =
                [volume_id |-> v, file_count |-> Len(pending_files),
                 user_data_offset |-> HeaderLen + RecordLen * Len(pending_files),
                 user_data_size |-> 0]]
          /\ pending_files' = [k \in DOMAIN pending_files |->
                                 [pending_files[k] EXCEPT !.volume_id = v]]
    BY DEF PlanVolume
  <1>2. v \in VolumeIds /\ v \notin mounted_volumes /\ images[v] = None
    BY <1>1 DEF GenerateVolumeId
  <1>3. volume_meta'[t] = [volume_id |-> v, file_count |-> Len(pending_files),
                           user_data_offset |-> HeaderLen + RecordLen * Len(pending_files),
                           user_data_size |-> 0]
    BY <1>1 DEF Inv, TypeOK, LocalsType
  <1>4. /\ pc'[t] = "place" /\ index'[t] = 1
        /\ UNCHANGED <<mounted_volumes, images>>
        /\ pc' = [pc EXCEPT ![t] = "place"]
    BY DEF PlanVolume, Goto, diskVars, Inv, TypeOK, LocalsType
  <1>5. /\ Len(pending_files') = Len(pending_files)
        /\ DOMAIN pending_files' = DOMAIN pending_files
        /\ \A k \in DOMAIN pending_files' : pending_files'[k].volume_id = v
    <2>1. \A k \in DOMAIN pending_files : pending_files[k] \in FileRecord
      BY DEF Inv, TypeOK, MemoryType
    <2> QED BY <1>1, <1>2, <2>1, SetVolumeType DEF Inv, TypeOK, FileRecord
  <1>6. ASSUME NEW u \in Threads, pc'[u] = "mount"
        PROVE  volume_meta'[u].volume_id # v
    <2>1. u # t /\ pc[u] = "mount" /\ volume_meta'[u] = volume_meta[u]
      BY <1>1, <1>4, <1>6 DEF Inv, TypeOK, LocalsType
    <2>2. images[volume_meta[u].volume_id] # None
      BY <2>1 DEF Inv, LocalsReady, LocalsReadyAt
    <2> QED BY <1>2, <2>1, <2>2
  <1>7. PlacedFiles(t)' = {}
    <2>1. \A k \in DOMAIN pending_files' : ~(k < 1)
      BY <1>5 DEF Inv, TypeOK, MemoryType
    <2> QED BY <1>4, <2>1 DEF PlacedFiles
  <1> QED BY <1>2, <1>3, <1>4, <1>5, <1>6, <1>7 DEF PlannedAt, LaidOut, DataStart

\* The next file goes after the files placed before it.
LEMMA PlaceStep ==
    ASSUME NEW t \in Threads, Inv, Layout, PlaceFile(t)
    PROVE  PlannedAt(t)'
  <1> DEFINE j == index[t]
             m == volume_meta[t]
             n == CompressedSize[pending_files[j].path]
             o == m.user_data_offset + m.user_data_size
  <1>1. pc[t] = "place" /\ pc[t] \in LockedPackPcs
    BY DEF PlaceFile, LockedPackPcs
  <1>2. /\ m \in VolumeRecord /\ j \in DOMAIN pending_files /\ j \in Nat
        /\ pending_files \in Seq(FileRecord)
    BY <1>1, PackLocals
  <1>3. pending_files[j] \in FileRecord
    BY <1>2
  <1>4. n \in Nat /\ o \in Nat /\ m.user_data_offset \in Nat /\ m.user_data_size \in Nat
    BY <1>2, <1>3, SizesAssumption DEF VolumeRecord, FileRecord
  <1>5. /\ volume_meta' = [volume_meta EXCEPT ![t].user_data_size = @ + n]
        /\ pending_files' = [pending_files EXCEPT ![j].offset_in_volume = o]
    BY DEF PlaceFile, NextOffset
  <1>6. volume_meta'[t] = [m EXCEPT !.user_data_size = @ + n]
    BY <1>5 DEF Inv, TypeOK, LocalsType
  <1>7. /\ volume_meta'[t].volume_id = m.volume_id
        /\ volume_meta'[t].file_count = m.file_count
        /\ volume_meta'[t].user_data_offset = m.user_data_offset
        /\ volume_meta'[t].user_data_size = m.user_data_size + n
    BY <1>2, <1>6 DEF VolumeRecord
  <1>8. /\ DOMAIN pending_files' = DOMAIN pending_files
        /\ pending_files'[j] = [pending_files[j] EXCEPT !.offset_in_volume = o]
        /\ \A k \in DOMAIN pending_files : k # j => pending_files'[k] = pending_files[k]
    BY <1>2, <1>5
  <1>9. Len(pending_files') = Len(pending_files)
    BY <1>2, <1>4, <1>5, SetOffsetType DEF Inv, TypeOK
  <1>10. /\ pending_files'[j].volume_id = pending_files[j].volume_id
         /\ pending_files'[j].path = pending_files[j].path
         /\ Start(pending_files'[j]) = o
    BY <1>3, <1>8 DEF FileRecord, Start
  <1>11. PlannedAt(t)
    BY DEF Layout
  <1>12. PlacedFiles(t) = {k \in DOMAIN pending_files : k < j}
    BY <1>1 DEF PlacedFiles
  <1>13. PlacedFiles(t)' \subseteq PlacedFiles(t) \cup {j}
    <2>1. CASE j = Len(pending_files)
      <3>1. \A k \in DOMAIN pending_files : k < j \/ k = j
        BY <1>2, <2>1
      <3> QED BY <1>8, <1>12, <3>1 DEF PlacedFiles
    <2>2. CASE j # Len(pending_files)
      <3>1. index'[t] = j + 1 /\ pc'[t] = "place"
        BY <1>1, <2>2 DEF PlaceFile, NextFile, Inv, TypeOK, LocalsType
      <3>2. \A k \in DOMAIN pending_files : k < j + 1 => k < j \/ k = j
        BY <1>2
      <3> QED BY <1>8, <1>12, <3>1, <3>2 DEF PlacedFiles
    <2> QED BY <2>1, <2>2
  <1>14. LaidOut(pending_files', PlacedFiles(t) \cup {j}, m.user_data_offset, o + n)
    <2>1. LaidOut(pending_files, PlacedFiles(t), m.user_data_offset, o)
      BY <1>1, <1>11 DEF PlannedAt
    <2>2. ASSUME NEW k \in PlacedFiles(t)
          PROVE  /\ k \in DOMAIN pending_files /\ k # j /\ k < j
                 /\ m.user_data_offset <= Start(pending_files'[k])
                 /\ End(pending_files'[k]) <= o /\ End(pending_files'[k]) <= o + n
                 /\ \A i \in PlacedFiles(t) : i < k => End(pending_files'[i])
                                                          <= Start(pending_files'[k])
                 /\ ~(j < k)
      <3>1. k \in DOMAIN pending_files /\ k < j /\ k # j /\ ~(j < k)
        BY <1>2, <1>12
      <3>2. pending_files[k] \in FileRecord /\ pending_files'[k] = pending_files[k]
        BY <1>2, <1>8, <3>1
      <3>3. End(pending_files[k]) \in Nat
        BY <3>2, SizesAssumption DEF End, Start, FileRecord
      <3>4. /\ m.user_data_offset <= Start(pending_files[k])
            /\ End(pending_files[k]) <= o
            /\ \A i \in PlacedFiles(t) : i < k => End(pending_files[i])
                                                     <= Start(pending_files[k])
        BY <2>1 DEF LaidOut
      <3>5. \A i \in PlacedFiles(t) : pending_files'[i] = pending_files[i]
        BY <1>2, <1>8, <1>12
      <3>6. End(pending_files[k]) <= o + n
        BY <1>4, <3>3, <3>4
      <3> QED BY <3>1, <3>2, <3>4, <3>5, <3>6
    <2>3. /\ m.user_data_offset <= Start(pending_files'[j])
          /\ End(pending_files'[j]) <= o + n
      BY <1>4, <1>10 DEF End
    <2>4. ~(j < j)
      BY <1>2
    <2> HIDE DEF j, m, n, o
    <2>5. Start(pending_files'[j]) = o
      BY <1>10
    <2> QED BY <2>2, <2>3, <2>4, <2>5 DEF LaidOut
  <1>15. LaidOut(pending_files', PlacedFiles(t)', m.user_data_offset,
                 m.user_data_offset + (m.user_data_size + n))
    <2>1. o + n = m.user_data_offset + (m.user_data_size + n)
      BY <1>4
    <2> HIDE DEF j, m, n, o
    <2> QED BY <1>13, <1>14, <2>1 DEF LaidOut
  <1>16. UNCHANGED <<mounted_volumes, images>>
    BY DEF PlaceFile, diskVars
  <1>17. ASSUME NEW u \in Threads, pc'[u] = "mount"
         PROVE  volume_meta'[u].volume_id # m.volume_id
    <2>1. pc'[t] \in {"place", "header"}
      BY <1>1 DEF PlaceFile, NextFile, Goto, Inv, TypeOK, LocalsType
    <2>2. u # t
      BY <1>17, <2>1
    <2>3. LocalsOf(u)' = LocalsOf(u)
      BY <2>2, OthersStep DEF Inv, TypeOK, Step, PackStep
    <2> QED BY <1>1, <1>11, <1>17, <2>3 DEF LocalsOf, PlannedAt
  <1>18. \A k \in DOMAIN pending_files' : pending_files'[k].volume_id = m.volume_id
    <2>1. \A k \in DOMAIN pending_files : pending_files[k].volume_id = m.volume_id
      BY <1>1, <1>11 DEF PlannedAt
    <2> HIDE DEF j, m, n, o
    <2> QED BY <1>2, <1>8, <1>10, <2>1
  <1> HIDE DEF j, n, o
  <1> QED BY <1>1, <1>7, <1>9, <1>11, <1>15, <1>16, <1>17, <1>18 DEF PlannedAt

LEMMA PlannedOwn ==
    ASSUME NEW t \in Threads, Inv, FreshIds, Layout, Call(t) \/ Step(t)
    PROVE  PlannedAt(t)'
  <1>1. CASE WriteHeader(t) \/ WriteMeta(t) \/ ReadTemps(t) \/ JoinWrites(t)
    <2>1. /\ pc[t] \in LockedPackPcs \ {"place"} /\ pc'[t] \notin {"place", "header"}
          /\ UNCHANGED <<pending_files, mounted_volumes, volume_meta>>
      BY <1>1 DEF WriteHeader, WriteMeta, ReadTemps, JoinWrites, NextFile, Goto,
                  LockedPackPcs, memVars, packVars, Inv, TypeOK, LocalsType
    <2>2. PlacedFiles(t)' = PlacedFiles(t)
      BY <2>1 DEF PlacedFiles
    <2>3. \A u \in Threads : pc'[u] = "mount" => pc[u] = "mount"
      <3>1. pc'[t] # "mount"
        BY <1>1 DEF WriteHeader, WriteMeta, ReadTemps, JoinWrites, NextFile, Goto,
                    Inv, TypeOK, LocalsType
      <3>2. \A u \in Threads : u # t => LocalsOf(u)' = LocalsOf(u)
        BY OthersStep DEF Inv, TypeOK
      <3> QED BY <3>1, <3>2 DEF LocalsOf
    <2> QED BY <2>1, <2>2, <2>3 DEF Layout, PlannedAt
  <1>2. CASE pc'[t] \notin LockedPackPcs
    BY <1>2 DEF PlannedAt
  <1> QED BY <1>1, <1>2, PlanStep, PlaceStep, PackPcStep

-----------------------------------------------------------------------------
(* The image of a pack. *)

\* Futures and writes of a pack are its own.
LEMMA WritesAside ==
    ASSUME NEW t \in Threads, Inv, FreshIds, Staging, Call(t) \/ Step(t), ~ReadTemps(t)
    PROVE  /\ \A v : NoWrites(v) => NoWrites(v)'
           /\ \A task \in pool : task.owner # t => task \in pool'
           /\ \A f \in failed : f[1] # t => f \in failed'
  <1>1. \A v : NoWrites(v) => NoWrites(v)'
    BY WriteTasksStep DEF NoWrites
  <1> QED BY <1>1, PoolStep DEF Staging

LEMMA ImagedOthers ==
    ASSUME NEW t \in Threads, Inv, FreshIds, Staging, Layout, Call(t) \/ Step(t),
           NEW u \in Threads \ {t}
    PROVE  ImagedAt(u)'
  <1> SUFFICES ASSUME pc'[u] \in ImagedPcs
               PROVE  ImagedAt(u)'
    BY DEF ImagedAt
  <1>1. LocalsOf(u)' = LocalsOf(u)
    BY OthersStep DEF Inv, TypeOK
  <1>2. /\ pc'[u] = pc[u] /\ index'[u] = index[u] /\ volume_meta'[u] = volume_meta[u]
        /\ pc[u] \in ImagedPcs /\ pc[u] \in LockedPackPcs
    BY <1>1 DEF LocalsOf, ImagedPcs, LockedPackPcs
  <1>3. UNCHANGED <<pending_files, images>> /\ pc[t] \notin LockedPackPcs
    BY <1>2, PackAside
  <1>4. ~ReadTemps(t)
    BY <1>3 DEF ReadTemps, LockedPackPcs
  <1>5. NoWrites(volume_meta[u].volume_id) => NoWrites(volume_meta[u].volume_id)'
    <2>1. PICK v : v = volume_meta[u].volume_id
      OBVIOUS
    <2>2. NoWrites(v) => NoWrites(v)'
      BY <1>4, WritesAside
    <2> QED BY <1>2, <2>1, <2>2 DEF NoWrites
  <1>6. \A k : BeingWritten(u, k) => BeingWritten(u, k)'
    BY <1>2, <1>4, WritesAside DEF BeingWritten
  <1>7. ASSUME NEW k \in DOMAIN pending_files
        PROVE  Written(pending_files[k]) => Written(pending_files[k])'
    BY <1>3 DEF Written
  <1>8. ImagedAt(u)
    BY DEF Layout
  <1>9. /\ images'[volume_meta'[u].volume_id] = images[volume_meta[u].volume_id]
        /\ pending_files' = pending_files
    BY <1>2, <1>3
  <1> QED BY <1>2, <1>5, <1>6, <1>7, <1>8, <1>9 DEF ImagedAt

LEMMA ImagedOwn ==
    ASSUME NEW t \in Threads, Inv, FreshIds, Staging, Layout, Call(t) \/ Step(t)
    PROVE  ImagedAt(t)'
  <1> DEFINE v == volume_meta[t].volume_id
  <1>1. CASE WriteHeader(t)
    <2>1. pc[t] = "header" /\ pc[t] \in LockedPackPcs
      BY <1>1 DEF WriteHeader, LockedPackPcs
    <2>2. v \in VolumeIds /\ images[v] = None /\ index[t] = 1
      BY <2>1, PackLocals DEF Layout, PlannedAt, Inv, LocalsReady, LocalsReadyAt
    <2>3. images'[v] = [header |-> volume_meta[t], metas |-> <<>>, data |-> {}]
      BY <1>1, <2>2 DEF WriteHeader, Inv, TypeOK, DiskType
    <2>4. /\ pc'[t] = "metas" /\ UNCHANGED <<volume_meta, index, pool>>
      BY <1>1 DEF WriteHeader, Goto, packVars, poolVars, Inv, TypeOK, LocalsType
    <2>5. NoWrites(v)'
      BY <2>2, <2>4 DEF NoWrites, Inv, ImagesPresent
    <2>6. /\ images'[v].header = volume_meta[t] /\ images'[v].metas = <<>>
          /\ images'[v].data = {}
      BY <2>3
    <2>7. /\ volume_meta'[t] = volume_meta[t] /\ Len(<<>>) = index'[t] - 1
          /\ DOMAIN images'[v].metas = {}
      BY <2>2, <2>4, <2>6
    <2>8. NoWrites(volume_meta[t].volume_id)'
      BY <2>4, <2>5 DEF NoWrites
    <2> QED BY <2>4, <2>6, <2>7, <2>8 DEF ImagedAt
  <1>2. CASE WriteMeta(t)
    <2>1. pc[t] = "metas" /\ pc[t] \in LockedPackPcs /\ pc[t] \in ImagedPcs
      BY <1>2 DEF WriteMeta, LockedPackPcs, ImagedPcs
    <2>2. /\ images'[v].header = volume_meta[t]
          /\ images'[v].data = images[v].data
          /\ Len(images'[v].metas) = index[t]
          /\ \A k \in DOMAIN images'[v].metas : images'[v].metas[k] = pending_files[k]
      BY <1>2, AppendEffect
    <2>3. images[v].data = {} /\ NoWrites(v)
      BY <2>1 DEF Layout, ImagedAt
    <2>4. UNCHANGED <<volume_meta, pool, pending_files>>
      BY <1>2 DEF WriteMeta, poolVars
    <2>5. NoWrites(volume_meta[t].volume_id)'
      BY <2>3, <2>4 DEF NoWrites
    <2>6. \/ pc'[t] = "read_temps" /\ index[t] = Len(pending_files)
          \/ pc'[t] = "metas" /\ index'[t] = index[t] + 1
      BY <1>2, <2>1 DEF WriteMeta, NextFile, Goto, Inv, TypeOK, LocalsType
    <2>7. index[t] \in Nat
      BY <2>1, PackLocals
    <2>8. Len(images'[v].metas) = IF pc'[t] = "metas" THEN index'[t] - 1
                                                      ELSE Len(pending_files)
      BY <2>2, <2>6, <2>7
    <2> QED BY <2>2, <2>3, <2>4, <2>5, <2>6, <2>8 DEF ImagedAt
  <1>3. CASE ReadTemps(t)
    <2>1. pc[t] = "read_temps" /\ pc[t] \in ImagedPcs
      BY <1>3 DEF ReadTemps, ImagedPcs
    <2>2. /\ pc'[t] = "join_writes"
          /\ UNCHANGED <<volume_meta, pending_files, images>>
          /\ \A k \in DOMAIN pending_files : WriteTaskOf(t, k) \in pool'
      BY <1>3 DEF ReadTemps, Goto, memVars, diskVars, packVars, Inv, TypeOK, LocalsType
    <2>3. \A k \in DOMAIN pending_files : BeingWritten(t, k)'
      <3> SUFFICES ASSUME NEW k \in DOMAIN pending_files
                   PROVE  BeingWritten(t, k)'
        OBVIOUS
      <3> DEFINE task == WriteTaskOf(t, k)
      <3>1. task \in pool' /\ task.kind = "write" /\ task.owner = t /\ task.k = k
            /\ task.volume_id = volume_meta[t].volume_id
        BY <2>2 DEF WriteTaskOf
      <3> HIDE DEF task
      <3> QED BY <2>2, <3>1 DEF BeingWritten
    <2>4. ImagedAt(t)
      BY DEF Layout
    <2> QED BY <2>1, <2>2, <2>3, <2>4 DEF ImagedAt
  <1>4. CASE JoinWrites(t)
    <2>1. /\ pc[t] = "join_writes" /\ pc[t] \in ImagedPcs /\ pc'[t] = "finish"
          /\ UNCHANGED <<volume_meta, pending_files, images>>
          /\ FuturesDone(t)
      BY <1>4 DEF JoinWrites, Goto, memVars, diskVars, packVars, ImagedPcs, Inv, TypeOK,
                  LocalsType
    <2>2. \A k \in DOMAIN pending_files : ~BeingWritten(t, k)
      <3>1. /\ \A task \in pool : task.owner # t
            /\ \A f \in failed : f[1] # t
        BY <2>1 DEF FuturesDone
      <3>2. \A k : <<t, k>> \notin failed
        BY <3>1
      <3> QED BY <3>1, <3>2 DEF BeingWritten
    <2>3. ImagedAt(t)
      BY DEF Layout
    <2>4. \A k \in DOMAIN pending_files : Written(pending_files[k])'
      BY <2>1, <2>2, <2>3 DEF ImagedAt, Written
    <2> QED BY <2>1, <2>3, <2>4 DEF ImagedAt
  <1>5. CASE pc'[t] \notin ImagedPcs
    BY <1>5 DEF ImagedAt
  <1>6. CASE PlanVolume(t) \/ PlaceFile(t)
    <2>1. pc'[t] \in {"place", "header"}
      BY <1>6 DEF PlanVolume, PlaceFile, NextFile, Goto, Inv, TypeOK, LocalsType
    <2> QED BY <1>5, <2>1 DEF ImagedPcs
  <1>7. pc'[t] \in ImagedPcs => pc'[t] \in LockedPackPcs
    BY DEF ImagedPcs, LockedPackPcs
  <1> QED BY <1>1, <1>2, <1>3, <1>4, <1>5, <1>6, <1>7, PackPcStep

LEMMA LayoutThread ==
    ASSUME NEW t \in Threads, Inv, FreshIds, Staging, Layout, Call(t) \/ Step(t)
    PROVE  Layout'
  <1>1. \A u \in Threads : PlannedAt(u)' /\ ImagedAt(u)'
    BY PlannedOwn, PlannedOthers, ImagedOwn, ImagedOthers
  <1>2. \A v \in VolumeIds : ImageSound(v)'
    BY ImageSoundThread
  <1>3. \A task \in pool' : WriteSound(task)'
    BY WriteSoundThread
  <1> QED BY <1>1, <1>2, <1>3 DEF Layout

-----------------------------------------------------------------------------
(* Workers and crashes. *)

\* The end of a write a pack waits for leaves the bytes or an error.
LEMMA WriteEnds ==
    ASSUME NEW task \in pool, Inv, Layout, RunTask(task), NEW u \in Threads,
           pc[u] = "join_writes", NEW k \in DOMAIN pending_files,
           task.kind = "write", task.owner = u, task.k = k,
           task.volume_id = volume_meta[u].volume_id
    PROVE  \/ CompressedSize[pending_files[k].path] = 0
           \/ ExtentOf(pending_files[k]) \in images'[pending_files[k].volume_id].data
           \/ <<u, k>> \in failed'
  <1> DEFINE v == volume_meta[u].volume_id
  <1>1. pc[u] \in ImagedPcs /\ pc[u] \in LockedPackPcs
    BY DEF ImagedPcs, LockedPackPcs
  <1>2. task.k \in DOMAIN images[v].metas /\ task.extent = ExtentOf(images[v].metas[k])
    BY DEF Layout, WriteSound
  <1>3. images[v].metas[k] = pending_files[k] /\ pending_files[k].volume_id = v
    BY <1>1, <1>2 DEF Layout, ImagedAt, PlannedAt
  <1>4. \/ task.extent.size = 0
        \/ task.extent \in images'[v].data
        \/ RunWriteFails(task)
    BY WriteEffect
  <1>5. CASE RunWriteFails(task)
    BY <1>5, IdsAssumption DEF RunWriteFails, TaskFails
  <1> QED BY <1>2, <1>3, <1>4, <1>5 DEF ExtentOf

LEMMA ImagedWorker ==
    ASSUME NEW task \in pool, Inv, Layout, RunTask(task), NEW u \in Threads
    PROVE  ImagedAt(u)'
  <1> SUFFICES ASSUME pc'[u] \in ImagedPcs
               PROVE  ImagedAt(u)'
    BY DEF ImagedAt
  <1> DEFINE v == volume_meta[u].volume_id
  <1>1. /\ UNCHANGED <<pending_files, pc, index, volume_meta>>
        /\ pool' = pool \ {task}
        /\ \A f \in failed : f \in failed'
    BY WorkerFiles
  <1>2. pc[u] \in ImagedPcs /\ pc[u] \in LockedPackPcs
    BY <1>1 DEF ImagedPcs, LockedPackPcs
  <1>3. v \in VolumeIds /\ images[v] \in Image /\ images[v] # None
    BY <1>2, PackLocals, NoneAssumption
  <1>4. images'[v].header = images[v].header /\ images'[v].metas = images[v].metas
    BY <1>3, WorkerFiles
  <1>5. ImagedAt(u) /\ PlannedAt(u) /\ ImageGrows
    BY GrowWorker DEF Layout
  <1>6. ASSUME NoWrites(v)
        PROVE  NoWrites(volume_meta[u].volume_id)' /\ images'[v] = images[v]
    <2>1. NoWrites(volume_meta[u].volume_id)'
      BY <1>1, <1>6 DEF NoWrites
    <2>2. images'[v] = images[v]
      BY <1>3, <1>6, WriteEffect, CompressEffect DEF NoWrites
    <2> QED BY <2>1, <2>2
  <1>7. ASSUME NEW k \in DOMAIN pending_files, Written(pending_files[k])
        PROVE  Written(pending_files[k])'
    <2>1. pending_files[k].volume_id = v
      BY <1>2, <1>5 DEF PlannedAt
    <2> QED BY <1>1, <1>3, <1>5, <1>7, <2>1 DEF Written, ImageGrows
  <1>8. ASSUME NEW k \in DOMAIN pending_files, BeingWritten(u, k), pc[u] = "join_writes"
        PROVE  Written(pending_files[k])' \/ BeingWritten(u, k)'
    <2>1. CASE <<u, k>> \in failed
      BY <1>1, <2>1 DEF BeingWritten
    <2>2. ASSUME NEW other \in pool, other.kind = "write", other.owner = u, other.k = k,
                 other.volume_id = v, other # task
          PROVE  BeingWritten(u, k)'
      BY <1>1, <2>2 DEF BeingWritten
    <2>3. CASE task.kind = "write" /\ task.owner = u /\ task.k = k /\ task.volume_id = v
      <3>1. \/ CompressedSize[pending_files[k].path] = 0
            \/ ExtentOf(pending_files[k]) \in images'[pending_files[k].volume_id].data
            \/ <<u, k>> \in failed'
        BY <1>8, <2>3, WriteEnds
      <3> QED BY <1>1, <3>1 DEF Written, BeingWritten
    <2> QED BY <1>8, <2>1, <2>2, <2>3 DEF BeingWritten
  <1> QED BY <1>1, <1>2, <1>4, <1>5, <1>6, <1>7, <1>8 DEF ImagedAt

LEMMA LayoutWorker ==
    ASSUME NEW task \in pool, Inv, Layout, RunTask(task)
    PROVE  Layout'
  <1>1. ASSUME NEW u \in Threads
        PROVE  PlannedAt(u)'
    <2>1. /\ UNCHANGED <<pending_files, mounted_volumes, pc, index, volume_meta>>
          /\ \A v \in VolumeIds : images'[v] # None <=> images[v] # None
      BY WorkerFiles
    <2>2. pc[u] \in LockedPackPcs => volume_meta[u].volume_id \in VolumeIds
      BY PackLocals
    <2>3. PlacedFiles(u)' = PlacedFiles(u)
      BY <2>1 DEF PlacedFiles
    <2> QED BY <2>1, <2>2, <2>3 DEF Layout, PlannedAt
  <1> QED BY <1>1, ImagedWorker, ImageSoundWorker, WriteSoundWorker DEF Layout

LEMMA LayoutCrash ==
    ASSUME Inv, Layout, Crash
    PROVE  Layout'
  <1>1. pool' = {} /\ images' = images /\ \A u \in Threads : pc'[u] = "idle"
    BY DEF Crash, diskVars
  <1>2. \A u \in Threads : PlannedAt(u)' /\ ImagedAt(u)'
    BY <1>1 DEF PlannedAt, ImagedAt, ImagedPcs, LockedPackPcs
  <1>3. \A v \in VolumeIds : ImageSound(v)'
    BY <1>1 DEF Layout, ImageSound
  <1> QED BY <1>1, <1>2, <1>3 DEF Layout

LEMMA LayoutInit == Init => Layout
  <1> SUFFICES ASSUME Init
               PROVE  Layout
    OBVIOUS
  <1>1. /\ pool = {}
        /\ \A v \in VolumeIds : images[v] = None
        /\ \A u \in Threads : pc[u] = "idle"
    BY DEF Init
  <1> QED BY <1>1 DEF Layout, PlannedAt, ImagedAt, ImagedPcs, LockedPackPcs, ImageSound

LEMMA LayoutStutter == Layout /\ UNCHANGED vars => Layout'
  <1> SUFFICES ASSUME Layout, UNCHANGED vars
               PROVE  Layout'
    OBVIOUS
  <1> USE DEF vars, memVars, diskVars, lockVars, poolVars, addVars, packVars, readVars
  <1>1. ASSUME NEW u \in Threads
        PROVE  PlannedAt(u)' /\ ImagedAt(u)'
    <2>1. PlannedAt(u) /\ ImagedAt(u)
      BY DEF Layout
    <2>2. PlacedFiles(u)' = PlacedFiles(u)
      BY DEF PlacedFiles
    <2>3. PlannedAt(u)'
      BY <2>1, <2>2 DEF PlannedAt
    <2>4. /\ \A k : BeingWritten(u, k)' <=> BeingWritten(u, k)
          /\ NoWrites(volume_meta[u].volume_id)' <=> NoWrites(volume_meta[u].volume_id)
          /\ \A k : Written(pending_files[k])' <=> Written(pending_files[k])
      BY DEF BeingWritten, NoWrites, Written
    <2>5. ImagedAt(u)'
      BY <2>1, <2>4 DEF ImagedAt
    <2> QED BY <2>3, <2>5
  <1>2. \A v \in VolumeIds : ImageSound(v)'
    BY DEF Layout, ImageSound
  <1>3. \A task \in pool' : WriteSound(task)'
    BY DEF Layout, WriteSound
  <1> QED BY <1>1, <1>2, <1>3 DEF Layout

LEMMA LayoutNext == FreshIds /\ Inv /\ Staging /\ Layout /\ [Next]_vars => Layout'
  <1> SUFFICES ASSUME FreshIds, Inv, Staging, Layout, [Next]_vars
               PROVE  Layout'
    OBVIOUS
  <1>1. CASE \E t \in Threads : Call(t) \/ Step(t)
    BY <1>1, LayoutThread
  <1>2. CASE Worker
    BY <1>2, LayoutWorker DEF Worker
  <1>3. CASE Crash
    BY <1>3, LayoutCrash
  <1>4. CASE Stop \/ UNCHANGED vars
    BY <1>4, LayoutStutter DEF Stop
  <1> QED BY <1>1, <1>2, <1>3, <1>4 DEF Next

LEMMA LayoutInvariance ==
    ASSUME FreshIds
    PROVE  Spec => []Layout
  <1>1. Init => Layout
    BY LayoutInit
  <1>2. Inv /\ Staging /\ Layout /\ [Next]_vars => Layout'
    BY LayoutNext
  <1> QED BY <1>1, <1>2, Invariance, StagingInvariance, PTL DEF Spec

\* If the generator repeats no id, the byte ranges of the files of an image, complete
\* or abandoned, do not overlap and stay in the area its header declares, so that a
\* write a failed pack left in the pool overwrites no byte of another file.
THEOREM ExtentsApart ==
    ASSUME FreshIds
    PROVE  Spec => []ExtentsDisjoint
  <1>1. Layout => ExtentsDisjoint
    <2> SUFFICES ASSUME Layout, NEW v \in VolumeIds,
                        images[v] # None, images[v].header # Torn
                 PROVE  LET header == images[v].header
                            metas == images[v].metas
                        IN LaidOut(metas, DOMAIN metas, HeaderLen + RecordLen * header.file_count,
                                   header.user_data_offset + header.user_data_size)
      BY DEF ExtentsDisjoint, LaidOut, Start, End
    <2>1. ImageSound(v)
      BY DEF Layout
    <2> QED BY <2>1 DEF ImageSound, DataStart
  <1> QED BY <1>1, LayoutInvariance, PTL
=============================================================================
