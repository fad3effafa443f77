---------------------------- MODULE ContentProofs ----------------------------
(***************************************************************************)
(* Part 4 of the theorems about VolumeManager: what is stored stays        *)
(* stored, and nothing that was accepted is lost.                          *)
(*                                                                         *)
(* The images of mounted volumes are whole, the cache and the reads in     *)
(* progress refer to records of images, and every file a call has pushed,  *)
(* or a pool task still writes, is pending or stored.                      *)
(***************************************************************************)
EXTENDS ImageProofs

\* The file is one of the records of the image it says it is in.
Recorded(file) ==
    LET image == images[file.volume_id]
    IN image # None /\ \E k \in DOMAIN image.metas : image.metas[k] = file

\* Mounted volumes are whole, and a mount in progress has read the records up to
\* its index of the image whose header it copied.
MountAt(t) ==
    LET image == images[volume_meta[t].volume_id]
    IN pc[t] = "mount" => /\ image.header = volume_meta[t]
                          /\ index[t] <= Len(image.metas) + 1

MountsSound == /\ \A v \in mounted_volumes : Whole(images[v])
               /\ \A t \in Threads : MountAt(t)

\* What the cache says of a place is on disk.
CacheSound ==
    \A i \in InodeIds :
       (file_metadata_cache[i] # None /\ file_metadata_cache[i].volume_id # None) =>
          Recorded(file_metadata_cache[i])

\* A read works on a record of a whole image, and what it has decompressed is the
\* content of the inode, which the image keeps, or what a torn frame was made into.
ReadAt(t) ==
    LET file == metadata[t]
    IN /\ pc[t] \in {"read_image", "fill_output"} =>
             /\ Recorded(file)
             /\ Whole(images[file.volume_id])
       /\ pc[t] = "fill_output" =>
             \/ content[t] = Torn
             \/ /\ content[t] = source[file.inode_id]
                /\ StoredIn(file.inode_id, file.volume_id)

Kept(i) == i \in InodesOf(pending_files) \/ Stored(i)

\* The inodes of the files a call has pushed, and of those the pool still writes.
Pushed(t) == {tasks[t][k].inode_id : k \in DOMAIN tasks[t] \ Unpushed(t)}
Queued == {images[task.volume_id].metas[task.k].inode_id :
              task \in {w \in pool : w.kind = "write"}}

\* Nothing a call has pushed, was answered for or left in the pool is lost.
KeptSound ==
    /\ \A i \in accepted : Kept(i)
    /\ \A t \in Threads : \A i \in Pushed(t) : Kept(i)
    /\ \A i \in Queued : Kept(i)

Known == Inv /\ Staging /\ Layout

Contents == /\ MountsSound
            /\ CacheSound
            /\ \A t \in Threads : ReadAt(t)
            /\ KeptSound

-----------------------------------------------------------------------------
(* What every step does. *)

LEMMA KnownNext == FreshIds /\ Known /\ [Next]_vars => Known'
  BY NextInv, NextStaging, LayoutNext DEF Known

LEMMA KnownInvariance ==
    ASSUME FreshIds
    PROVE  Spec => []Known
  BY Invariance, StagingInvariance, LayoutInvariance, PTL DEF Known

\* Images grow and ids stay issued, whoever makes the step.
LEMMA GrowNext ==
    ASSUME FreshIds, Known, [Next]_vars
    PROVE  ImageGrows /\ SourceGrows
  <1>1. CASE \E t \in Threads : Call(t) \/ Step(t)
    BY <1>1, GrowThread, SourceStep DEF Known
  <1>2. CASE Worker
    <2>1. PICK task \in pool : RunTask(task)
      BY <1>2 DEF Worker
    <2> QED BY <2>1, GrowWorker, WorkerFiles DEF Known, SourceGrows
  <1>3. CASE Crash \/ Stop \/ UNCHANGED vars
    <2>1. UNCHANGED <<images, source>>
      BY <1>3 DEF Crash, Stop, vars, diskVars
    <2> QED BY <2>1 DEF ImageGrows, SourceGrows
  <1> QED BY <1>1, <1>2, <1>3 DEF Next

-----------------------------------------------------------------------------
(* What is stored stays stored. *)

\* Whole bytes found where a record points are those of its file.
LEMMA FoundBytes ==
    ASSUME NEW metas \in Seq(FileRecord), NEW data, NEW lo, NEW hi,
           LaidOut(metas, DOMAIN metas, lo, hi),
           \A d \in data : d.size # 0 /\ \E k \in DOMAIN metas :
                              d \in {ExtentOf(metas[k]), Torned(ExtentOf(metas[k]))},
           NEW k \in DOMAIN metas, NEW d \in data,
           d.offset = Start(metas[k]), d.size = CompressedSize[metas[k].path],
           d.content # Torn
    PROVE  d = ExtentOf(metas[k]) /\ d.content = metas[k].path
  <1>1. PICK j \in DOMAIN metas : d \in {ExtentOf(metas[j]), Torned(ExtentOf(metas[j]))}
    OBVIOUS
  <1>2. d = ExtentOf(metas[j])
    BY <1>1 DEF Torned, ExtentOf
  <1>3. metas[j] \in FileRecord /\ metas[k] \in FileRecord
    OBVIOUS
  <1>4. /\ Start(metas[j]) \in Nat /\ CompressedSize[metas[j].path] \in Nat
        /\ Start(metas[k]) \in Nat /\ CompressedSize[metas[k].path] \in Nat
    BY <1>3, SizesAssumption DEF Start, FileRecord
  <1>5. /\ Start(metas[j]) = Start(metas[k])
        /\ CompressedSize[metas[j].path] = CompressedSize[metas[k].path]
        /\ CompressedSize[metas[k].path] # 0
    BY <1>2 DEF ExtentOf
  <1>6. Overlap(ExtentOf(metas[j]), ExtentOf(metas[k]))
    BY <1>4, <1>5 DEF Overlap, ExtentOf
  <1>7. j = k
    BY <1>6, LaidApart
  <1> QED BY <1>2, <1>7 DEF ExtentOf

\* What a read of a record can return is the file's content.
LEMMA FramesSound ==
    ASSUME Inv, NEW v \in VolumeIds, images[v] # None, ImageSound(v),
           NEW k \in DOMAIN images[v].metas
    PROVE  Frames(images[v].metas[k]) \subseteq {images[v].metas[k].path}
  <1> DEFINE metas == images[v].metas
             file == metas[k]
  <1>1. metas \in Seq(FileRecord)
    BY DEF Inv, TypeOK, DiskType, Image
  <1>2. file.volume_id = v
    BY DEF ImageSound
  <1>3. PICK lo, hi : LaidOut(metas, DOMAIN metas, lo, hi)
    BY DEF ImageSound
  <1>4. \A d \in images[v].data : d.size # 0 /\ \E j \in DOMAIN metas :
                                    d \in {ExtentOf(metas[j]), Torned(ExtentOf(metas[j]))}
    BY DEF ImageSound
  <1>5. ASSUME NEW d \in images[v].data, d.offset = file.offset_in_volume,
               d.size = CompressedSize[file.path], d.content # Torn
        PROVE  d.content = file.path
    <2>1. k \in DOMAIN metas
      OBVIOUS
    <2> HIDE DEF metas
    <2> QED BY <1>1, <1>3, <1>4, <1>5, <2>1, FoundBytes DEF Start
  <1> QED BY <1>2, <1>5 DEF Frames

\* A record whose bytes are there leads to them.
LEMMA FramesWritten ==
    ASSUME Inv, NEW v \in VolumeIds, images[v] # None, ImageSound(v),
           NEW k \in DOMAIN images[v].metas, Written(images[v].metas[k])
    PROVE  Frames(images[v].metas[k]) = {images[v].metas[k].path}
  <1> DEFINE file == images[v].metas[k]
  <1>1. file \in FileRecord /\ file.volume_id = v
    <2>1. images[v].metas \in Seq(FileRecord)
      BY DEF Inv, TypeOK, DiskType, Image
    <2> QED BY <2>1 DEF ImageSound
  <1>2. file.path \in Frames(file)
    <2>1. CASE CompressedSize[file.path] = 0
      BY <2>1 DEF Frames
    <2>2. CASE CompressedSize[file.path] # 0
      <3>1. ExtentOf(file) \in images[v].data
        BY <1>1, <2>2 DEF Written
      <3>2. file.path # Torn
        BY <1>1, IdsAssumption DEF FileRecord
      <3> QED BY <1>1, <2>2, <3>1, <3>2 DEF Frames, ExtentOf, Start
    <2> QED BY <2>1, <2>2
  <1> QED BY <1>2, FramesSound

\* What a volume keeps it keeps, as long as images grow and ids stay issued.
LEMMA StoredStays ==
    ASSUME Known, Known', ImageGrows, SourceGrows,
           NEW i \in InodeIds, NEW v \in VolumeIds, StoredIn(i, v)
    PROVE  StoredIn(i, v)'
  <1>1. /\ images[v] # None /\ images[v].header # Torn
        /\ Len(images[v].metas) = images[v].header.file_count
    BY DEF StoredIn
  <1>2. PICK k \in DOMAIN images[v].metas :
          /\ images[v].metas[k].inode_id = i
          /\ Frames(images[v].metas[k]) = {source[i]}
    BY DEF StoredIn
  <1> DEFINE metas == images[v].metas
             file == metas[k]
  <1>3. /\ images'[v] # None /\ images'[v].header = images[v].header
        /\ images'[v].metas = images[v].metas
        /\ images[v].data \subseteq images'[v].data
    BY <1>1 DEF ImageGrows, Whole
  <1>4. ImageSound(v) /\ ImageSound(v)'
    BY DEF Known, Layout
  <1>5. metas \in Seq(FileRecord) /\ file \in FileRecord /\ file.volume_id = v
    <2>1. metas \in Seq(FileRecord)
      BY <1>1 DEF Known, Inv, TypeOK, DiskType, Image
    <2> QED BY <1>1, <1>4, <2>1 DEF ImageSound
  <1>6. source[i] = file.path /\ source'[i] = file.path
    <2>1. source[i] = file.path
      BY <1>1, <1>2 DEF Known, Staging, SourcesKnown, Issued
    <2> QED BY <1>5, <2>1, IssuedStays DEF FileRecord
  <1>7. ASSUME NEW d \in images'[v].data, d.offset = file.offset_in_volume,
               d.size = CompressedSize[file.path], d.content # Torn
        PROVE  d.content = file.path
    <2>1. PICK lo, hi : LaidOut(metas, DOMAIN metas, lo, hi)
      BY <1>1, <1>4 DEF ImageSound
    <2>2. \A e \in images'[v].data : e.size # 0 /\ \E j \in DOMAIN metas :
                                    e \in {ExtentOf(metas[j]), Torned(ExtentOf(metas[j]))}
      BY <1>3, <1>4 DEF ImageSound
    <2>3. k \in DOMAIN metas
      OBVIOUS
    <2> HIDE DEF metas
    <2> QED BY <1>5, <1>7, <2>1, <2>2, <2>3, FoundBytes DEF Start
  <1>8. Frames(file)' = {file'.path} /\ file' = file
    <2>1. file' = file
      BY <1>3
    <2>2. CASE CompressedSize[file.path] = 0
      BY <2>1, <2>2 DEF Frames
    <2>3. CASE CompressedSize[file.path] # 0
      <3>1. PICK d \in images[v].data : /\ d.offset = file.offset_in_volume
                                        /\ d.size = CompressedSize[file.path]
                                        /\ d.content # Torn
                                        /\ d.content = file.path
        BY <1>2, <1>5, <1>6, <2>3 DEF Frames
      <3>2. d \in images'[v].data
        BY <1>3, <3>1
      <3> QED BY <1>5, <1>7, <2>1, <2>3, <3>1, <3>2 DEF Frames
    <2> QED BY <2>2, <2>3, <2>1
  <1> QED BY <1>1, <1>2, <1>3, <1>6, <1>8 DEF StoredIn

\* A record on disk stays on disk.
LEMMA RecordedStays ==
    ASSUME ImageGrows, NEW file, file.volume_id \in VolumeIds, Recorded(file)
    PROVE  LET image == images'[file.volume_id]
           IN image # None /\ \E k \in DOMAIN image.metas : image.metas[k] = file
  BY DEF ImageGrows, Recorded

LEMMA WholeStays ==
    ASSUME ImageGrows, NEW v \in VolumeIds, images[v] # None, Whole(images[v])
    PROVE  Whole(images'[v])
  BY DEF ImageGrows, Whole

-----------------------------------------------------------------------------
(* Mounted volumes are whole. *)

\* Only a pack or a mount that ends inserts its volume.
LEMMA InsertStep ==
    ASSUME NEW t \in Threads, Inv, Call(t) \/ Step(t)
    PROVE  \/ mounted_volumes' \subseteq mounted_volumes
           \/ /\ FinishPack(t) \/ FinishMount(t)
              /\ mounted_volumes' = mounted_volumes \cup {volume_meta[t].volume_id}
  <1>1. CASE FinishPack(t) \/ FinishMount(t)
    BY <1>1 DEF FinishPack, FinishMount
  <1>2. CASE Call(t)
    BY <1>2 DEF Call, CallAdd, CallBatch, CallPack, CallMount, CallRead, Unmount, memVars
  <1>3. CASE CollectStep(t)
    BY <1>3 DEF CollectStep, CompressFile, CompressFileFails, JoinCompress,
                JoinCompressFails, CheckRoom, PushFile, PushTooLarge, memVars
  <1>4. CASE PackStep(t) /\ ~FinishPack(t)
    BY <1>4 DEF PackStep, LockPack, NothingToPack, PlanVolume, PlaceFile, WriteHeader,
                WriteHeaderFails, WriteMeta, WriteMetaFails, ReadTemps, ReadTempsFails,
                JoinWrites, JoinWritesFails, PackFails, memVars
  <1>5. CASE MountReadStep(t) /\ ~FinishMount(t)
    BY <1>5 DEF MountReadStep, MountRecord, MountRecordFails, ReadImage, ReadImageFails,
                FillOutput, FillOutputFails, memVars
  <1> QED BY <1>1, <1>2, <1>3, <1>4, <1>5 DEF Step

\* The image of a pack that ends, and that of a mount that ends, is whole.
LEMMA EndsWhole ==
    ASSUME NEW t \in Threads, Known, MountsSound, FinishPack(t) \/ FinishMount(t)
    PROVE  LET v == volume_meta[t].volume_id
           IN v \in VolumeIds /\ images[v] # None /\ Whole(images[v])
  <1> DEFINE v == volume_meta[t].volume_id
  <1> USE DEF Known, Inv
  <1>1. CASE FinishPack(t)
    <2>1. pc[t] = "finish" /\ pc[t] \in LockedPackPcs /\ pc[t] \in ImagedPcs
      BY <1>1 DEF FinishPack, LockedPackPcs, ImagedPcs
    <2>2. /\ v \in VolumeIds /\ images[v] \in Image
          /\ volume_meta[t] \in VolumeRecord
      BY <2>1, PackLocals
    <2>3. /\ images[v].header = volume_meta[t]
          /\ Len(images[v].metas) = Len(pending_files)
          /\ volume_meta[t].file_count = Len(pending_files)
      BY <2>1 DEF Layout, ImagedAt, PlannedAt
    <2> QED BY <2>2, <2>3, NoneAssumption, TornAssumption DEF Whole
  <1>2. CASE FinishMount(t)
    <2>1. pc[t] = "mount" /\ index[t] > volume_meta[t].file_count
      BY <1>2 DEF FinishMount
    <2>2. volume_meta[t] \in VolumeRecord /\ v \in VolumeIds /\ images[v] # None
      BY <2>1 DEF LocalsReady, LocalsReadyAt, TypeOK, LocalsType, VolumeRecord
    <2>3. /\ images[v].header = volume_meta[t]
          /\ index[t] <= Len(images[v].metas) + 1
      BY <2>1 DEF MountsSound, MountAt
    <2>4. ImageSound(v) /\ images[v].header # Torn
      BY <2>2, <2>3, TornAssumption DEF Layout
    <2>5. Len(images[v].metas) <= volume_meta[t].file_count
      BY <2>2, <2>3, <2>4 DEF ImageSound
    <2>6. /\ Len(images[v].metas) \in Nat /\ volume_meta[t].file_count \in Nat
          /\ index[t] \in Nat
      BY <2>2 DEF TypeOK, DiskType, Image, VolumeRecord, LocalsType
    <2>7. Len(images[v].metas) = volume_meta[t].file_count
      BY <2>1, <2>3, <2>5, <2>6
    <2> QED BY <2>2, <2>3, <2>4, <2>7 DEF Whole
  <1> QED BY <1>1, <1>2

\* What a mount in progress has read stays where it was read.
LEMMA MountStays ==
    ASSUME Inv, Inv', ImageGrows, NEW u \in Threads, MountAt(u), pc[u] = "mount"
    PROVE  LET v == volume_meta[u].volume_id
           IN /\ v \in VolumeIds
              /\ images'[v].header = volume_meta[u]
              /\ index[u] <= Len(images'[v].metas) + 1
              /\ Len(images[v].metas) <= Len(images'[v].metas)
  <1> DEFINE v == volume_meta[u].volume_id
  <1>1. v \in VolumeIds /\ images[v] # None
    BY DEF Inv, LocalsReady, LocalsReadyAt, TypeOK, LocalsType, VolumeRecord
  <1>2. /\ images'[v] # None /\ images'[v].header = images[v].header
        /\ DOMAIN images[v].metas \subseteq DOMAIN images'[v].metas
    BY <1>1 DEF ImageGrows
  <1>3. images[v].metas \in Seq(FileRecord) /\ images'[v].metas \in Seq(FileRecord)
    BY <1>1, <1>2 DEF Inv, TypeOK, DiskType, Image
  <1>4. Len(images[v].metas) <= Len(images'[v].metas)
    <2>1. /\ DOMAIN images[v].metas = 1 .. Len(images[v].metas)
          /\ DOMAIN images'[v].metas = 1 .. Len(images'[v].metas)
          /\ Len(images[v].metas) \in Nat /\ Len(images'[v].metas) \in Nat
      BY <1>3
    <2>2. CASE Len(images[v].metas) = 0
      BY <2>1, <2>2
    <2>3. CASE Len(images[v].metas) # 0
      <3>1. Len(images[v].metas) \in DOMAIN images'[v].metas
        BY <1>2, <2>1, <2>3
      <3> QED BY <2>1, <3>1
    <2> QED BY <2>2, <2>3
  <1>5. index[u] \in Nat /\ Len(images[v].metas) \in Nat /\ Len(images'[v].metas) \in Nat
    BY <1>3 DEF Inv, TypeOK, LocalsType
  <1>6. images[v].header = volume_meta[u] /\ index[u] <= Len(images[v].metas) + 1
    BY DEF MountAt
  <1>7. index[u] <= Len(images'[v].metas) + 1
    <2> DEFINE m == Len(images[v].metas)
               n == Len(images'[v].metas)
    <2>1. m \in Nat /\ n \in Nat /\ index[u] \in Nat /\ m <= n /\ index[u] <= m + 1
      BY <1>4, <1>5, <1>6
    <2> HIDE DEF m, n
    <2>2. index[u] <= n + 1
      BY <2>1
    <2> QED BY <2>2 DEF n
  <1>8. images'[v].header = volume_meta[u]
    BY <1>2, <1>6
  <1> HIDE DEF v
  <1> QED BY <1>1, <1>4, <1>7, <1>8 DEF v

LEMMA MountsStep ==
    ASSUME NEW t \in Threads, FreshIds, Known, Known', ImageGrows, MountsSound,
           Call(t) \/ Step(t)
    PROVE  MountsSound'
  <1>1. ASSUME NEW v \in mounted_volumes'
        PROVE  Whole(images'[v])
    <2>1. CASE v \in mounted_volumes
      <3>1. v \in VolumeIds /\ images[v] # None
        BY <2>1 DEF Known, Inv, TypeOK, MemoryType, ImagesPresent
      <3> QED BY <2>1, <3>1, WholeStays DEF MountsSound
    <2>2. CASE v \notin mounted_volumes
      <3>1. v = volume_meta[t].volume_id /\ (FinishPack(t) \/ FinishMount(t))
        BY <2>2, InsertStep DEF Known
      <3> QED BY <3>1, EndsWhole, WholeStays
    <2> QED BY <2>1, <2>2
  <1>2. ASSUME NEW u \in Threads, pc'[u] = "mount"
        PROVE  MountAt(u)'
    <2>1. CASE LocalsOf(u)' = LocalsOf(u)
      <3>1. pc[u] = "mount" /\ index'[u] = index[u] /\ volume_meta'[u] = volume_meta[u]
        BY <1>2, <2>1 DEF LocalsOf
      <3>2. MountAt(u)
        BY DEF MountsSound
      <3> QED BY <3>1, <3>2, MountStays DEF Known, MountAt
    <2>2. CASE u = t /\ CallMount(t)
      <3>1. PICK v \in VolumeIds : /\ images[v] # None
                                   /\ volume_meta'[t] = images[v].header
                                   /\ volume_meta'[t].volume_id = v
                                   /\ index'[t] = 1
        BY <2>2, CallMountEffect DEF Known
      <3>2. images' = images
        BY <2>2 DEF CallMount, diskVars
      <3>3. Len(images[v].metas) \in Nat
        BY <3>1 DEF Known, Inv, TypeOK, DiskType, Image
      <3> QED BY <2>2, <3>1, <3>2, <3>3 DEF MountAt
    <2>3. CASE u = t /\ MountRecord(t)
      <3> DEFINE v == volume_meta[t].volume_id
      <3>1. /\ pc[t] = "mount" /\ index'[t] = index[t] + 1
            /\ index[t] <= Len(images[v].metas)
            /\ UNCHANGED <<images, volume_meta>>
        BY <2>3 DEF MountRecord, diskVars, Known, Inv, TypeOK, LocalsType
      <3>2. images[v].header = volume_meta[t]
        BY <3>1 DEF MountsSound, MountAt
      <3>3. index[t] \in Nat /\ Len(images[v].metas) \in Nat
        BY <3>1 DEF Known, Inv, TypeOK, LocalsType, LocalsReady, LocalsReadyAt, DiskType,
                    Image, VolumeRecord
      <3> QED BY <2>3, <3>1, <3>2, <3>3 DEF MountAt
    <2>4. CASE u # t
      BY <2>1, <2>4, OthersStep DEF Known, Inv, TypeOK
    <2> QED BY <1>2, <2>2, <2>3, <2>4, MountPcStep DEF Known
  <1>3. \A u \in Threads : MountAt(u)'
    BY <1>2 DEF MountAt
  <1> QED BY <1>1, <1>3 DEF MountsSound

-----------------------------------------------------------------------------
(* The cache refers to records on disk. *)

\* A pending file that is placed in the cache makes the entry the record on disk.
LEMMA CachePlaced ==
    ASSUME NEW t \in Threads, Known, WriteMeta(t), NEW i \in InodeIds,
           pending_files[index[t]].inode_id = i,
           file_metadata_cache[i] # None,
           file_metadata_cache'[i] =
              [file_metadata_cache[i] EXCEPT
                  !.volume_id = pending_files[index[t]].volume_id,
                  !.offset_in_volume = pending_files[index[t]].offset_in_volume]
    PROVE  Recorded(file_metadata_cache[i])'
  <1> DEFINE file == pending_files[index[t]]
             v == volume_meta[t].volume_id
             old == file_metadata_cache[i]
             new == file_metadata_cache'[i]
  <1>1. pc[t] = "metas" /\ pc[t] \in LockedPackPcs
    BY DEF WriteMeta, LockedPackPcs
  <1>2. index[t] \in DOMAIN pending_files /\ pending_files \in Seq(FileRecord)
    BY <1>1, PackLocals DEF Known
  <1>3. file \in FileRecord /\ file.volume_id = v
    BY <1>1, <1>2 DEF Known, Layout, PlannedAt
  <1>4. old \in FileRecord /\ old.inode_id = i
    BY DEF Known, Inv, TypeOK, MemoryType, Staging, SourcesKnown
  <1>5. old.path = file.path
    BY <1>2 DEF Known, Staging, SourcesKnown, Issued
  <1>6. new = file
    <2>1. new = [old EXCEPT !.volume_id = file.volume_id,
                            !.offset_in_volume = file.offset_in_volume]
      OBVIOUS
    <2>2. file.inode_id = i
      OBVIOUS
    <2> HIDE DEF new, old, file
    <2>3. /\ new.inode_id = i /\ new.path = old.path /\ new.volume_id = file.volume_id
          /\ new.offset_in_volume = file.offset_in_volume
          /\ new \in FileRecord
      BY <1>3, <1>4, <2>1 DEF FileRecord
    <2> QED BY <1>3, <1>5, <2>2, <2>3 DEF FileRecord
  <1>7. /\ v \in VolumeIds /\ images'[v] \in Image
        /\ Len(images'[v].metas) = index[t]
        /\ \A k \in DOMAIN images'[v].metas : images'[v].metas[k] = pending_files[k]
    BY AppendEffect DEF Known
  <1>8. index[t] \in DOMAIN images'[v].metas
    <2>1. images'[v].metas \in Seq(FileRecord)
      BY <1>7 DEF Image
    <2>2. index[t] \in Nat \ {0}
      BY <1>1, PackLocals DEF Known
    <2> QED BY <1>7, <2>1, <2>2
  <1>9. images'[v] # None /\ images'[v].metas[index[t]] = new
    BY <1>6, <1>7, <1>8, NoneAssumption
  <1>10. new.volume_id = v
    BY <1>3, <1>6
  <1> HIDE DEF v, file, old
  <1> QED BY <1>8, <1>9, <1>10 DEF Recorded

LEMMA CacheSoundStep ==
    ASSUME NEW t \in Threads, FreshIds, Known, Known', ImageGrows, CacheSound,
           Call(t) \/ Step(t)
    PROVE  CacheSound'
  <1> SUFFICES ASSUME NEW i \in InodeIds, file_metadata_cache'[i] # None,
                      file_metadata_cache'[i].volume_id # None
               PROVE  Recorded(file_metadata_cache[i])'
    BY DEF CacheSound
  <1> DEFINE new == file_metadata_cache'[i]
  <1>0. new \in FileRecord
    BY DEF Known, Inv, TypeOK, MemoryType
  <1>1. new.volume_id \in VolumeIds
    BY <1>0 DEF FileRecord
  <1>2. CASE new = file_metadata_cache[i]
    <2>1. Recorded(new)
      BY <1>2 DEF CacheSound
    <2> HIDE DEF new
    <2> QED BY <1>1, <2>1, RecordedStays DEF Recorded, new
  <1>3. ASSUME MountRecord(t),
               index[t] \in DOMAIN images[volume_meta[t].volume_id].metas,
               new = images[volume_meta[t].volume_id].metas[index[t]]
        PROVE  Recorded(file_metadata_cache[i])'
    <2> DEFINE v == volume_meta[t].volume_id
    <2>1. pc[t] = "mount" /\ UNCHANGED images
      BY <1>3 DEF MountRecord, diskVars
    <2>2. v \in VolumeIds /\ images[v] # None
      BY <2>1 DEF Known, Inv, LocalsReady, LocalsReadyAt, TypeOK, LocalsType, VolumeRecord
    <2>3. new.volume_id = v
      BY <1>3, <2>2 DEF Known, Layout, ImageSound
    <2> HIDE DEF v
    <2> QED BY <1>3, <2>1, <2>2, <2>3 DEF Recorded, v
  <1>4. ASSUME NEW task, new = [inode_id |-> i, path |-> task.path,
                               volume_id |-> None, offset_in_volume |-> 0]
        PROVE  FALSE
    BY <1>4
  <1>5. ASSUME WriteMeta(t), pending_files[index[t]].inode_id = i,
               file_metadata_cache[i] # None,
               new = [file_metadata_cache[i] EXCEPT
                         !.volume_id = pending_files[index[t]].volume_id,
                         !.offset_in_volume = pending_files[index[t]].offset_in_volume]
        PROVE  Recorded(file_metadata_cache[i])'
    BY <1>5, CachePlaced
  <1>6. Inv
    BY DEF Known
  <1> QED BY <1>2, <1>3, <1>4, <1>5, <1>6, CacheStep

-----------------------------------------------------------------------------
(* Reads in progress. *)

\* The steps that lead into the unlocked part of a read.
LEMMA ReadPcStep ==
    ASSUME NEW t \in Threads, Inv, Call(t) \/ Step(t),
           pc'[t] \in {"read_image", "fill_output"}
    PROVE  CallRead(t) \/ ReadImage(t)
  <1> USE DEF Inv, TypeOK, LocalsType, Return, Goto
  <1>1. CASE Call(t)
    BY <1>1 DEF Call, CallAdd, CallBatch, CallPack, CallMount, Unmount, Begin
  <1>2. CASE CollectStep(t)
    BY <1>2 DEF CollectStep, CompressFile, CompressFileFails, JoinCompress,
                JoinCompressFails, CheckRoom, PushFile, PushTooLarge
  <1>3. CASE PackStep(t)
    BY <1>3 DEF PackStep, LockPack, NothingToPack, PlanVolume, PlaceFile, WriteHeader,
                WriteHeaderFails, WriteMeta, WriteMetaFails, ReadTemps, ReadTempsFails,
                JoinWrites, JoinWritesFails, FinishPack, PackFails, NextFile
  <1>4. CASE MountReadStep(t)
    BY <1>4 DEF MountReadStep, MountRecord, MountRecordFails, FinishMount, ReadImageFails,
                FillOutput, FillOutputFails
  <1> QED BY <1>1, <1>2, <1>3, <1>4 DEF Step

\* A read begins with a record of a mounted, and so whole, image.
LEMMA CallReadSound ==
    ASSUME NEW t \in Threads, Known, MountsSound, CacheSound, CallRead(t)
    PROVE  ReadAt(t)'
  <1>1. PICK i \in InodeIds :
          /\ file_metadata_cache[i] # None
          /\ file_metadata_cache[i].volume_id \in mounted_volumes
          /\ metadata' = [metadata EXCEPT ![t] = file_metadata_cache[i]]
    BY DEF CallRead
  <1> DEFINE file == file_metadata_cache[i]
  <1>2. /\ metadata'[t] = file /\ pc'[t] = "read_image" /\ UNCHANGED images
    BY <1>1 DEF CallRead, Goto, diskVars, Known, Inv, TypeOK, LocalsType
  <1>3. file.volume_id # None
    BY <1>1, IdsAssumption DEF Known, Inv, TypeOK, MemoryType
  <1>4. Recorded(file) /\ Whole(images[file.volume_id])
    BY <1>1, <1>3 DEF CacheSound, MountsSound
  <1> HIDE DEF file
  <1> QED BY <1>2, <1>4 DEF ReadAt, Recorded, Whole

\* What a read has decompressed is the content its record was added with, or Torn.
LEMMA ReadImageSound ==
    ASSUME NEW t \in Threads, Known, Known', ReadAt(t), ReadImage(t)
    PROVE  ReadAt(t)'
  <1> DEFINE file == metadata[t]
             v == file.volume_id
             i == file.inode_id
  <1>1. PICK p \in Decompressed(file) : content' = [content EXCEPT ![t] = p]
    BY DEF ReadImage
  <1>2. /\ pc[t] = "read_image" /\ pc'[t] = "fill_output" /\ content'[t] = p
        /\ UNCHANGED <<images, metadata, source>>
    BY <1>1 DEF ReadImage, Goto, Known, Inv, TypeOK, LocalsType
  <1>3. Recorded(file) /\ Whole(images[v])
    BY <1>2 DEF ReadAt
  <1>4. v \in VolumeIds /\ images[v] # None
    BY <1>2 DEF Known, Inv, LocalsReady, LocalsReadyAt
  <1>5. PICK k \in DOMAIN images[v].metas : images[v].metas[k] = file
    BY <1>3 DEF Recorded
  <1>6. Recorded(metadata[t])' /\ Whole(images[metadata[t].volume_id])'
    BY <1>2, <1>3 DEF Recorded, Whole
  <1>7. CASE p \notin Frames(file)
    <2>1. content'[t] = Torn
      BY <1>1, <1>2, <1>7 DEF Decompressed
    <2> QED BY <1>6, <2>1 DEF ReadAt
  <1>8. CASE p \in Frames(file)
    <2>1. Frames(file) = {file.path} /\ p = file.path
      <3>1. ImageSound(v)
        BY <1>4 DEF Known, Layout
      <3>2. Frames(images[v].metas[k]) \subseteq {images[v].metas[k].path}
        BY <1>4, <3>1, FramesSound DEF Known
      <3> QED BY <1>5, <1>8, <3>2
    <2>2. source[i] = file.path
      BY <1>4, <1>5 DEF Known, Staging, SourcesKnown, Issued
    <2>3. StoredIn(i, v)
      BY <1>3, <1>4, <1>5, <2>1, <2>2 DEF StoredIn, Whole
    <2>4. ImageGrows /\ SourceGrows /\ i \in InodeIds
      BY <1>2 DEF ImageGrows, SourceGrows, Known, Inv, TypeOK, LocalsType, LocalsReady,
                  LocalsReadyAt, FileRecord
    <2>5. \A j \in InodeIds, w \in VolumeIds : StoredIn(j, w) => StoredIn(j, w)'
      BY <2>4, StoredStays
    <2>6. StoredIn(metadata[t].inode_id, metadata[t].volume_id)'
      <3>1. PICK j \in InodeIds, w \in VolumeIds : j = i /\ w = v
        BY <1>4, <2>4
      <3>2. StoredIn(j, w)'
        BY <2>3, <2>5, <3>1
      <3> QED BY <1>2, <3>1, <3>2 DEF StoredIn
    <2>7. content'[t] = source'[metadata'[t].inode_id]
      BY <1>2, <2>1, <2>2
    <2> QED BY <1>6, <2>6, <2>7 DEF ReadAt
  <1> QED BY <1>7, <1>8

\* Nobody takes from a read what it works on.
LEMMA ReadStays ==
    ASSUME Known, Known', ImageGrows, SourceGrows, NEW u \in Threads, ReadAt(u),
           pc'[u] = pc[u], metadata'[u] = metadata[u], content'[u] = content[u]
    PROVE  ReadAt(u)'
  <1> DEFINE file == metadata[u]
             v == file.volume_id
             i == file.inode_id
  <1> SUFFICES ASSUME pc[u] \in {"read_image", "fill_output"}
               PROVE  ReadAt(u)'
    BY DEF ReadAt
  <1>1. Recorded(file) /\ Whole(images[v])
    BY DEF ReadAt
  <1>2. v \in VolumeIds /\ images[v] # None /\ file \in FileRecord
    BY DEF Known, Inv, LocalsReady, LocalsReadyAt, TypeOK, LocalsType
  <1>3. /\ images'[v] # None /\ images'[v].metas = images[v].metas
        /\ Whole(images'[v])
    BY <1>1, <1>2, WholeStays DEF ImageGrows
  <1>4. i \in InodeIds /\ file.path \in Paths
    BY <1>2 DEF FileRecord
  <1>5. source[i] = file.path /\ source'[i] = file.path
    <2>1. source[i] = file.path
      BY <1>1, <1>2 DEF Recorded, Known, Staging, SourcesKnown, Issued
    <2> QED BY <1>4, <2>1, IssuedStays
  <1>6. StoredIn(i, v) => StoredIn(i, v)'
    BY <1>2, <1>4, StoredStays
  <1>7. Recorded(metadata[u])' /\ Whole(images[metadata[u].volume_id])'
    BY <1>1, <1>3 DEF Recorded, Whole
  <1>8. pc[u] = "fill_output" /\ content'[u] # Torn =>
          /\ content'[u] = source'[metadata'[u].inode_id]
          /\ StoredIn(metadata[u].inode_id, metadata[u].volume_id)'
    <2>1. pc[u] = "fill_output" /\ content[u] # Torn => content[u] = source[i] /\ StoredIn(i, v)
      BY DEF ReadAt
    <2>2. StoredIn(i, v) => StoredIn(metadata[u].inode_id, metadata[u].volume_id)'
      BY <1>6 DEF StoredIn
    <2> QED BY <1>5, <2>1, <2>2
  <1> QED BY <1>7, <1>8 DEF ReadAt

LEMMA ReadsStep ==
    ASSUME NEW t \in Threads, FreshIds, Known, Known', ImageGrows, SourceGrows,
           MountsSound, CacheSound, Call(t) \/ Step(t), NEW u \in Threads, ReadAt(u)
    PROVE  ReadAt(u)'
  <1>1. CASE u # t
    <2>1. LocalsOf(u)' = LocalsOf(u)
      BY <1>1, OthersStep DEF Known, Inv, TypeOK
    <2> QED BY <2>1, ReadStays DEF LocalsOf
  <1>2. CASE u = t /\ pc'[t] \in {"read_image", "fill_output"}
    BY <1>2, ReadPcStep, CallReadSound, ReadImageSound DEF Known
  <1>3. CASE u = t /\ pc'[t] \notin {"read_image", "fill_output"}
    BY <1>3 DEF ReadAt
  <1> QED BY <1>1, <1>2, <1>3

-----------------------------------------------------------------------------
(* Nothing is lost. *)

\* The files leave the list by nothing but the end of a pack.
LEMMA PendingStays ==
    ASSUME NEW t \in Threads, Inv, Call(t) \/ Step(t), ~FinishPack(t),
           NEW i \in InodesOf(pending_files)
    PROVE  i \in InodesOf(pending_files)'
  <1>1. PICK k \in DOMAIN pending_files : pending_files[k].inode_id = i
    BY DEF InodesOf
  <1>2. k \in DOMAIN pending_files' /\ pending_files'[k].inode_id = pending_files[k].inode_id
    <2>1. CASE PushFile(t)
      BY <2>1, PushEffect
    <2>2. CASE ~PushFile(t)
      BY <2>2, PendingStep
    <2> QED BY <2>1, <2>2
  <1> QED BY <1>1, <1>2 DEF InodesOf

\* At the end of a pack its image keeps every pending file.
LEMMA PackStores ==
    ASSUME NEW t \in Threads, Known, FinishPack(t), NEW i \in InodesOf(pending_files)
    PROVE  LET v == volume_meta[t].volume_id
           IN v \in VolumeIds /\ v \notin mounted_volumes /\ StoredIn(i, v)
  <1> DEFINE v == volume_meta[t].volume_id
  <1>1. pc[t] = "finish" /\ pc[t] \in LockedPackPcs /\ pc[t] \in ImagedPcs
    BY DEF FinishPack, LockedPackPcs, ImagedPcs
  <1>2. /\ v \in VolumeIds /\ images[v] \in Image
        /\ volume_meta[t] \in VolumeRecord /\ pending_files \in Seq(FileRecord)
    BY <1>1, PackLocals DEF Known
  <1>3. /\ images[v].header = volume_meta[t]
        /\ Len(images[v].metas) = Len(pending_files)
        /\ volume_meta[t].file_count = Len(pending_files)
        /\ v \notin mounted_volumes
        /\ \A k \in DOMAIN images[v].metas : images[v].metas[k] = pending_files[k]
        /\ \A k \in DOMAIN pending_files : Written(pending_files[k])
    BY <1>1 DEF Known, Layout, ImagedAt, PlannedAt
  <1>4. images[v] # None /\ images[v].header # Torn
    BY <1>2, <1>3, NoneAssumption, TornAssumption
  <1>5. PICK k \in DOMAIN pending_files : pending_files[k].inode_id = i
    BY DEF InodesOf
  <1>6. k \in DOMAIN images[v].metas
    <2>1. images[v].metas \in Seq(FileRecord)
      BY <1>2 DEF Image
    <2> QED BY <1>2, <1>3, <2>1
  <1>7. Frames(images[v].metas[k]) = {images[v].metas[k].path}
    <2>1. ImageSound(v) /\ Written(images[v].metas[k])
      BY <1>2, <1>3, <1>6 DEF Known, Layout
    <2> QED BY <1>2, <1>4, <1>6, <2>1, FramesWritten DEF Known
  <1>8. source[i] = images[v].metas[k].path
    BY <1>3, <1>5, <1>6 DEF Known, Staging, SourcesKnown, Issued
  <1> HIDE DEF v
  <1>9. images[v].metas[k].inode_id = i
    BY <1>3, <1>5, <1>6
  <1>10. Len(images[v].metas) = images[v].header.file_count
    BY <1>3
  <1> QED BY <1>2, <1>3, <1>4, <1>6, <1>7, <1>8, <1>9, <1>10 DEF StoredIn, v

\* The ids of files are ids.
LEMMA KnownInodes ==
    ASSUME Known
    PROVE  /\ InodesOf(pending_files) \subseteq InodeIds
           /\ \A t \in Threads : \A k \in DOMAIN tasks[t] : tasks[t][k].inode_id \in InodeIds
           /\ \A v \in VolumeIds : images[v] # None =>
                 \A k \in DOMAIN images[v].metas : images[v].metas[k].inode_id \in InodeIds
  <1> USE DEF Known, Inv, TypeOK
  <1>1. \A k \in DOMAIN pending_files : pending_files[k] \in FileRecord
    BY DEF MemoryType
  <1>2. ASSUME NEW t \in Threads, NEW k \in DOMAIN tasks[t]
        PROVE  tasks[t][k] \in FileTask
    <2>1. tasks[t] \in Seq(FileTask)
      BY DEF LocalsType
    <2> QED BY <2>1
  <1>3. ASSUME NEW v \in VolumeIds, images[v] # None, NEW k \in DOMAIN images[v].metas
        PROVE  images[v].metas[k] \in FileRecord
    <2>1. images[v].metas \in Seq(FileRecord)
      BY <1>3 DEF DiskType, Image
    <2> QED BY <2>1
  <1> QED BY <1>1, <1>2, <1>3 DEF InodesOf, FileRecord, FileTask

\* A file once kept is kept, across every step of a living process.
LEMMA KeptStays ==
    ASSUME NEW t \in Threads, Known, Known', ImageGrows, SourceGrows, Call(t) \/ Step(t),
           NEW i \in InodeIds, Kept(i)
    PROVE  Kept(i)'
  <1>1. CASE i \in InodesOf(pending_files) /\ ~FinishPack(t)
    BY <1>1, PendingStays DEF Known, Kept
  <1>2. CASE i \in InodesOf(pending_files) /\ FinishPack(t)
    <2>1. PICK v \in VolumeIds : StoredIn(i, v)
      BY <1>2, PackStores
    <2>2. StoredIn(i, v)'
      BY <2>1, StoredStays
    <2> QED BY <2>2 DEF Kept, Stored
  <1>3. CASE Stored(i)
    <2>1. PICK v \in VolumeIds : StoredIn(i, v)
      BY <1>3 DEF Stored
    <2>2. StoredIn(i, v)'
      BY <2>1, StoredStays
    <2> QED BY <2>2 DEF Kept, Stored
  <1> QED BY <1>1, <1>2, <1>3 DEF Kept

\* A file that counts as pushed after a step did so before, or is the one pushed.
LEMMA PushedStep ==
    ASSUME NEW t \in Threads, Inv, FreshIds, CallPhases, Call(t) \/ Step(t),
           NEW u \in Threads, NEW k \in DOMAIN tasks'[u], k \notin Unpushed(u)'
    PROVE  /\ k \in DOMAIN tasks[u] /\ tasks'[u][k] = tasks[u][k]
           /\ k \notin Unpushed(u) \/ (u = t /\ PushFile(t) /\ k = index[t])
  <1> USE DEF Inv, TypeOK, LocalsType, Unpushed
  <1>1. CASE u # t
    <2>1. LocalsOf(u)' = LocalsOf(u)
      BY <1>1, OthersStep
    <2> QED BY <2>1 DEF LocalsOf
  <1>2. CASE u = t /\ \E code : Return(t, code)
    <2>1. tasks'[t] = <<>>
      BY <1>2 DEF Return
    <2> QED BY <1>2, <2>1
  <1>3. CASE u = t /\ (CallAdd(t) \/ CallBatch(t))
    <2>1. pc'[t] \in {"compress", "pool_compress"}
      BY <1>3 DEF CallAdd, CallBatch, Goto
    <2> QED BY <1>3, <2>1
  <1>5. ASSUME CallPack(t) \/ CallMount(t) \/ CallRead(t) \/ Unmount(t)
        PROVE  tasks'[t] = <<>>
    BY <1>5 DEF CallPack, CallMount, CallRead, Unmount, Begin, CallPhases, PhaseAt, addVars
  <1>6. CASE u = t /\ (CompressFile(t) \/ JoinCompress(t)) /\ ~\E code : Return(t, code)
    BY <1>6, NoneAssumption DEF CompressFile, JoinCompress, Goto, addVars
  <1>7. CASE u = t /\ CheckRoom(t)
    <2>1. /\ pc[t] = "check" /\ tasks' = tasks /\ index'[t] = 1
          /\ \/ pc'[t] = "push"
             \/ trigger'[t] = "AutoOverflow"
      BY <1>7 DEF CheckRoom, Goto, addVars, packVars, LocalsReady, LocalsReadyAt
    <2>2. k \in DOMAIN tasks[t] /\ 1 <= k
      BY <1>7, <2>1
    <2> QED BY <1>7, <2>1, <2>2
  <1>8. CASE u = t /\ PushFile(t) /\ ~\E code : Return(t, code)
    <2>1. /\ pc[t] = "push" /\ tasks' = tasks /\ trigger[t] = None
          /\ \/ pc'[t] = "push" /\ index'[t] = index[t] + 1 /\ trigger' = trigger
             \/ index[t] = Len(tasks[t]) /\ pc'[t] = "lock_pack" /\ index'[t] = 1
      BY <1>8 DEF PushFile, Goto, addVars, CallPhases, PhaseAt, LockedPackPcs, UnlockedPackPcs
    <2>2. k \in Nat /\ index[t] \in Nat /\ Len(tasks[t]) \in Nat /\ k <= Len(tasks[t])
      BY <1>8, <2>1
    <2>3. index[t] <= k => k = index[t]
      BY <1>8, <2>1, <2>2
    <2> QED BY <1>8, <2>1, <2>2, <2>3, NoneAssumption DEF Triggers
  <1>9. CASE u = t /\ (LockPack(t) \/ PlanVolume(t) \/ PlaceFile(t) \/ WriteHeader(t)
                       \/ WriteMeta(t) \/ ReadTemps(t) \/ JoinWrites(t))
    BY <1>9 DEF LockPack, PlanVolume, PlaceFile, WriteHeader, WriteMeta, ReadTemps,
                JoinWrites, NextFile, Goto, addVars
  <1>10. CASE u = t /\ FinishPack(t) /\ ~\E code : Return(t, code)
    <2>1. pc'[t] = "push" /\ index' = index /\ tasks' = tasks /\ index[t] = 1
      BY <1>10 DEF FinishPack, Goto, LocalsReady, LocalsReadyAt
    <2> QED BY <1>10, <2>1
  <1>11. CASE u = t /\ (MountRecord(t) \/ ReadImage(t))
    BY <1>11 DEF MountRecord, ReadImage, CallPhases, PhaseAt, MountReadPcs, addVars
  <1>12. CASE \/ CompressFileFails(t) \/ JoinCompressFails(t) \/ PushTooLarge(t)
              \/ NothingToPack(t) \/ WriteHeaderFails(t) \/ WriteMetaFails(t)
              \/ ReadTempsFails(t) \/ JoinWritesFails(t) \/ MountRecordFails(t)
              \/ FinishMount(t) \/ ReadImageFails(t) \/ FillOutput(t) \/ FillOutputFails(t)
    BY <1>1, <1>2, <1>12 DEF CompressFileFails, JoinCompressFails, PushTooLarge,
       NothingToPack, WriteHeaderFails, WriteMetaFails, ReadTempsFails, JoinWritesFails,
       PackFails, MountRecordFails, FinishMount, ReadImageFails, FillOutput, FillOutputFails
  <1> QED BY <1>1, <1>2, <1>3, <1>5, <1>6, <1>7, <1>8, <1>9, <1>10, <1>11, <1>12
          DEF Call, Step, CollectStep, PackStep, MountReadStep

\* A call answers for nothing but files it has pushed.
LEMMA AnswerStep ==
    ASSUME NEW t \in Threads, Inv, CallPhases, Call(t) \/ Step(t), NEW i \in accepted'
    PROVE  \/ i \in accepted
           \/ i \in Pushed(t)
           \/ PushFile(t) /\ i = tasks[t][index[t]].inode_id
  <1> USE DEF Inv, TypeOK, LocalsType
  <1>0. ASSUME NEW code, Return(t, code), i \notin accepted
        PROVE  code = "SUCCESS" /\ \E k \in DOMAIN tasks[t] : i = tasks[t][k].inode_id
    BY <1>0 DEF Return, InodesOf
  <1>1. CASE PushFile(t) /\ \E code : Return(t, code)
    <2>1. /\ pc[t] = "push" /\ trigger[t] = None
          /\ index[t] = Len(tasks[t])
      <3>1. index'[t] = 1 /\ pc'[t] = "idle"
        BY <1>1 DEF Return, Goto
      <3>2. pc[t] = "push"
        BY <1>1 DEF PushFile
      <3>3. index[t] = Len(tasks[t]) \/ pc' = pc
        BY <1>1 DEF PushFile
      <3> QED BY <3>1, <3>2, <3>3 DEF CallPhases, PhaseAt, UnlockedPackPcs, LockedPackPcs
    <2>2. ASSUME NEW k \in DOMAIN tasks[t], i = tasks[t][k].inode_id, k # index[t]
          PROVE  i \in Pushed(t)
      <3>1. k < index[t]
        BY <2>1, <2>2
      <3>2. k \notin Unpushed(t)
        BY <2>1, <3>1, NoneAssumption DEF Unpushed, Triggers
      <3> QED BY <2>2, <3>2 DEF Pushed
    <2> QED BY <1>0, <1>1, <2>2
  <1>2. CASE FinishPack(t) /\ \E code : Return(t, code)
    <2>1. pc[t] = "finish" /\ trigger[t] # "AutoOverflow"
      <3>1. pc[t] = "finish" /\ pc'[t] = "idle"
        BY <1>2 DEF FinishPack, Return, Goto
      <3> QED BY <1>2, <3>1 DEF FinishPack, Goto
    <2> QED BY <1>0, <1>2, <2>1 DEF Pushed, Unpushed
  <1>3. CASE FinishMount(t) \/ FillOutput(t)
    <2>1. tasks[t] = <<>>
      BY <1>3 DEF FinishMount, FillOutput, CallPhases, PhaseAt, MountReadPcs
    <2> QED BY <1>0, <1>3, <2>1 DEF FinishMount, FillOutput
  <1>4. CASE Call(t)
    BY <1>4 DEF Call, CallAdd, CallBatch, CallPack, CallMount, CallRead, Unmount
  <1>5. CASE CollectStep(t) /\ ~PushFile(t)
    BY <1>0, <1>5 DEF CollectStep, CompressFile, CompressFileFails, JoinCompress,
                JoinCompressFails, CheckRoom, PushTooLarge, answers
  <1>6. CASE PackStep(t) /\ ~FinishPack(t)
    BY <1>0, <1>6 DEF PackStep, LockPack, NothingToPack, PlanVolume, PlaceFile, WriteHeader,
                WriteHeaderFails, WriteMeta, WriteMetaFails, ReadTemps, ReadTempsFails,
                JoinWrites, JoinWritesFails, PackFails, answers
  <1>7. CASE MountReadStep(t) /\ ~FinishMount(t) /\ ~FillOutput(t)
    BY <1>0, <1>7 DEF MountReadStep, MountRecord, MountRecordFails, ReadImage,
                ReadImageFails, FillOutputFails, answers
  <1>8. CASE UNCHANGED accepted
    BY <1>8
  <1> QED BY <1>1, <1>2, <1>3, <1>4, <1>5, <1>6, <1>7, <1>8, HistoryFrame DEF Step

\* A file that is pushed is pending.
LEMMA PushKept ==
    ASSUME NEW t \in Threads, Inv, PushFile(t), NEW i, i = tasks[t][index[t]].inode_id
    PROVE  Kept(i)'
  <1>1. /\ Len(pending_files) + 1 \in DOMAIN pending_files'
        /\ pending_files'[Len(pending_files) + 1].inode_id = i
    <2> DEFINE task == tasks[t][index[t]]
               file == [inode_id |-> task.inode_id, path |-> task.path,
                        volume_id |-> None, offset_in_volume |-> 0]
    <2>1. /\ DOMAIN pending_files' = DOMAIN pending_files \cup {Len(pending_files) + 1}
          /\ pending_files'[Len(pending_files) + 1] = file
      BY PushEffect
    <2>2. file.inode_id = i
      OBVIOUS
    <2> HIDE DEF file
    <2> QED BY <2>1, <2>2
  <1> QED BY <1>1 DEF Kept, InodesOf

LEMMA PushedStays ==
    ASSUME NEW t \in Threads, FreshIds, Known, Known', ImageGrows, SourceGrows, KeptSound,
           Call(t) \/ Step(t), NEW u \in Threads, NEW i \in Pushed(u)'
    PROVE  Kept(i)'
  <1>1. PICK k \in DOMAIN tasks'[u] : k \notin Unpushed(u)' /\ i = tasks'[u][k].inode_id
    BY DEF Pushed
  <1>2. /\ k \in DOMAIN tasks[u] /\ tasks'[u][k] = tasks[u][k]
        /\ k \notin Unpushed(u) \/ (u = t /\ PushFile(t) /\ k = index[t])
    BY <1>1, PushedStep DEF Known, Staging
  <1>3. CASE k \notin Unpushed(u)
    <2>1. i \in InodeIds /\ i \in Pushed(u)
      BY <1>1, <1>2, <1>3, KnownInodes DEF Pushed
    <2> QED BY <2>1, KeptStays DEF KeptSound
  <1>4. CASE u = t /\ PushFile(t) /\ k = index[t]
    BY <1>1, <1>2, <1>4, PushKept DEF Known
  <1> QED BY <1>2, <1>3, <1>4

\* A write task is that of a record whose file is kept.
LEMMA QueuedStays ==
    ASSUME NEW t \in Threads, FreshIds, Known, Known', ImageGrows, SourceGrows, KeptSound,
           Call(t) \/ Step(t), NEW i \in Queued'
    PROVE  Kept(i)'
  <1>1. PICK task \in pool' : /\ task.kind = "write"
                              /\ i = images'[task.volume_id].metas[task.k].inode_id
    BY DEF Queued
  <1>2. ASSUME NEW old \in pool, old.kind = "write", old.volume_id = task.volume_id,
               old.k = task.k
        PROVE  Kept(i)'
    <2>1. old.volume_id \in VolumeIds /\ images[old.volume_id] # None
      BY <1>2 DEF Known, Inv, TypeOK, SyncType, CompressTask, WriteTask, ImagesPresent
    <2>2. old.k \in DOMAIN images[old.volume_id].metas
      BY <1>2 DEF Known, Layout, WriteSound
    <2>3. i = images[old.volume_id].metas[old.k].inode_id
      BY <1>1, <1>2, <2>1, <2>2 DEF ImageGrows
    <2>4. i \in InodeIds /\ i \in Queued
      BY <1>2, <2>1, <2>2, <2>3, KnownInodes DEF Queued
    <2> QED BY <2>4, KeptStays DEF KeptSound
  <1>3. ASSUME ReadTemps(t), NEW k \in DOMAIN pending_files, task = WriteTaskOf(t, k)
        PROVE  Kept(i)'
    <2> DEFINE v == volume_meta[t].volume_id
    <2>1. /\ task.k = k /\ task.volume_id = v
          /\ images[v].metas[k] = pending_files[k]
      BY <1>3, EnqueuedWrite DEF Known
    <2>2. UNCHANGED <<images, pending_files>>
      BY <1>3 DEF ReadTemps, diskVars, memVars
    <2>3. i = pending_files'[k].inode_id /\ k \in DOMAIN pending_files'
      BY <1>1, <1>3, <2>1, <2>2
    <2> QED BY <2>3 DEF Kept, InodesOf
  <1> QED BY <1>1, <1>2, <1>3, WriteTasksStep DEF Known

LEMMA KeptStep ==
    ASSUME NEW t \in Threads, FreshIds, Known, Known', ImageGrows, SourceGrows, KeptSound,
           Call(t) \/ Step(t)
    PROVE  KeptSound'
  <1>1. ASSUME NEW i \in accepted'
        PROVE  Kept(i)'
    <2>1. CASE i \in accepted \/ i \in Pushed(t)
      <3>1. Kept(i)
        BY <2>1 DEF KeptSound
      <3>2. i \in InodeIds
        BY <2>1, KnownInodes DEF Known, Inv, TypeOK, HistoryType, Pushed
      <3> QED BY <3>1, <3>2, KeptStays
    <2>2. CASE PushFile(t) /\ i = tasks[t][index[t]].inode_id
      BY <2>2, PushKept DEF Known
    <2> QED BY <2>1, <2>2, AnswerStep DEF Known, Staging
  <1> QED BY <1>1, PushedStays, QueuedStays DEF KeptSound

-----------------------------------------------------------------------------
(* Workers, crashes and the first state. *)

LEMMA ContentsWorker ==
    ASSUME NEW task \in pool, FreshIds, Known, Known', ImageGrows, SourceGrows, Contents,
           RunTask(task)
    PROVE  Contents'
  <1>1. /\ UNCHANGED <<pending_files, file_metadata_cache, mounted_volumes, pc, tasks,
                       index, trigger, volume_meta, metadata, content, source>>
        /\ pool' \subseteq pool
    BY WorkerFiles DEF Known
  <1>2. UNCHANGED accepted
    BY DEF RunTask, RunCompress, RunCompressFails, RunWrite, RunWriteFails, answers
  <1>3. MountsSound'
    <2>1. \A v \in mounted_volumes : v \in VolumeIds /\ images[v] # None
      BY DEF Known, Inv, TypeOK, MemoryType, ImagesPresent
    <2>2. \A v \in mounted_volumes' : Whole(images'[v])
      BY <1>1, <2>1, WholeStays DEF Contents, MountsSound
    <2>3. \A u \in Threads : MountAt(u)'
      BY <1>1, MountStays DEF Known, Contents, MountsSound, MountAt
    <2> QED BY <2>2, <2>3 DEF MountsSound
  <1>4. CacheSound'
    <2> SUFFICES ASSUME NEW i \in InodeIds, file_metadata_cache'[i] # None,
                        file_metadata_cache'[i].volume_id # None
                 PROVE  Recorded(file_metadata_cache[i])'
      BY DEF CacheSound
    <2>1. file_metadata_cache[i].volume_id \in VolumeIds
      BY <1>1 DEF Known, Inv, TypeOK, MemoryType, FileRecord
    <2>2. Recorded(file_metadata_cache[i])
      BY <1>1 DEF Contents, CacheSound
    <2> QED BY <1>1, <2>1, <2>2, RecordedStays DEF Recorded
  <1>5. \A u \in Threads : ReadAt(u)'
    BY <1>1, ReadStays DEF Contents
  <1>6. ASSUME NEW i \in InodeIds, Kept(i)
        PROVE  Kept(i)'
    <2>1. CASE i \in InodesOf(pending_files)
      BY <1>1, <2>1 DEF Kept, InodesOf
    <2>2. CASE Stored(i)
      <3>1. PICK v \in VolumeIds : StoredIn(i, v)
        BY <2>2 DEF Stored
      <3> QED BY <3>1, StoredStays DEF Kept, Stored
    <2> QED BY <1>6, <2>1, <2>2 DEF Kept
  <1>7. KeptSound'
    <2>1. \A i \in accepted' : Kept(i)'
      BY <1>2, <1>6 DEF Contents, KeptSound, Known, Inv, TypeOK, HistoryType
    <2>2. ASSUME NEW u \in Threads, NEW i \in Pushed(u)'
          PROVE  Kept(i)'
      <3>1. i \in Pushed(u)
        BY <1>1 DEF Pushed, Unpushed
      <3>2. i \in InodeIds
        BY <3>1, KnownInodes DEF Pushed
      <3> QED BY <1>6, <3>1, <3>2 DEF Contents, KeptSound
    <2>3. ASSUME NEW i \in Queued'
          PROVE  Kept(i)'
      <3>1. PICK w \in pool : /\ w.kind = "write"
                              /\ i = images'[w.volume_id].metas[w.k].inode_id
        BY <1>1 DEF Queued
      <3>2. w.volume_id \in VolumeIds /\ images[w.volume_id] # None
        BY <3>1 DEF Known, Inv, TypeOK, SyncType, CompressTask, WriteTask, ImagesPresent
      <3>3. w.k \in DOMAIN images[w.volume_id].metas
        BY <3>1 DEF Known, Layout, WriteSound
      <3>4. i = images[w.volume_id].metas[w.k].inode_id
        BY <3>1, <3>2, <3>3 DEF ImageGrows
      <3>5. i \in Queued /\ i \in InodeIds
        BY <3>1, <3>2, <3>3, <3>4, KnownInodes DEF Queued
      <3> QED BY <1>6, <3>5 DEF Contents, KeptSound
    <2> QED BY <2>1, <2>2, <2>3 DEF KeptSound
  <1> QED BY <1>3, <1>4, <1>5, <1>7 DEF Contents

LEMMA ContentsCrash ==
    ASSUME Crash
    PROVE  Contents'
  <1>1. /\ mounted_volumes' = {} /\ pool' = {} /\ accepted' = {}
        /\ \A i \in InodeIds : file_metadata_cache'[i] = None
        /\ \A u \in Threads : pc'[u] = "idle" /\ tasks'[u] = <<>>
    BY DEF Crash, NoInodes
  <1>2. MountsSound' /\ CacheSound' /\ \A u \in Threads : ReadAt(u)'
    BY <1>1 DEF MountsSound, MountAt, CacheSound, ReadAt
  <1>3. KeptSound'
    <2>1. Queued' = {} /\ \A u \in Threads : Pushed(u)' = {}
      BY <1>1 DEF Queued, Pushed
    <2> QED BY <1>1, <2>1 DEF KeptSound
  <1> QED BY <1>2, <1>3 DEF Contents

LEMMA ContentsInit == Init => Contents
  <1> SUFFICES ASSUME Init
               PROVE  Contents
    OBVIOUS
  <1>1. /\ mounted_volumes = {} /\ pool = {} /\ accepted = {}
        /\ \A i \in InodeIds : file_metadata_cache[i] = None
        /\ \A u \in Threads : pc[u] = "idle" /\ tasks[u] = <<>>
    BY DEF Init, NoInodes
  <1>2. MountsSound /\ CacheSound /\ \A u \in Threads : ReadAt(u)
    BY <1>1 DEF MountsSound, MountAt, CacheSound, ReadAt
  <1>3. KeptSound
    <2>1. Queued = {} /\ \A u \in Threads : Pushed(u) = {}
      BY <1>1 DEF Queued, Pushed
    <2> QED BY <1>1, <2>1 DEF KeptSound
  <1> QED BY <1>2, <1>3 DEF Contents

LEMMA ContentsStutter == Contents /\ UNCHANGED vars => Contents'
  <1> SUFFICES ASSUME Contents, UNCHANGED vars
               PROVE  Contents'
    OBVIOUS
  <1> USE DEF vars, memVars, diskVars, lockVars, poolVars, addVars, packVars, readVars,
              answers
  <1>1. \A i, v : StoredIn(i, v)' <=> StoredIn(i, v)
    BY DEF StoredIn, Frames
  <1>2. \A i : Kept(i)' <=> Kept(i)
    BY <1>1 DEF Kept, Stored, InodesOf
  <1>3. MountsSound' /\ CacheSound'
    BY DEF Contents, MountsSound, MountAt, CacheSound, Recorded, Whole
  <1>4. ASSUME NEW u \in Threads
        PROVE  ReadAt(u)'
    <2>1. ReadAt(u)
      BY DEF Contents
    <2>2. StoredIn(metadata[u].inode_id, metadata[u].volume_id)' <=>
          StoredIn(metadata[u].inode_id, metadata[u].volume_id)
      BY DEF StoredIn, Frames
    <2>3. Recorded(metadata[u])' <=> Recorded(metadata[u])
      BY DEF Recorded
    <2> QED BY <2>1, <2>2, <2>3 DEF ReadAt
  <1>5. /\ Queued' = Queued
        /\ \A u : Pushed(u)' = Pushed(u)
    BY DEF Queued, Pushed, Unpushed
  <1>6. KeptSound'
    BY <1>2, <1>5 DEF Contents, KeptSound
  <1> QED BY <1>3, <1>4, <1>6 DEF Contents

LEMMA ContentsNext ==
    ASSUME FreshIds, Known, Contents, [Next]_vars
    PROVE  Contents'
  <1>0. Known' /\ ImageGrows /\ SourceGrows
    BY KnownNext, GrowNext
  <1>1. CASE \E t \in Threads : Call(t) \/ Step(t)
    <2>1. PICK t \in Threads : Call(t) \/ Step(t)
      BY <1>1
    <2> QED BY <1>0, <2>1, MountsStep, CacheSoundStep, ReadsStep, KeptStep DEF Contents
  <1>2. CASE Worker
    BY <1>0, <1>2, ContentsWorker DEF Worker
  <1>3. CASE Crash
    BY <1>3, ContentsCrash
  <1>4. CASE Stop \/ UNCHANGED vars
    BY <1>4, ContentsStutter DEF Stop
  <1> QED BY <1>1, <1>2, <1>3, <1>4 DEF Next

LEMMA ContentsInvariance ==
    ASSUME FreshIds
    PROVE  Spec => [](Known /\ Contents)
  <1>1. Init => Contents
    BY ContentsInit
  <1>2. Known /\ Contents /\ [Next]_vars => Contents'
    BY ContentsNext
  <1> QED BY <1>1, <1>2, KnownInvariance, PTL DEF Spec

-----------------------------------------------------------------------------
(* The theorems. *)

\* If the generator repeats no id, every place the cache knows, and so every line of a
\* listing and every place a read looks at, is a record of the image on disk, whatever
\* failed packs, half-done mounts and unmounts left behind.
THEOREM CacheOnDisk ==
    ASSUME FreshIds
    PROVE  Spec => []CachedOnDisk
  <1>1. Known /\ Contents => CachedOnDisk
    <2> SUFFICES ASSUME Known, Contents, NEW v \in VolumeIds, NEW i \in ListedFiles(v)
                 PROVE  /\ images[v] # None
                        /\ file_metadata_cache[i] \in
                              {images[v].metas[k] : k \in DOMAIN images[v].metas}
      BY DEF CachedOnDisk
    <2>1. /\ i \in InodeIds /\ file_metadata_cache[i] # None
          /\ file_metadata_cache[i].volume_id = v /\ v # None
      BY IdsAssumption DEF ListedFiles
    <2>2. Recorded(file_metadata_cache[i])
      BY <2>1 DEF Contents, CacheSound
    <2> QED BY <2>1, <2>2 DEF Recorded
  <1> QED BY <1>1, ContentsInvariance, PTL

\* If the generator repeats no id, a file whose add returned SUCCESS is pending or in a
\* complete image on disk, for any number of threads, faults and orders of the pool.
THEOREM AcceptedNotLost ==
    ASSUME FreshIds
    PROVE  Spec => []AcceptedKept
  <1>1. Contents => AcceptedKept
    BY DEF Contents, KeptSound, Kept, AcceptedKept
  <1> QED BY <1>1, ContentsInvariance, PTL

\* If the generator repeats no id, no step of a caller, a pool task or a crash takes a
\* stored file out of its image.
THEOREM StoredKept ==
    ASSUME FreshIds
    PROVE  Spec => StoredForever
  <1>1. Known /\ [Next]_vars =>
           [\A i \in InodeIds, v \in VolumeIds : StoredIn(i, v) => StoredIn(i, v)']_vars
    BY KnownNext, GrowNext, StoredStays
  <1> QED BY <1>1, KnownInvariance, PTL DEF Spec, StoredForever

\* If the generator repeats no id, the pending files leave the list only by a pack that
\* has all of them in one complete image it has just mounted, or with the process.
THEOREM PacksAtomic ==
    ASSUME FreshIds
    PROVE  Spec => PackAtomic
  <1> DEFINE Atomic == pending_files # <<>> /\ pending_files' = <<>> =>
                          \/ crashes' # crashes
                          \/ \E v \in mounted_volumes' \ mounted_volumes :
                                \A i \in InodesOf(pending_files) : StoredIn(i, v)'
  <1>1. Known /\ [Next]_vars => [Atomic]_vars
    <2> SUFFICES ASSUME Known, [Next]_vars, pending_files # <<>>, pending_files' = <<>>
                 PROVE  \/ crashes' # crashes
                        \/ \E v \in mounted_volumes' \ mounted_volumes :
                              \A i \in InodesOf(pending_files) : StoredIn(i, v)'
      OBVIOUS
    <2>0. PICK j : j \in InodesOf(pending_files)
      BY DEF Known, Inv, TypeOK, MemoryType, InodesOf
    <2>1. ASSUME NEW t \in Threads, Call(t) \/ Step(t)
          PROVE  \E v \in mounted_volumes' \ mounted_volumes :
                    \A i \in InodesOf(pending_files) : StoredIn(i, v)'
      <3>1. FinishPack(t)
        <4>1. j \notin InodesOf(pending_files)'
          BY DEF InodesOf
        <4> QED BY <2>0, <2>1, <4>1, PendingStays DEF Known
      <3> DEFINE v == volume_meta[t].volume_id
      <3>2. /\ v \in VolumeIds /\ v \notin mounted_volumes
            /\ \A i \in InodesOf(pending_files) : StoredIn(i, v)
        BY <2>0, <3>1, PackStores
      <3>3. \A i \in InodesOf(pending_files), w \in VolumeIds : StoredIn(i, w) => StoredIn(i, w)'
        BY KnownNext, KnownInodes, GrowNext, StoredStays
      <3>4. mounted_volumes' = mounted_volumes \cup {v}
        BY <3>1 DEF FinishPack
      <3>5. PICK w \in VolumeIds : w = v
        BY <3>2
      <3>6. \A i \in InodesOf(pending_files) : StoredIn(i, w)'
        BY <3>2, <3>3, <3>5
      <3> QED BY <3>2, <3>4, <3>5, <3>6
    <2>2. CASE Worker
      BY <2>2, WorkerFiles DEF Known, Worker
    <2>3. CASE Crash
      BY <2>3 DEF Crash, Known, Inv, TypeOK, HistoryType
    <2>4. CASE Stop \/ UNCHANGED vars
      BY <2>4 DEF Stop, vars, memVars
    <2> QED BY <2>1, <2>2, <2>3, <2>4 DEF Next
  <1> QED BY <1>1, KnownInvariance, PTL DEF Spec, PackAtomic

-----------------------------------------------------------------------------
(* What is mounted is cached, for a single caller without faults. *)

CachedAs(i, v) == file_metadata_cache[i] # None /\ file_metadata_cache[i].volume_id = v

RecordsIn(v) == IF images[v] = None THEN {} ELSE InodesOf(images[v].metas)

\* A pack has begun to write the image.
Imaging(v) == \E t \in Threads : pc[t] \in ImagedPcs /\ volume_meta[t].volume_id = v

\* No file is recorded in two images, or in one while it waits for a later pack.
RecordedOnce ==
    /\ \A v, w \in VolumeIds : v # w => RecordsIn(v) \cap RecordsIn(w) = {}
    /\ \A v \in VolumeIds : RecordsIn(v) \cap InodesOf(pending_files) # {} => Imaging(v)

\* The pending files are cached, without a place or with that of the pack in progress.
PendingCached ==
    \A i \in InodesOf(pending_files) :
       CachedAs(i, None) \/ \E v \in VolumeIds : Imaging(v) /\ CachedAs(i, v)

\* What a pack has recorded and what a mount has read is cached.
ImagingCached ==
    \A t \in Threads :
       LET v == volume_meta[t].volume_id
       IN pc[t] \in ImagedPcs => \A i \in RecordsIn(v) : CachedAs(i, v)

MountingCached ==
    \A t \in Threads :
       LET v == volume_meta[t].volume_id
       IN pc[t] = "mount" =>
             \A k \in DOMAIN images[v].metas :
                k < index[t] => CachedAs(images[v].metas[k].inode_id, v)

CacheFull == RecordedOnce /\ PendingCached /\ ImagingCached /\ MountingCached /\ MountedCached

\* A record that is new in an image is that of the file its pack has come to.
LEMMA RecordsStep ==
    ASSUME NEW t \in Threads, Known, Call(t) \/ Step(t), NEW v \in VolumeIds,
           NEW i \in RecordsIn(v)'
    PROVE  \/ i \in RecordsIn(v)
           \/ /\ WriteMeta(t) /\ v = volume_meta[t].volume_id
              /\ index[t] \in DOMAIN pending_files
              /\ i = pending_files[index[t]].inode_id
  <1>1. images'[v] # None /\ \E k \in DOMAIN images'[v].metas : i = images'[v].metas[k].inode_id
    BY DEF RecordsIn, InodesOf
  <1>2. CASE images'[v] = images[v]
    BY <1>1, <1>2 DEF RecordsIn, InodesOf
  <1>3. CASE images'[v] # images[v] /\ (WriteHeader(t) \/ WriteHeaderFails(t))
    <2>1. images'[v] = images[v] \/ images'[v].metas = <<>>
      BY <1>3 DEF WriteHeader, WriteHeaderFails, Known, Inv, TypeOK, DiskType
    <2> QED BY <1>1, <1>3, <2>1
  <1>4. CASE images'[v] # images[v] /\ WriteMeta(t)
    <2> DEFINE w == volume_meta[t].volume_id
    <2>1. v = w
      BY <1>4 DEF WriteMeta
    <2>2. pc[t] = "metas" /\ pc[t] \in ImagedPcs /\ pc[t] \in LockedPackPcs
      BY <1>4 DEF WriteMeta, ImagedPcs, LockedPackPcs
    <2>3. /\ images[w] \in Image /\ images'[w] \in Image
          /\ Len(images[w].metas) = index[t] - 1
          /\ Len(images'[w].metas) = index[t]
          /\ \A k \in DOMAIN images'[w].metas : images'[w].metas[k] = pending_files[k]
      BY <1>4, AppendEffect DEF Known
    <2>4. index[t] \in DOMAIN pending_files /\ index[t] \in Nat \ {0}
      BY <2>2, PackLocals DEF Known
    <2>5. PICK k \in DOMAIN images'[w].metas : i = images'[w].metas[k].inode_id
      BY <1>1, <2>1
    <2>6. k \in 1 .. index[t] /\ i = pending_files[k].inode_id
      <3>1. images'[w].metas \in Seq(FileRecord)
        BY <2>3 DEF Image
      <3> QED BY <2>3, <2>5, <3>1
    <2>7. CASE k = index[t]
      BY <1>4, <2>1, <2>4, <2>6, <2>7
    <2>8. CASE k # index[t]
      <3>1. images[w].metas \in Seq(FileRecord)
        BY <2>3 DEF Image
      <3>2. k \in DOMAIN images[w].metas
        BY <2>3, <2>4, <2>6, <2>8, <3>1
      <3>3. images[w].metas[k] = pending_files[k]
        BY <2>2, <3>2 DEF Known, Layout, ImagedAt
      <3>4. images[w] # None
        BY <2>3, NoneAssumption
      <3> QED BY <2>1, <2>6, <3>2, <3>3, <3>4 DEF RecordsIn, InodesOf
    <2> QED BY <2>7, <2>8
  <1> QED BY <1>2, <1>3, <1>4, ImagesEffect

LEMMA RecordsStay ==
    ASSUME ImageGrows, NEW v \in VolumeIds, NEW i \in RecordsIn(v)
    PROVE  i \in RecordsIn(v)'
  <1>1. images[v] # None /\ images'[v] # None
    BY DEF RecordsIn, ImageGrows
  <1>2. PICK k \in DOMAIN images[v].metas : i = images[v].metas[k].inode_id
    BY DEF RecordsIn, InodesOf
  <1>3. k \in DOMAIN images'[v].metas /\ images'[v].metas[k] = images[v].metas[k]
    BY <1>1 DEF ImageGrows
  <1> QED BY <1>1, <1>2, <1>3 DEF RecordsIn, InodesOf

\* The entry of a cached inode changes when it is pushed, placed or mounted, and goes
\* when its volume is unmounted.
LEMMA CachedStep ==
    ASSUME NEW t \in Threads, Known, Call(t) \/ Step(t), NEW i \in InodeIds, NEW v,
           CachedAs(i, v)
    PROVE  \/ CachedAs(i, v)'
           \/ PushFile(t) /\ i = tasks[t][index[t]].inode_id
           \/ /\ \/ WriteMeta(t) /\ i = pending_files[index[t]].inode_id
                 \/ /\ MountRecord(t)
                    /\ i \in RecordsIn(volume_meta[t].volume_id)
              /\ CachedAs(i, volume_meta[t].volume_id)'
           \/ Unmount(t) /\ v \in mounted_volumes /\ v \notin mounted_volumes'
  <1> USE NoneAssumption DEF Known, Inv, TypeOK, MemoryType
  <1>1. CASE file_metadata_cache'[i] = None
    <2>1. Unmount(t) \/ file_metadata_cache'[i] # None
      <3>1. CASE Call(t) /\ ~Unmount(t)
        BY <3>1 DEF CachedAs, Call, CallAdd, CallBatch, CallPack, CallMount, CallRead, memVars
      <3>2. CASE PushFile(t)
        <4>1. tasks[t][index[t]] \in FileTask
          BY <3>2, PushEffect
        <4>2. file_metadata_cache'[i] \in {file_metadata_cache[i],
                 [inode_id |-> tasks[t][index[t]].inode_id, path |-> tasks[t][index[t]].path,
                  volume_id |-> None, offset_in_volume |-> 0]}
          BY <3>2 DEF PushFile
        <4>3. [inode_id |-> tasks[t][index[t]].inode_id, path |-> tasks[t][index[t]].path,
               volume_id |-> None, offset_in_volume |-> 0] \in FileRecord
          BY <4>1 DEF FileTask, FileRecord
        <4> QED BY <4>2, <4>3 DEF CachedAs
      <3>3. CASE CollectStep(t) /\ ~PushFile(t)
        BY <3>3 DEF CachedAs, CollectStep, CompressFile, CompressFileFails, JoinCompress,
                    JoinCompressFails, CheckRoom, PushTooLarge, memVars
      <3>4. CASE WriteMeta(t)
        <4> DEFINE file == pending_files[index[t]]
                   j == file.inode_id
        <4>1. file_metadata_cache' \in [InodeIds -> FileRecord \cup {None}]
          BY MemoryStep
        <4>2. \/ file_metadata_cache' = file_metadata_cache
              \/ file_metadata_cache' =
                   [file_metadata_cache EXCEPT ![j].volume_id = file.volume_id,
                                               ![j].offset_in_volume = file.offset_in_volume]
          BY <3>4 DEF WriteMeta, CachePlace
        <4>3. pc[t] = "metas" /\ pc[t] \in LockedPackPcs
          BY <3>4 DEF WriteMeta, LockedPackPcs
        <4>4. file \in FileRecord
          BY <4>3, PackLocals
        <4>5. CASE i = j /\ file_metadata_cache' # file_metadata_cache
          <5>1. file_metadata_cache'[i] =
                   [file_metadata_cache[i] EXCEPT !.volume_id = file.volume_id,
                                                  !.offset_in_volume = file.offset_in_volume]
            BY <4>2, <4>5
          <5>2. file_metadata_cache[i] \in FileRecord
            BY DEF CachedAs
          <5>3. [file_metadata_cache[i] EXCEPT !.volume_id = file.volume_id,
                     !.offset_in_volume = file.offset_in_volume] \in FileRecord
            BY <4>4, <5>2 DEF FileRecord
          <5> QED BY <5>1, <5>3
        <4> QED BY <4>2, <4>5 DEF CachedAs
      <3>5. CASE PackStep(t) /\ ~WriteMeta(t)
        BY <3>5 DEF CachedAs, PackStep, LockPack, NothingToPack, PlanVolume, PlaceFile,
                    WriteHeader, WriteHeaderFails, WriteMetaFails, ReadTemps, ReadTempsFails,
                    JoinWrites, JoinWritesFails, FinishPack, memVars
      <3>6. CASE MountRecord(t)
        <4> DEFINE w == volume_meta[t].volume_id
        <4>1. /\ pc[t] = "mount" /\ index[t] <= Len(images[w].metas)
              /\ file_metadata_cache' =
                   [file_metadata_cache EXCEPT ![images[w].metas[index[t]].inode_id] =
                        images[w].metas[index[t]]]
          BY <3>6 DEF MountRecord
        <4>2. images[w].metas \in Seq(FileRecord)
          BY <4>1 DEF DiskType, Image, LocalsType, LocalsReady, LocalsReadyAt, VolumeRecord
        <4>3. images[w].metas[index[t]] \in FileRecord
          BY <4>1, <4>2 DEF LocalsType
        <4> QED BY <4>1, <4>3 DEF CachedAs
      <3>7. CASE MountReadStep(t) /\ ~MountRecord(t)
        BY <3>7 DEF CachedAs, MountReadStep, MountRecordFails, FinishMount, ReadImage,
                    ReadImageFails, FillOutput, FillOutputFails, memVars
      <3> QED BY <3>1, <3>2, <3>3, <3>4, <3>5, <3>6, <3>7 DEF Step
    <2>2. Unmount(t)
      BY <1>1, <2>1
    <2>3. PICK w \in mounted_volumes :
            /\ file_metadata_cache' =
                  [j \in InodeIds |->
                     IF file_metadata_cache[j] # None /\ file_metadata_cache[j].volume_id = w
                     THEN None ELSE file_metadata_cache[j]]
            /\ mounted_volumes' = mounted_volumes \ {w}
      BY <2>2 DEF Unmount
    <2>4. v = w
      BY <1>1, <2>3 DEF CachedAs
    <2> QED BY <2>2, <2>3, <2>4
  <1>2. CASE file_metadata_cache'[i] # None
    <2>1. CASE file_metadata_cache'[i] = file_metadata_cache[i]
      BY <2>1 DEF CachedAs
    <2>2. CASE WriteMeta(t) /\ pending_files[index[t]].inode_id = i
               /\ file_metadata_cache'[i] =
                    [file_metadata_cache[i] EXCEPT
                        !.volume_id = pending_files[index[t]].volume_id,
                        !.offset_in_volume = pending_files[index[t]].offset_in_volume]
      <3>1. pc[t] = "metas" /\ pc[t] \in LockedPackPcs
        BY <2>2 DEF WriteMeta, LockedPackPcs
      <3>2. index[t] \in DOMAIN pending_files
        BY <3>1, PackLocals
      <3>3. pending_files[index[t]].volume_id = volume_meta[t].volume_id
        BY <3>1, <3>2 DEF Layout, PlannedAt
      <3>4. file_metadata_cache[i] \in FileRecord
        BY DEF CachedAs
      <3>5. file_metadata_cache'[i].volume_id = pending_files[index[t]].volume_id
        BY <2>2, <3>4 DEF FileRecord
      <3>6. volume_meta' = volume_meta
        BY <2>2 DEF WriteMeta
      <3> QED BY <1>2, <2>2, <3>3, <3>5, <3>6 DEF CachedAs
    <2>3. CASE PushFile(t) /\ tasks[t][index[t]].inode_id = i
      BY <2>3
    <2>4. CASE /\ MountRecord(t)
               /\ index[t] \in DOMAIN images[volume_meta[t].volume_id].metas
               /\ images[volume_meta[t].volume_id].metas[index[t]].inode_id = i
               /\ file_metadata_cache'[i] = images[volume_meta[t].volume_id].metas[index[t]]
      <3>1. pc[t] = "mount" /\ volume_meta[t].volume_id \in VolumeIds
            /\ images[volume_meta[t].volume_id] # None
        BY <2>4 DEF MountRecord, LocalsReady, LocalsReadyAt, LocalsType, VolumeRecord
      <3>2. file_metadata_cache'[i].volume_id = volume_meta[t].volume_id
        BY <2>4, <3>1 DEF Layout, ImageSound
      <3>3. i \in RecordsIn(volume_meta[t].volume_id)
        BY <2>4, <3>1 DEF RecordsIn, InodesOf
      <3>4. volume_meta' = volume_meta
        BY <2>4 DEF MountRecord
      <3> QED BY <1>2, <2>4, <3>2, <3>3, <3>4 DEF CachedAs
    <2> QED BY <1>2, <2>1, <2>2, <2>3, <2>4, CacheStep
  <1> QED BY <1>1, <1>2

\* A record written is placed in the cache, a record mounted is put there.
LEMMA PlacedAs ==
    ASSUME NEW t \in Threads, Known, WriteMeta(t), NEW i, i = pending_files[index[t]].inode_id,
           file_metadata_cache[i] # None, NEW v, v = volume_meta[t].volume_id
    PROVE  CachedAs(i, v)'
  <1> DEFINE file == pending_files[index[t]]
  <1>1. pc[t] = "metas" /\ pc[t] \in LockedPackPcs
    BY DEF WriteMeta, LockedPackPcs
  <1>2. file \in FileRecord /\ file.volume_id = v
    BY <1>1, PackLocals DEF Known, Layout, PlannedAt
  <1>3. i \in InodeIds
    BY <1>2 DEF FileRecord
  <1>4. file_metadata_cache[i] \in FileRecord
    BY <1>3 DEF Known, Inv, TypeOK, MemoryType
  <1>5. file_metadata_cache'[i] =
           [file_metadata_cache[i] EXCEPT !.volume_id = file.volume_id,
                                          !.offset_in_volume = file.offset_in_volume]
    BY <1>3 DEF WriteMeta, CachePlace, Known, Inv, TypeOK, MemoryType
  <1> HIDE DEF file
  <1>6. file_metadata_cache'[i] \in FileRecord /\ file_metadata_cache'[i].volume_id = v
    BY <1>2, <1>4, <1>5 DEF FileRecord
  <1> QED BY <1>6, NoneAssumption DEF CachedAs

LEMMA MountedAs ==
    ASSUME NEW t \in Threads, Known, MountRecord(t), NEW v, v = volume_meta[t].volume_id,
           NEW i, i = images[v].metas[index[t]].inode_id
    PROVE  CachedAs(i, v)'
  <1> USE DEF Known, Inv, TypeOK, LocalsType
  <1>1. /\ pc[t] = "mount" /\ index[t] <= Len(images[v].metas)
        /\ file_metadata_cache' =
             [file_metadata_cache EXCEPT ![images[v].metas[index[t]].inode_id] =
                  images[v].metas[index[t]]]
        /\ images' = images
    BY DEF MountRecord, diskVars
  <1>2. v \in VolumeIds /\ images[v] # None
    BY <1>1 DEF LocalsReady, LocalsReadyAt, VolumeRecord
  <1>3. images[v].metas \in Seq(FileRecord)
    BY <1>2 DEF DiskType, Image
  <1>4. index[t] \in DOMAIN images[v].metas
    BY <1>1, <1>3
  <1>5. images[v].metas[index[t]] \in FileRecord
    BY <1>3, <1>4
  <1>6. images[v].metas[index[t]].volume_id = v
    BY <1>2, <1>4 DEF Layout, ImageSound
  <1>7. i \in InodeIds
    BY <1>5 DEF FileRecord
  <1>8. file_metadata_cache'[i] = images[v].metas[index[t]]
    BY <1>1, <1>7 DEF MemoryType
  <1> QED BY <1>5, <1>6, <1>8, NoneAssumption DEF CachedAs

\* A file that is pushed was neither pending nor recorded before.
LEMMA PushedNew ==
    ASSUME NEW t \in Threads, Known, PushFile(t), NEW i, i = tasks[t][index[t]].inode_id
    PROVE  /\ i \in InodeIds /\ i \notin InodesOf(pending_files)
           /\ \A v \in VolumeIds : i \notin RecordsIn(v)
           /\ CachedAs(i, None)'
  <1> USE DEF Known, Inv, TypeOK
  <1>1. index[t] \in Unpushed(t) /\ tasks[t][index[t]] \in FileTask
    BY PushedOnce, PushEffect DEF Staging
  <1>2. i \in InodeIds /\ ~Seen(i)
    BY <1>1 DEF Staging, IdsOwned, FileTask
  <1>3. \A v \in VolumeIds : i \notin RecordsIn(v)
    BY <1>2 DEF Seen, RecordsIn
  <1> DEFINE file == [inode_id |-> i, path |-> tasks[t][index[t]].path,
                      volume_id |-> None, offset_in_volume |-> 0]
  <1>4. file \in FileRecord /\ file.volume_id = None
    BY <1>1, <1>2 DEF FileTask, FileRecord
  <1>5. file_metadata_cache'[i] = file
    BY <1>2 DEF PushFile, MemoryType
  <1> HIDE DEF file
  <1> QED BY <1>2, <1>3, <1>4, <1>5, NoneAssumption DEF Seen, CachedAs

LEMMA PendingIdsStep ==
    ASSUME NEW t \in Threads, Inv, Call(t) \/ Step(t), NEW i \in InodesOf(pending_files)'
    PROVE  /\ ~FinishPack(t)
           /\ \/ i \in InodesOf(pending_files)
              \/ PushFile(t) /\ i = tasks[t][index[t]].inode_id
  <1>1. PICK k \in DOMAIN pending_files' : i = pending_files'[k].inode_id
    BY DEF InodesOf
  <1>2. CASE PushFile(t)
    <2>1. ~FinishPack(t)
      BY <1>2 DEF PushFile, FinishPack
    <2>2. CASE k \in DOMAIN pending_files
      BY <1>1, <1>2, <2>1, <2>2, PushEffect DEF InodesOf
    <2>3. CASE k \notin DOMAIN pending_files
      <3> DEFINE task == tasks[t][index[t]]
                 file == [inode_id |-> task.inode_id, path |-> task.path,
                          volume_id |-> None, offset_in_volume |-> 0]
      <3>1. /\ DOMAIN pending_files' = DOMAIN pending_files \cup {Len(pending_files) + 1}
            /\ pending_files'[Len(pending_files) + 1] = file
        BY <1>2, PushEffect
      <3>2. file.inode_id = task.inode_id
        OBVIOUS
      <3> HIDE DEF file
      <3>3. i = task.inode_id
        BY <1>1, <2>3, <3>1, <3>2
      <3> QED BY <1>2, <2>1, <3>3
    <2> QED BY <2>2, <2>3
  <1>3. CASE ~PushFile(t)
    <2>1. k \in DOMAIN pending_files /\ i = pending_files[k].inode_id
      BY <1>1, <1>3, PendingStep
    <2>2. ~FinishPack(t)
      BY <1>1 DEF FinishPack, ClearPending
    <2> QED BY <2>1, <2>2 DEF InodesOf
  <1> QED BY <1>2, <1>3

\* With one caller and no fault a pack that has begun its image ends well.
LEMMA ImagingStep ==
    ASSUME NEW t \in Threads, SingleCaller, MaxFaults = 0, Known, failed = {},
           Call(t) \/ Step(t), ~FinishPack(t), NEW v, Imaging(v)
    PROVE  /\ WriteMeta(t) \/ ReadTemps(t) \/ JoinWrites(t)
           /\ v = volume_meta[t].volume_id /\ volume_meta' = volume_meta
           /\ Imaging(v)'
  <1>1. pc[t] \in ImagedPcs /\ volume_meta[t].volume_id = v
    BY DEF SingleCaller, Imaging
  <1>2. WriteMeta(t) \/ ReadTemps(t) \/ JoinWrites(t)
    <2>1. ~Call(t)
      BY <1>1 DEF ImagedPcs, Call, CallAdd, CallBatch, CallPack, CallMount, CallRead, Unmount,
                  Begin
    <2>2. ~CollectStep(t)
      BY <1>1 DEF ImagedPcs, CollectStep, CompressFile, CompressFileFails, JoinCompress,
                  JoinCompressFails, CheckRoom, PushFile, PushTooLarge
    <2>3. ~MountReadStep(t)
      BY <1>1 DEF ImagedPcs, MountReadStep, MountRecord, MountRecordFails, FinishMount,
                  ReadImage, ReadImageFails, FillOutput, FillOutputFails
    <2>4. ~(LockPack(t) \/ NothingToPack(t) \/ PlanVolume(t) \/ PlaceFile(t) \/ WriteHeader(t))
      BY <1>1 DEF ImagedPcs, LockPack, NothingToPack, PlanVolume, PlaceFile, WriteHeader
    <2> QED BY <2>1, <2>2, <2>3, <2>4, NoFaultStep DEF Known, Step, PackStep
  <1>3. volume_meta' = volume_meta /\ pc'[t] \in ImagedPcs
    BY <1>1, <1>2 DEF WriteMeta, ReadTemps, JoinWrites, NextFile, Goto, ImagedPcs, packVars,
                      Known, Inv, TypeOK, LocalsType
  <1> QED BY <1>1, <1>2, <1>3 DEF Imaging

LEMMA RecordedOnceStep ==
    ASSUME NEW t \in Threads, SingleCaller, MaxFaults = 0, Known, failed = {},
           Call(t) \/ Step(t), RecordedOnce
    PROVE  RecordedOnce'
  <1>1. ASSUME NEW v \in VolumeIds, NEW i \in InodesOf(pending_files), i \in RecordsIn(v)
        PROVE  Imaging(v)
    BY <1>1 DEF RecordedOnce
  <1>2. ASSUME NEW v \in VolumeIds, NEW w \in VolumeIds, v # w,
               NEW i \in RecordsIn(v)', i \in RecordsIn(w)'
        PROVE  FALSE
    <2>1. ASSUME NEW x \in VolumeIds, WriteMeta(t), NEW y \in VolumeIds, x # y,
                 y = volume_meta[t].volume_id,
                 index[t] \in DOMAIN pending_files, i = pending_files[index[t]].inode_id
          PROVE  i \notin RecordsIn(x)
      <3>1. i \in InodesOf(pending_files)
        BY <2>1 DEF InodesOf
      <3>2. ~FinishPack(t)
        BY <2>1 DEF WriteMeta, FinishPack
      <3> QED BY <1>1, <2>1, <3>1, <3>2, ImagingStep
    <2>2. ~(i \in RecordsIn(v) /\ i \in RecordsIn(w))
      BY <1>2 DEF RecordedOnce
    <2> QED BY <1>2, <2>1, <2>2, RecordsStep
  <1>3. ASSUME NEW v \in VolumeIds, NEW i \in RecordsIn(v)', i \in InodesOf(pending_files)'
        PROVE  Imaging(v)'
    <2>1. ~FinishPack(t)
      BY <1>3, PendingIdsStep DEF Known
    <2>2. Imaging(v)
      <3>1. CASE i \in RecordsIn(v)
        <4>1. i \in InodesOf(pending_files)
          BY <1>3, <3>1, PendingIdsStep, PushedNew DEF Known
        <4> QED BY <1>1, <3>1, <4>1
      <3>2. CASE WriteMeta(t) /\ v = volume_meta[t].volume_id
        BY <3>2 DEF WriteMeta, Imaging, ImagedPcs
      <3> QED BY <3>1, <3>2, RecordsStep
    <2> QED BY <2>1, <2>2, ImagingStep
  <1>4. \A v, w \in VolumeIds : v # w => RecordsIn(v)' \cap RecordsIn(w)' = {}
    BY <1>2
  <1>5. \A v \in VolumeIds : RecordsIn(v)' \cap InodesOf(pending_files)' # {} => Imaging(v)'
    BY <1>3
  <1> QED BY <1>4, <1>5 DEF RecordedOnce

LEMMA PendingCachedStep ==
    ASSUME NEW t \in Threads, SingleCaller, MaxFaults = 0, Known, failed = {},
           Call(t) \/ Step(t), RecordedOnce, PendingCached
    PROVE  PendingCached'
  <1>1. ASSUME NEW i \in InodesOf(pending_files)'
        PROVE  CachedAs(i, None)' \/ \E v \in VolumeIds : Imaging(v)' /\ CachedAs(i, v)'
    <2>1. ~FinishPack(t)
      BY PendingIdsStep DEF Known
    <2>2. CASE i \in InodesOf(pending_files)
      <3>1. PICK v : CachedAs(i, v) /\ (v = None \/ (v \in VolumeIds /\ Imaging(v)))
        BY <2>2 DEF PendingCached
      <3>2. i \in InodeIds
        BY <2>2, KnownInodes
      <3>3. CASE CachedAs(i, v)'
        BY <2>1, <3>1, <3>3, ImagingStep
      <3>4. CASE PushFile(t) /\ i = tasks[t][index[t]].inode_id
        BY <3>4, PushedNew
      <3>5. CASE WriteMeta(t) /\ i = pending_files[index[t]].inode_id
        <4>1. PICK w : w = volume_meta[t].volume_id
          OBVIOUS
        <4>2. file_metadata_cache[i] # None
          BY <3>1 DEF CachedAs
        <4>3. CachedAs(i, w)'
          BY <3>5, <4>1, <4>2, PlacedAs
        <4>4. Imaging(w)
          BY <3>5, <4>1 DEF WriteMeta, Imaging, ImagedPcs
        <4>5. Imaging(w)'
          BY <2>1, <4>4, ImagingStep
        <4>6. w \in VolumeIds
          <5>1. pc[t] \in LockedPackPcs
            BY <3>5 DEF WriteMeta, LockedPackPcs
          <5> QED BY <4>1, <5>1, PackLocals DEF Known
        <4> QED BY <4>3, <4>5, <4>6
      <3>6. CASE MountRecord(t) /\ i \in RecordsIn(volume_meta[t].volume_id)
        <4>1. pc[t] = "mount" /\ volume_meta[t].volume_id \in VolumeIds
          BY <3>6 DEF MountRecord, Known, Inv, TypeOK, LocalsType, LocalsReady, LocalsReadyAt,
                      VolumeRecord
        <4>2. Imaging(volume_meta[t].volume_id)
          BY <2>2, <3>6, <4>1 DEF RecordedOnce
        <4> QED BY <4>1, <4>2 DEF SingleCaller, Imaging, ImagedPcs
      <3>7. CASE Unmount(t) /\ v \in mounted_volumes
        <4>1. v # None /\ pc[t] = "idle"
          BY <3>7, IdsAssumption DEF Known, Inv, TypeOK, MemoryType, Unmount, Begin
        <4> QED BY <3>1, <4>1 DEF SingleCaller, Imaging, ImagedPcs
      <3> QED BY <3>1, <3>2, <3>3, <3>4, <3>5, <3>6, <3>7, CachedStep
    <2>3. CASE PushFile(t) /\ i = tasks[t][index[t]].inode_id
      BY <2>3, PushedNew
    <2> QED BY <2>2, <2>3, PendingIdsStep DEF Known
  <1> QED BY <1>1 DEF PendingCached

LEMMA ImagingCachedStep ==
    ASSUME NEW t \in Threads, SingleCaller, MaxFaults = 0, Known, failed = {},
           Call(t) \/ Step(t), RecordedOnce, PendingCached, ImagingCached
    PROVE  ImagingCached'
  <1>1. ASSUME pc'[t] \in ImagedPcs, NEW v, v = volume_meta'[t].volume_id,
               NEW i \in RecordsIn(v)'
        PROVE  CachedAs(i, v)'
    <2>1. pc'[t] \in LockedPackPcs
      BY <1>1 DEF ImagedPcs, LockedPackPcs
    <2>2. v \in VolumeIds
      <3>1. Inv'
        BY ThreadInv DEF Known
      <3>2. volume_meta'[t] # None /\ volume_meta' \in [Threads -> VolumeRecord \cup {None}]
        BY <2>1, <3>1 DEF Inv, TypeOK, LocalsType, LocalsReady, LocalsReadyAt
      <3>3. volume_meta'[t] \in VolumeRecord
        BY <3>2
      <3> QED BY <1>1, <3>3 DEF VolumeRecord
    <2>3. CASE WriteHeader(t)
      <3>1. volume_meta' = volume_meta /\ images'[v].metas = <<>>
        BY <1>1, <2>2, <2>3 DEF WriteHeader, packVars, Known, Inv, TypeOK, DiskType
      <3> QED BY <1>1, <3>1 DEF RecordsIn, InodesOf
    <2>4. CASE WriteMeta(t) \/ ReadTemps(t) \/ JoinWrites(t)
      <3>1. /\ pc[t] \in ImagedPcs /\ v = volume_meta[t].volume_id
            /\ ~Unmount(t) /\ ~MountRecord(t) /\ ~PushFile(t)
        BY <1>1, <2>4 DEF WriteMeta, ReadTemps, JoinWrites, ImagedPcs, packVars, Unmount, Begin,
                          MountRecord, PushFile
      <3>2. CASE i \in RecordsIn(v)
        <4>1. CachedAs(i, v)
          BY <3>1, <3>2 DEF ImagingCached
        <4>2. i \in InodeIds
          BY <2>2, <3>2, KnownInodes DEF RecordsIn, InodesOf
        <4>3. CASE WriteMeta(t) /\ i = pending_files[index[t]].inode_id
          BY <3>1, <4>1, <4>3, PlacedAs DEF CachedAs
        <4> QED BY <3>1, <4>1, <4>2, <4>3, CachedStep
      <3>3. CASE /\ WriteMeta(t) /\ index[t] \in DOMAIN pending_files
                 /\ i = pending_files[index[t]].inode_id
        <4>1. i \in InodesOf(pending_files)
          BY <3>3 DEF InodesOf
        <4>2. file_metadata_cache[i] # None
          BY <4>1 DEF PendingCached, CachedAs
        <4> QED BY <3>1, <3>3, <4>2, PlacedAs
      <3> QED BY <1>1, <2>2, <3>2, <3>3, RecordsStep
    <2>5. CASE PlanVolume(t) \/ PlaceFile(t)
      BY <1>1, <2>5 DEF PlanVolume, PlaceFile, NextFile, Goto, ImagedPcs, Known, Inv, TypeOK,
                        LocalsType
    <2> QED BY <2>1, <2>3, <2>4, <2>5, PackPcStep DEF Known
  <1> QED BY <1>1 DEF SingleCaller, ImagingCached

LEMMA MountingCachedStep ==
    ASSUME NEW t \in Threads, SingleCaller, Known, Call(t) \/ Step(t), MountingCached
    PROVE  MountingCached'
  <1>1. ASSUME pc'[t] = "mount", NEW v, v = volume_meta'[t].volume_id,
               NEW k \in DOMAIN images'[v].metas, k < index'[t]
        PROVE  CachedAs(images[v].metas[k].inode_id, v)'
    <2>1. CASE CallMount(t)
      <3>1. index'[t] = 1
        BY <2>1, CallMountEffect DEF Known
      <3>2. images'[v].metas \in Seq(FileRecord)
        <4>1. pc'[t] = "mount" /\ Inv'
          BY <1>1, NextInv, ThreadInv DEF Known
        <4>2. volume_meta'[t] \in VolumeRecord /\ images'[v] # None
          BY <1>1, <4>1 DEF Inv, TypeOK, LocalsType, LocalsReady, LocalsReadyAt
        <4> QED BY <1>1, <4>1, <4>2 DEF VolumeRecord, Inv, TypeOK, DiskType, Image
      <3> QED BY <1>1, <3>1, <3>2
    <2>2. CASE MountRecord(t)
      <3>1. /\ pc[t] = "mount" /\ v = volume_meta[t].volume_id
            /\ UNCHANGED images /\ index' = [index EXCEPT ![t] = @ + 1]
            /\ ~Unmount(t) /\ ~WriteMeta(t) /\ ~PushFile(t)
        BY <1>1, <2>2 DEF MountRecord, diskVars, Unmount, Begin, WriteMeta, PushFile
      <3>2. v \in VolumeIds /\ images[v] # None
        BY <3>1 DEF Known, Inv, TypeOK, LocalsType, LocalsReady, LocalsReadyAt, VolumeRecord
      <3>3. images[v].metas \in Seq(FileRecord) /\ index[t] \in Nat
        BY <3>2 DEF Known, Inv, TypeOK, DiskType, LocalsType, Image
      <3>4. PICK i : i = images[v].metas[k].inode_id
        OBVIOUS
      <3>5. k \in DOMAIN images[v].metas
        BY <1>1, <3>1
      <3>6. CASE k = index[t]
        BY <2>2, <3>1, <3>4, <3>6, MountedAs
      <3>7. CASE k # index[t]
        <4>1. k < index[t]
          <5>1. index'[t] = index[t] + 1 /\ k \in Nat
            BY <3>1, <3>3, <3>5 DEF Known, Inv, TypeOK, LocalsType
          <5> QED BY <1>1, <3>3, <3>7, <5>1
        <4>2. CachedAs(i, v) /\ i \in InodeIds
          BY <3>1, <3>2, <3>4, <3>5, <4>1, KnownInodes DEF MountingCached
        <4>3. volume_meta' = volume_meta
          BY <2>2 DEF MountRecord
        <4>4. CachedAs(i, v)'
          BY <3>1, <4>2, <4>3, CachedStep DEF CachedAs
        <4> QED BY <3>1, <3>4, <4>4
      <3> QED BY <3>6, <3>7
    <2> QED BY <1>1, <2>1, <2>2, MountPcStep DEF Known
  <1> QED BY <1>1 DEF SingleCaller, MountingCached

LEMMA MountedCachedStep ==
    ASSUME NEW t \in Threads, SingleCaller, MaxFaults = 0, Known, failed = {}, MountsSound,
           Call(t) \/ Step(t), RecordedOnce, PendingCached, ImagingCached, MountingCached,
           MountedCached
    PROVE  MountedCached'
  <1>1. ASSUME NEW v \in mounted_volumes', NEW i \in RecordsIn(v)'
        PROVE  CachedAs(i, v)'
    <2>1. CASE v \in mounted_volumes
      <3>1. v \in VolumeIds /\ images[v] # None
        BY <2>1 DEF Known, Inv, TypeOK, MemoryType, ImagesPresent
      <3>2. ~(WriteMeta(t) /\ v = volume_meta[t].volume_id)
        BY <2>1 DEF Known, Layout, PlannedAt, WriteMeta, LockedPackPcs
      <3>3. i \in RecordsIn(v)
        BY <1>1, <3>1, <3>2, RecordsStep
      <3>4. CachedAs(i, v) /\ i \in InodeIds
        <4>1. PICK k \in DOMAIN images[v].metas : i = images[v].metas[k].inode_id
          BY <3>1, <3>3 DEF RecordsIn, InodesOf
        <4> QED BY <2>1, <3>1, <4>1, KnownInodes DEF MountedCached, CachedAs
      <3>5. ~(PushFile(t) /\ i = tasks[t][index[t]].inode_id)
        BY <3>1, <3>3, PushedNew
      <3>6. ~(WriteMeta(t) /\ i = pending_files[index[t]].inode_id)
        <4> SUFFICES ASSUME WriteMeta(t), i = pending_files[index[t]].inode_id
                     PROVE  FALSE
          OBVIOUS
        <4>1. pc[t] = "metas" /\ pc[t] \in LockedPackPcs /\ ~FinishPack(t)
          BY DEF WriteMeta, LockedPackPcs, FinishPack
        <4>2. i \in InodesOf(pending_files)
          BY <4>1, PackLocals DEF Known, InodesOf
        <4>3. Imaging(v)
          BY <3>1, <3>3, <4>2 DEF RecordedOnce
        <4> QED BY <3>2, <4>1, <4>3, ImagingStep
      <3>7. CASE MountRecord(t) /\ i \in RecordsIn(volume_meta[t].volume_id)
                 /\ CachedAs(i, volume_meta[t].volume_id)'
        <4>1. volume_meta[t].volume_id \in VolumeIds /\ volume_meta' = volume_meta
          BY <3>7 DEF MountRecord, Known, Inv, TypeOK, LocalsType, LocalsReady, LocalsReadyAt,
                      VolumeRecord
        <4>2. v = volume_meta[t].volume_id
          BY <3>1, <3>3, <3>7, <4>1 DEF RecordedOnce
        <4> QED BY <3>7, <4>1, <4>2 DEF CachedAs
      <3> QED BY <1>1, <3>4, <3>5, <3>6, <3>7, CachedStep
    <2>2. CASE v \notin mounted_volumes
      <3>1. v = volume_meta[t].volume_id /\ (FinishPack(t) \/ FinishMount(t))
        BY <2>2, InsertStep DEF Known
      <3>2. UNCHANGED <<images, file_metadata_cache>>
        BY <3>1 DEF FinishPack, FinishMount, diskVars
      <3>3. v \in VolumeIds /\ images[v] # None /\ Whole(images[v])
        BY <3>1, EndsWhole
      <3>4. CASE FinishPack(t)
        <4>1. pc[t] \in ImagedPcs
          BY <3>4 DEF FinishPack, ImagedPcs
        <4>2. i \in RecordsIn(v)
          BY <1>1, <3>2 DEF RecordsIn
        <4>3. CachedAs(i, v)
          BY <3>1, <4>1, <4>2 DEF ImagingCached
        <4> QED BY <3>2, <4>3 DEF CachedAs
      <3>5. CASE FinishMount(t)
        <4>1. pc[t] = "mount" /\ index[t] > volume_meta[t].file_count
          BY <3>5 DEF FinishMount
        <4>2. Len(images[v].metas) = volume_meta[t].file_count
          BY <3>1, <3>3, <4>1 DEF MountsSound, MountAt, Whole
        <4>3. PICK k \in DOMAIN images[v].metas : i = images[v].metas[k].inode_id
          BY <1>1, <3>2, <3>3 DEF RecordsIn, InodesOf
        <4>4. k < index[t]
          <5>1. images[v].metas \in Seq(FileRecord) /\ index[t] \in Nat
            BY <3>3 DEF Known, Inv, TypeOK, DiskType, Image, LocalsType
          <5> QED BY <4>1, <4>2, <4>3, <5>1
        <4>5. CachedAs(i, v)
          BY <3>1, <4>1, <4>3, <4>4 DEF MountingCached
        <4> QED BY <3>2, <4>5 DEF CachedAs
      <3> QED BY <3>1, <3>4, <3>5
    <2> QED BY <2>1, <2>2
  <1>2. \A v \in mounted_volumes' : images'[v] # None
    BY MountedStep DEF Known
  <1> QED BY <1>1, <1>2 DEF MountedCached, CachedAs, RecordsIn, InodesOf

LEMMA CacheFullWorker ==
    ASSUME NEW task \in pool, Inv, RunTask(task), CacheFull
    PROVE  CacheFull'
  <1>1. UNCHANGED <<pending_files, file_metadata_cache, mounted_volumes, pc, index, volume_meta>>
    BY WorkerFiles
  <1>2. \A v \in VolumeIds : /\ images'[v] # None <=> images[v] # None
                             /\ images[v] # None => images'[v].metas = images[v].metas
    BY WorkerFiles
  <1>3. \A v \in VolumeIds : RecordsIn(v)' = RecordsIn(v)
    BY <1>2 DEF RecordsIn
  <1>4. \A v : Imaging(v)' <=> Imaging(v)
    BY <1>1 DEF Imaging
  <1>5. \A i, v : CachedAs(i, v)' <=> CachedAs(i, v)
    BY <1>1 DEF CachedAs
  <1>6. RecordedOnce'
    BY <1>1, <1>3, <1>4 DEF CacheFull, RecordedOnce
  <1>7. PendingCached'
    BY <1>1, <1>4, <1>5 DEF CacheFull, PendingCached
  <1>8. ImagingCached'
    <2>1. ASSUME NEW t \in Threads, pc[t] \in ImagedPcs
          PROVE  volume_meta[t].volume_id \in VolumeIds
      BY <2>1 DEF Inv, TypeOK, LocalsType, LocalsReady, LocalsReadyAt, LockedPackPcs, ImagedPcs,
                  VolumeRecord
    <2> QED BY <1>1, <1>3, <1>5, <2>1 DEF CacheFull, ImagingCached
  <1>9. MountingCached'
    <2>1. ASSUME NEW t \in Threads, pc[t] = "mount"
          PROVE  /\ volume_meta[t].volume_id \in VolumeIds
                 /\ images[volume_meta[t].volume_id] # None
      BY <2>1 DEF Inv, TypeOK, LocalsType, LocalsReady, LocalsReadyAt, VolumeRecord
    <2> QED BY <1>1, <1>2, <1>5, <2>1 DEF CacheFull, MountingCached
  <1>10. MountedCached'
    <2>1. \A v \in mounted_volumes : v \in VolumeIds /\ images[v] # None
      BY DEF Inv, TypeOK, MemoryType, ImagesPresent
    <2> QED BY <1>1, <1>2, <2>1 DEF CacheFull, MountedCached
  <1> QED BY <1>6, <1>7, <1>8, <1>9, <1>10 DEF CacheFull

LEMMA CacheFullCrash ==
    ASSUME CacheFull, Crash
    PROVE  CacheFull'
  <1>1. /\ pending_files' = <<>> /\ mounted_volumes' = {} /\ images' = images
        /\ \A t \in Threads : pc'[t] = "idle"
    BY DEF Crash, diskVars
  <1>2. InodesOf(pending_files)' = {}
    BY <1>1 DEF InodesOf
  <1> QED BY <1>1, <1>2 DEF CacheFull, RecordedOnce, RecordsIn, PendingCached, ImagingCached,
                            MountingCached, MountedCached, ImagedPcs

LEMMA CacheFullInit == Init => CacheFull
  <1> SUFFICES ASSUME Init
               PROVE  CacheFull
    OBVIOUS
  <1>1. /\ pending_files = <<>> /\ mounted_volumes = {}
        /\ \A v \in VolumeIds : images[v] = None
        /\ \A t \in Threads : pc[t] = "idle"
    BY DEF Init
  <1>2. InodesOf(pending_files) = {}
    BY <1>1 DEF InodesOf
  <1> QED BY <1>1, <1>2 DEF CacheFull, RecordedOnce, RecordsIn, PendingCached, ImagingCached,
                            MountingCached, MountedCached, ImagedPcs

LEMMA CacheFullNext ==
    ASSUME SingleCaller, MaxFaults = 0, Known, MountsSound, failed = {}, CacheFull, [Next]_vars
    PROVE  CacheFull'
  <1>1. CASE \E t \in Threads : Call(t) \/ Step(t)
    BY <1>1, RecordedOnceStep, PendingCachedStep, ImagingCachedStep, MountingCachedStep,
       MountedCachedStep DEF CacheFull
  <1>2. CASE Worker
    BY <1>2, CacheFullWorker DEF Worker, Known
  <1>3. CASE Crash
    BY <1>3, CacheFullCrash
  <1>4. CASE Stop \/ UNCHANGED vars
    <2>1. /\ pending_files' = pending_files /\ file_metadata_cache' = file_metadata_cache
          /\ mounted_volumes' = mounted_volumes /\ images' = images /\ pc' = pc
          /\ volume_meta' = volume_meta /\ index' = index
      BY <1>4 DEF Stop, vars, memVars, diskVars, packVars
    <2>2. RecordedOnce'
      <3>1. InodesOf(pending_files)' = InodesOf(pending_files)
        BY <2>1 DEF InodesOf
      <3>2. ASSUME NEW v
            PROVE  RecordsIn(v)' = RecordsIn(v) /\ Imaging(v)' = Imaging(v)
        BY <2>1 DEF RecordsIn, InodesOf, Imaging
      <3> QED BY <3>1, <3>2 DEF CacheFull, RecordedOnce
    <2>3. PendingCached'
      BY <2>1 DEF CacheFull, PendingCached, CachedAs, InodesOf, Imaging
    <2>4. ImagingCached'
      BY <2>1 DEF CacheFull, ImagingCached, CachedAs, RecordsIn, InodesOf
    <2>5. MountingCached' /\ MountedCached'
      BY <2>1 DEF CacheFull, MountingCached, MountedCached, CachedAs
    <2> QED BY <2>2, <2>3, <2>4, <2>5 DEF CacheFull
  <1> QED BY <1>1, <1>2, <1>3, <1>4 DEF Next

\* With one caller, no repeated id and no failing file operation, every record of a mounted
\* volume is in the cache, however adds, batches, packs, mounts, unmounts, reads and
\* crashes follow each other: no mount takes an inode from another volume or from a
\* pending file.  Two callers, or a pack that fails and is tried again, part the two.
THEOREM MountedReadable ==
    ASSUME FreshIds, SingleCaller, MaxFaults = 0
    PROVE  Spec => []MountedCached
  <1> DEFINE Clean == failed = {}
  <1>1. Known /\ Contents /\ Clean /\ CacheFull /\ [Next]_vars => CacheFull'
    BY CacheFullNext DEF Contents
  <1>2. CacheFull => MountedCached
    BY DEF CacheFull
  <1>3. Spec => []Clean
    BY NoneFails
  <1> HIDE DEF Clean
  <1> QED BY <1>1, <1>2, <1>3, CacheFullInit, ContentsInvariance, PTL DEF Spec
=============================================================================
