----------------------------- MODULE StoreProofs -----------------------------
(***************************************************************************)
(* Part 5 of the theorems about VolumeManager: it implements VolumeStore.  *)
(*                                                                         *)
(* The path of an output file depends on the inode only, so that a second  *)
(* reader of an inode truncates what the first was given.  The theorems    *)
(* therefore assume SeparateReads: any number of threads read, but no      *)
(* thread reads an inode while another reads it or uses its output file.   *)
(***************************************************************************)
EXTENDS StoreRefinement, ContentProofs

ReadPcs == {"read_image", "fill_output"}

\* Every byte the records of the image speak of is there.
Complete(v) ==
    /\ images[v] # None /\ Whole(images[v])
    /\ \A k \in DOMAIN images[v].metas : Written(images[v].metas[k])

SealedComplete == \A v \in sealed : Complete(v)

\* The thread reads from the volume, or has the output file of a read from it.
ReadsFrom(t, v) == \/ metadata[t] # None /\ metadata[t].volume_id = v
                   \/ delivered[t] # None /\ delivered[t].volume_id = v

\* The volume of a pack in progress is neither sealed nor read.
PackUnread ==
    \A t \in Threads : pc[t] \in LockedPackPcs =>
       /\ volume_meta[t].volume_id \notin sealed
       /\ \A u \in Threads : ~ReadsFrom(u, volume_meta[t].volume_id)

\* No two threads use an inode.
ReadersApart ==
    \A t, u \in Threads, i \in InodeIds : t # u => ~(UsedBy(t, i) /\ UsedBy(u, i))

\* While a read is in progress the thread has nothing delivered, and a sealed volume
\* gives it the content of the file.
ReaderAt(t) ==
    /\ metadata[t] # None => pc[t] \in ReadPcs
    /\ pc[t] \in ReadPcs => metadata[t] # None /\ delivered[t] = None
    /\ (pc[t] = "fill_output" /\ metadata[t].volume_id \in sealed) => content[t] # Torn

\* What a read from a sealed volume has delivered stays in its output file.
DeliveredAt(t) ==
    delivered[t] # None =>
       /\ delivered[t].volume_id \in VolumeIds
       /\ images[delivered[t].volume_id] # None
       /\ source[delivered[t].inode_id] \in Paths
       /\ delivered[t].volume_id \in sealed => RightOutput(t)

Reading == /\ SealedComplete
           /\ PackUnread
           /\ ReadersApart
           /\ \A t \in Threads : ReaderAt(t) /\ DeliveredAt(t)

\* A pack has something to pack until it ends.
PackFilled == \A t \in Threads : pc[t] \in LockedPackPcs => pending_files # <<>>

StoreInv == Known /\ Contents /\ Reading /\ PackFilled

-----------------------------------------------------------------------------
(* Sealed volumes are complete. *)

LEMMA CompleteStays ==
    ASSUME Known, ImageGrows, NEW v \in VolumeIds, Complete(v)
    PROVE  Complete(v)'
  <1>1. /\ images'[v] # None /\ images'[v].metas = images[v].metas
        /\ images[v].data \subseteq images'[v].data
        /\ Whole(images'[v])
    BY WholeStays DEF Complete, ImageGrows
  <1>2. \A k \in DOMAIN images[v].metas : images[v].metas[k].volume_id = v
    BY DEF Complete, Known, Layout, ImageSound
  <1>3. ASSUME NEW k \in DOMAIN images[v].metas
        PROVE  Written(images[v].metas[k])'
    BY <1>1, <1>2 DEF Complete, Written, ExtentOf, Start
  <1> QED BY <1>1, <1>3 DEF Complete, Whole

\* A read from a complete volume gets the content of the file.
LEMMA CompleteReads ==
    ASSUME Known, NEW v \in VolumeIds, Complete(v), NEW k \in DOMAIN images[v].metas
    PROVE  Torn \notin Decompressed(images[v].metas[k])
  <1>1. Frames(images[v].metas[k]) = {images[v].metas[k].path}
    BY FramesWritten DEF Known, Layout, Complete
  <1>2. images[v].metas[k].path \in Paths
    <2>1. images[v] \in Image
      BY DEF Complete, Known, Inv, TypeOK, DiskType
    <2>2. images[v].metas \in Seq(FileRecord)
      BY <2>1 DEF Image
    <2>3. images[v].metas[k] \in FileRecord
      BY <2>2
    <2> QED BY <2>3 DEF FileRecord
  <1> QED BY <1>1, <1>2, IdsAssumption DEF Decompressed, FrameTorn

\* A pack that ends has completed its volume.
LEMMA FinishCompletes ==
    ASSUME NEW t \in Threads, Known, FinishPack(t)
    PROVE  volume_meta[t].volume_id \in VolumeIds /\ Complete(volume_meta[t].volume_id)
  <1>1. PICK v : v = volume_meta[t].volume_id
    OBVIOUS
  <1>2. pc[t] = "finish" /\ pc[t] \in LockedPackPcs /\ pc[t] \in ImagedPcs
    BY DEF FinishPack, LockedPackPcs, ImagedPcs
  <1>3. /\ v \in VolumeIds /\ images[v] \in Image
        /\ volume_meta[t] \in VolumeRecord /\ pending_files \in Seq(FileRecord)
    BY <1>1, <1>2, PackLocals DEF Known
  <1>4. /\ images[v].header = volume_meta[t]
        /\ Len(images[v].metas) = Len(pending_files)
        /\ volume_meta[t].file_count = Len(pending_files)
        /\ \A k \in DOMAIN images[v].metas : images[v].metas[k] = pending_files[k]
        /\ \A k \in DOMAIN pending_files : Written(pending_files[k])
    BY <1>1, <1>2 DEF Known, Layout, ImagedAt, PlannedAt
  <1>5. images[v] # None /\ Whole(images[v])
    BY <1>3, <1>4, NoneAssumption, TornAssumption DEF Whole
  <1>6. DOMAIN images[v].metas = DOMAIN pending_files
    <2>1. images[v].metas \in Seq(FileRecord)
      BY <1>3 DEF Image
    <2> QED BY <1>3, <1>4, <2>1
  <1> QED BY <1>1, <1>3, <1>4, <1>5, <1>6 DEF Complete

\* Only the end of a pack seals a volume: one that nobody reads.
LEMMA SealStep ==
    ASSUME NEW t \in Threads, Known, PackUnread, Call(t) \/ Step(t), ~UNCHANGED sealed
    PROVE  \E v \in VolumeIds :
              /\ sealed' = sealed \cup {v}
              /\ Complete(v)
              /\ \A u \in Threads : ~ReadsFrom(u, v)
  <1>1. FinishPack(t)
    BY HistoryFrame
  <1>2. PICK v : v = volume_meta[t].volume_id
    OBVIOUS
  <1>3. pc[t] \in LockedPackPcs /\ sealed' = sealed \cup {v}
    BY <1>1, <1>2 DEF FinishPack, LockedPackPcs
  <1>4. \A u \in Threads : ~ReadsFrom(u, v)
    BY <1>2, <1>3 DEF PackUnread
  <1> QED BY <1>1, <1>2, <1>3, <1>4, FinishCompletes

LEMMA SealedThread ==
    ASSUME NEW t \in Threads, Known, ImageGrows, SealedComplete, PackUnread,
           Call(t) \/ Step(t)
    PROVE  SealedComplete'
  <1>1. \A v \in sealed : v \in VolumeIds
    BY DEF Known, Inv, TypeOK, HistoryType
  <1>2. \A v \in sealed : Complete(v)'
    BY <1>1, CompleteStays DEF SealedComplete
  <1>3. CASE UNCHANGED sealed
    BY <1>2, <1>3 DEF SealedComplete
  <1>4. CASE ~UNCHANGED sealed
    <2>1. PICK v \in VolumeIds : sealed' = sealed \cup {v} /\ Complete(v)
      BY <1>4, SealStep
    <2>2. Complete(v)'
      BY <2>1, CompleteStays
    <2> QED BY <1>2, <2>1, <2>2 DEF SealedComplete
  <1> QED BY <1>3, <1>4

-----------------------------------------------------------------------------
(* Who reads what. *)

\* What the steps of a thread do to its read.
LEMMA ReaderStep ==
    ASSUME NEW t \in Threads, Inv, ReaderAt(t), Call(t) \/ Step(t),
           ~CallRead(t), ~ReadImage(t), ~FillOutput(t)
    PROVE  /\ metadata'[t] = None
           /\ pc'[t] \notin ReadPcs
           /\ UNCHANGED delivered \/ delivered' = [delivered EXCEPT ![t] = None]
  <1> USE DEF Inv, TypeOK, LocalsType
  <1>1. pc'[t] \notin ReadPcs
    BY ReadPcStep DEF ReadPcs
  <1>2. UNCHANGED delivered \/ delivered' = [delivered EXCEPT ![t] = None]
    BY HistoryFrame
  <1>3. CASE pc[t] \in ReadPcs
    <2>1. ReadImageFails(t) \/ FillOutputFails(t)
      <3> USE <1>3 DEF ReadPcs
      <3>1. ~Call(t)
        BY DEF Call, CallAdd, CallBatch, CallPack, CallMount, CallRead, Unmount, Begin
      <3>2. ~CollectStep(t)
        BY DEF CollectStep, CompressFile, CompressFileFails, JoinCompress,
               JoinCompressFails, CheckRoom, PushFile, PushTooLarge
      <3>3. ~PackStep(t)
        BY DEF PackStep, LockPack, NothingToPack, PlanVolume, PlaceFile, WriteHeader,
               WriteHeaderFails, WriteMeta, WriteMetaFails, ReadTemps, ReadTempsFails,
               JoinWrites, JoinWritesFails, FinishPack
      <3>4. ~MountRecord(t) /\ ~MountRecordFails(t) /\ ~FinishMount(t)
        BY DEF MountRecord, MountRecordFails, FinishMount
      <3> QED BY <3>1, <3>2, <3>3, <3>4 DEF Step, MountReadStep
    <2>2. \E code : Return(t, code)
      BY <2>1 DEF ReadImageFails, FillOutputFails
    <2>3. metadata' = [metadata EXCEPT ![t] = None]
      BY <2>2 DEF Return
    <2>4. metadata'[t] = None
      BY <2>3
    <2> QED BY <1>1, <1>2, <2>4
  <1>4. CASE pc[t] \notin ReadPcs
    <2>1. metadata[t] = None
      BY <1>4 DEF ReaderAt
    <2>2. UNCHANGED metadata \/ metadata' = [metadata EXCEPT ![t] = None]
      <3>1. CASE Call(t)
        BY <3>1 DEF Call, CallAdd, CallBatch, CallPack, CallMount, Unmount, readVars
      <3>2. CASE CollectStep(t)
        BY <3>2 DEF CollectStep, CompressFile, CompressFileFails, JoinCompress,
               JoinCompressFails, CheckRoom, PushFile, PushTooLarge, Return, readVars
      <3>3. CASE PackStep(t)
        BY <3>3 DEF PackStep, LockPack, NothingToPack, PlanVolume, PlaceFile, WriteHeader,
               WriteHeaderFails, WriteMeta, WriteMetaFails, ReadTemps, ReadTempsFails,
               JoinWrites, JoinWritesFails, FinishPack, PackFails, Return, readVars
      <3>4. CASE MountReadStep(t)
        BY <3>4 DEF MountReadStep, MountRecord, MountRecordFails, FinishMount, Return,
               ReadImageFails, FillOutputFails, readVars
      <3> QED BY <3>1, <3>2, <3>3, <3>4 DEF Step
    <2>3. metadata'[t] = None
      BY <2>1, <2>2
    <2> QED BY <1>1, <1>2, <2>3
  <1> QED BY <1>3, <1>4

\* A read in progress decompresses, or ends and delivers its record.
LEMMA ReadEffect ==
    ASSUME NEW t \in Threads, Inv, ReaderAt(t), ReadImage(t) \/ FillOutput(t)
    PROVE  /\ pc[t] \in ReadPcs /\ metadata[t] \in FileRecord /\ delivered[t] = None
           /\ metadata[t].inode_id \in InodeIds /\ metadata[t].volume_id \in VolumeIds
           /\ UNCHANGED <<images, source, sealed, pending_files, mounted_volumes>>
           /\ ReadImage(t) => /\ UNCHANGED <<metadata, delivered>>
                              /\ pc'[t] = "fill_output"
           /\ FillOutput(t) => /\ metadata'[t] = None /\ pc'[t] = "idle"
                               /\ delivered' = [delivered EXCEPT ![t] = metadata[t]]
                               /\ delivered'[t] = metadata[t]
                               /\ output_files'[metadata[t].inode_id] = content[t]
           /\ \A i \in InodeIds : i # metadata[t].inode_id =>
                                     output_files'[i] = output_files[i]
  <1> USE DEF Inv, TypeOK, LocalsType, HistoryType, DiskType
  <1>1. /\ pc[t] \in ReadPcs
        /\ UNCHANGED <<images, source, sealed, pending_files, mounted_volumes>>
    BY DEF ReadImage, FillOutput, ReadPcs, memVars
  <1>2. metadata[t] \in FileRecord /\ delivered[t] = None
    BY <1>1 DEF ReaderAt
  <1>3. metadata[t].inode_id \in InodeIds /\ metadata[t].volume_id \in VolumeIds
    BY <1>1, <1>2 DEF FileRecord, ReadPcs, LocalsReady, LocalsReadyAt
  <1>4. ReadImage(t) => UNCHANGED <<metadata, delivered>> /\ pc'[t] = "fill_output"
    BY DEF ReadImage, Goto, answers
  <1>5. ASSUME FillOutput(t)
        PROVE  /\ metadata'[t] = None /\ pc'[t] = "idle"
               /\ delivered' = [delivered EXCEPT ![t] = metadata[t]]
               /\ delivered'[t] = metadata[t]
               /\ output_files'[metadata[t].inode_id] = content[t]
    BY <1>3, <1>5 DEF FillOutput, Return, Goto
  <1>6. PICK c : output_files' = [output_files EXCEPT ![metadata[t].inode_id] = c]
    BY DEF ReadImage, FillOutput
  <1>7. \A i \in InodeIds : i # metadata[t].inode_id => output_files'[i] = output_files[i]
    BY <1>6
  <1> QED BY <1>1, <1>2, <1>3, <1>4, <1>5, <1>7

\* A read begins with a record of a mounted volume and forgets what was delivered.
LEMMA CallReadEffect ==
    ASSUME NEW t \in Threads, Known, CallRead(t)
    PROVE  /\ metadata'[t] \in FileRecord /\ delivered'[t] = None
           /\ metadata'[t].volume_id \in mounted_volumes
           /\ SeparateReads => \A u \in Threads \ {t} : ~UsedBy(u, metadata'[t].inode_id)
           /\ pc'[t] = "read_image"
           /\ UNCHANGED <<sealed, images>>
  <1> USE DEF Known, Inv, TypeOK, LocalsType, HistoryType
  <1>1. PICK i \in InodeIds :
          /\ file_metadata_cache[i] # None
          /\ file_metadata_cache[i].volume_id \in mounted_volumes
          /\ SeparateReads => \A u \in Threads \ {t} : ~UsedBy(u, i)
          /\ metadata' = [metadata EXCEPT ![t] = file_metadata_cache[i]]
    BY DEF CallRead
  <1>2. metadata'[t] = file_metadata_cache[i] /\ metadata'[t] \in FileRecord
    BY <1>1 DEF MemoryType
  <1>3. file_metadata_cache[i].inode_id = i
    BY <1>1 DEF Staging, SourcesKnown
  <1>4. delivered'[t] = None /\ pc'[t] = "read_image" /\ UNCHANGED <<sealed, images>>
    BY DEF CallRead, Begin, Goto, diskVars
  <1> QED BY <1>1, <1>2, <1>3, <1>4

\* Whoever does not begin a read uses and reads nothing new.
LEMMA UsesStay ==
    ASSUME NEW t \in Threads, Inv, ReaderAt(t), Call(t) \/ Step(t), NEW u \in Threads,
           u = t => ~CallRead(t)
    PROVE  /\ \A i \in InodeIds : UsedBy(u, i)' => UsedBy(u, i)
           /\ \A v \in VolumeIds : ReadsFrom(u, v)' => ReadsFrom(u, v)
  <1> USE DEF Inv, TypeOK, LocalsType, HistoryType
  <1>1. /\ metadata'[u] \in {None, metadata[u]}
        /\ delivered'[u] \in {None, delivered[u], metadata[u]}
    <2>1. CASE u # t
      <3>1. metadata'[u] = metadata[u]
        BY <2>1, OthersStep DEF LocalsOf
      <3>2. delivered'[u] = delivered[u]
        BY <2>1, HistoryFrame DEF FillOutput
      <3> QED BY <3>1, <3>2
    <2>2. CASE u = t /\ (ReadImage(t) \/ FillOutput(t))
      BY <2>2, ReadEffect
    <2>3. CASE u = t /\ ~ReadImage(t) /\ ~FillOutput(t)
      BY <2>3, ReaderStep
    <2> QED BY <2>1, <2>2, <2>3
  <1> QED BY <1>1 DEF UsedBy, ReadsFrom

LEMMA ApartThread ==
    ASSUME NEW t \in Threads, SeparateReads, Known, Reading, Call(t) \/ Step(t)
    PROVE  ReadersApart'
  <1>0. Inv /\ ReadersApart /\ ReaderAt(t)
    BY DEF Known, Reading
  <1>1. ASSUME NEW w \in Threads, NEW u \in Threads, NEW i \in InodeIds, w # u,
               UsedBy(w, i)', UsedBy(u, i)', u = t => ~CallRead(t)
        PROVE  FALSE
    <2>1. UsedBy(u, i)
      BY <1>0, <1>1, UsesStay
    <2>2. ~UsedBy(w, i)
      BY <1>0, <1>1, <2>1 DEF ReadersApart
    <2>3. w = t /\ CallRead(t)
      BY <1>0, <1>1, <2>2, UsesStay
    <2>4. metadata'[t].inode_id = i
      BY <1>1, <2>3, CallReadEffect DEF UsedBy
    <2>5. ~UsedBy(u, metadata'[t].inode_id)
      BY <1>1, <2>3, CallReadEffect
    <2> QED BY <2>1, <2>4, <2>5
  <1> QED BY <1>1 DEF ReadersApart

\* The volume of a pack in progress stays the same.
LEMMA PackVolumeStays ==
    ASSUME NEW t \in Threads, Inv, Call(t) \/ Step(t), NEW u \in Threads,
           pc'[u] \in LockedPackPcs, ~PlanVolume(u)
    PROVE  /\ pc[u] \in LockedPackPcs
           /\ volume_meta'[u].volume_id = volume_meta[u].volume_id
           /\ volume_meta[u].volume_id \in VolumeIds
           /\ UNCHANGED sealed
  <1> USE DEF Inv, TypeOK, LocalsType
  <1>1. CASE u # t
    <2>1. pc'[u] = pc[u] /\ volume_meta'[u] = volume_meta[u]
      BY <1>1, OthersStep DEF LocalsOf
    <2>2. pc[t] \notin LockedPackPcs
      BY <1>1, <2>1, PackAside
    <2>3. ~FinishPack(t)
      BY <2>2 DEF FinishPack, LockedPackPcs
    <2> QED BY <2>1, <2>3, HistoryFrame, PackLocals
  <1>2. CASE u = t
    <2>1. /\ pc[t] \in LockedPackPcs
          /\ \/ PlaceFile(t) \/ WriteHeader(t) \/ WriteMeta(t) \/ ReadTemps(t)
             \/ JoinWrites(t)
      BY <1>2, PackPcStep
    <2>2. volume_meta[t] \in VolumeRecord /\ volume_meta[t].volume_id \in VolumeIds
      BY <2>1, PackLocals
    <2>3. UNCHANGED sealed
      BY <2>1 DEF PlaceFile, WriteHeader, WriteMeta, ReadTemps, JoinWrites
    <2>4. UNCHANGED volume_meta \/ PlaceFile(t)
      BY <2>1 DEF WriteHeader, WriteMeta, ReadTemps, JoinWrites, packVars
    <2>5. PlaceFile(t) => volume_meta'[t].volume_id = volume_meta[t].volume_id
      BY <2>2 DEF PlaceFile, VolumeRecord
    <2> QED BY <1>2, <2>1, <2>2, <2>3, <2>4, <2>5
  <1> QED BY <1>1, <1>2

\* The volume of a new pack is nobody's.
LEMMA PlanUnread ==
    ASSUME NEW t \in Threads, FreshIds, Known, Reading, PlanVolume(t)
    PROVE  \E v \in VolumeIds : /\ v = volume_meta'[t].volume_id /\ v \notin sealed'
                               /\ \A u \in Threads : ~ReadsFrom(u, v)'
  <1> USE DEF Known, Inv, TypeOK, LocalsType
  <1>1. PICK v \in GenerateVolumeId :
          volume_meta' = [volume_meta EXCEPT ![t] =
             [volume_id |-> v, file_count |-> Len(pending_files),
              user_data_offset |-> HeaderLen + RecordLen * Len(pending_files),
              user_data_size |-> 0]]
    BY DEF PlanVolume
  <1>2. v \in VolumeIds /\ images[v] = None /\ volume_meta'[t].volume_id = v
    BY <1>1 DEF GenerateVolumeId
  <1>3. UNCHANGED <<sealed, metadata, delivered>>
    BY DEF PlanVolume, readVars, answers
  <1>4. v \notin sealed
    BY <1>2 DEF Reading, SealedComplete, Complete
  <1>5. ASSUME NEW u \in Threads
        PROVE  ~ReadsFrom(u, v)
    <2>1. ReaderAt(u) /\ DeliveredAt(u)
      BY DEF Reading
    <2>2. metadata[u] # None => images[metadata[u].volume_id] # None
      BY <2>1 DEF ReaderAt, ReadPcs, LocalsReady, LocalsReadyAt
    <2>3. delivered[u] # None => images[delivered[u].volume_id] # None
      BY <2>1 DEF DeliveredAt
    <2> QED BY <1>2, <2>2, <2>3 DEF ReadsFrom
  <1>6. \A u \in Threads : ~ReadsFrom(u, v)'
    BY <1>3, <1>5 DEF ReadsFrom
  <1> QED BY <1>2, <1>3, <1>4, <1>6

LEMMA UnreadThread ==
    ASSUME NEW t \in Threads, FreshIds, Known, Reading, Call(t) \/ Step(t)
    PROVE  PackUnread'
  <1>0. Inv /\ Layout /\ PackUnread /\ ReaderAt(t)
    BY DEF Known, Reading
  <1>1. ASSUME NEW u \in Threads, pc'[u] \in LockedPackPcs
        PROVE  \E v : /\ v = volume_meta'[u].volume_id /\ v \notin sealed'
                      /\ \A w \in Threads : ~ReadsFrom(w, v)'
    <2>1. CASE PlanVolume(u)
      BY <1>1, <2>1, PlanUnread
    <2>2. CASE ~PlanVolume(u)
      <3>1. PICK v \in VolumeIds :
               v = volume_meta[u].volume_id /\ v = volume_meta'[u].volume_id
        BY <1>0, <1>1, <2>2, PackVolumeStays
      <3>2. pc[u] \in LockedPackPcs /\ UNCHANGED sealed
        BY <1>0, <1>1, <2>2, PackVolumeStays
      <3>3. v \notin sealed /\ v \notin mounted_volumes /\ \A w \in Threads : ~ReadsFrom(w, v)
        BY <1>0, <3>1, <3>2 DEF PackUnread, Layout, PlannedAt
      <3>4. ASSUME NEW w \in Threads, ReadsFrom(w, v)'
            PROVE  FALSE
        <4>1. w = t /\ CallRead(t)
          BY <1>0, <3>3, <3>4, UsesStay
        <4>2. metadata'[t].volume_id = v
          BY <3>4, <4>1, CallReadEffect DEF ReadsFrom
        <4> QED BY <3>3, <4>1, <4>2, CallReadEffect
      <3> QED BY <3>1, <3>2, <3>3, <3>4
    <2> QED BY <2>1, <2>2
  <1>2. ASSUME NEW u \in Threads, pc'[u] \in LockedPackPcs
        PROVE  /\ volume_meta'[u].volume_id \notin sealed'
               /\ \A w \in Threads : ~ReadsFrom(w, volume_meta[u].volume_id)'
    <2>1. PICK v : /\ v = volume_meta'[u].volume_id /\ v \notin sealed'
                   /\ \A w \in Threads : ~ReadsFrom(w, v)'
      BY <1>1, <1>2
    <2> QED BY <2>1 DEF ReadsFrom
  <1> QED BY <1>2 DEF PackUnread

\* A volume that is sealed now and is read was sealed before the step.
LEMMA SealedBefore ==
    ASSUME NEW t \in Threads, Known, Reading, Call(t) \/ Step(t), NEW u \in Threads,
           NEW v \in VolumeIds, ReadsFrom(u, v), v \in sealed'
    PROVE  v \in sealed
  BY SealStep DEF Reading

LEMMA ReaderThread ==
    ASSUME NEW t \in Threads, Known, Contents, Reading, Call(t) \/ Step(t),
           NEW u \in Threads
    PROVE  ReaderAt(u)'
  <1> USE DEF Known, Inv, TypeOK, LocalsType, HistoryType
  <1>0. ReaderAt(u) /\ ReaderAt(t)
    BY DEF Reading
  <1>1. CASE u # t
    <2>1. pc'[u] = pc[u] /\ metadata'[u] = metadata[u] /\ content'[u] = content[u]
      BY <1>1, OthersStep DEF LocalsOf
    <2>2. delivered'[u] = delivered[u]
      BY <1>1, HistoryFrame DEF FillOutput
    <2>3. ASSUME pc[u] = "fill_output", metadata[u].volume_id \in sealed'
          PROVE  content[u] # Torn
      <3>1. metadata[u] # None
        BY <1>0, <2>3 DEF ReaderAt, ReadPcs
      <3>2. PICK v \in VolumeIds : v = metadata[u].volume_id
        BY <2>3, <3>1 DEF FileRecord, LocalsReady, LocalsReadyAt
      <3>3. v \in sealed
        BY <2>3, <3>1, <3>2, SealedBefore DEF ReadsFrom
      <3> QED BY <1>0, <2>3, <3>2, <3>3 DEF ReaderAt
    <2>4. ASSUME pc'[u] = "fill_output", metadata'[u].volume_id \in sealed'
          PROVE  content'[u] # Torn
      BY <2>1, <2>3, <2>4
    <2> QED BY <1>0, <2>1, <2>2, <2>4 DEF ReaderAt
  <1>2. CASE u = t /\ CallRead(t)
    <2>1. /\ metadata'[t] \in FileRecord /\ delivered'[t] = None
          /\ pc'[t] = "read_image"
      BY <1>2, CallReadEffect
    <2> QED BY <1>2, <2>1, NoneAssumption DEF ReaderAt, ReadPcs
  <1>3. CASE u = t /\ ReadImage(t)
    <2>1. /\ metadata[t] \in FileRecord /\ delivered[t] = None
          /\ metadata[t].volume_id \in VolumeIds
          /\ pc[t] \in ReadPcs /\ pc'[t] = "fill_output"
          /\ UNCHANGED <<metadata, delivered, sealed>>
      BY <1>0, <1>3, ReadEffect
    <2>2. ASSUME metadata[t].volume_id \in sealed
          PROVE  content'[t] # Torn
      <3>1. PICK v \in VolumeIds : v = metadata[t].volume_id
        BY <2>1
      <3>2. Complete(v)
        BY <2>2, <3>1 DEF Reading, SealedComplete
      <3>3. PICK k \in DOMAIN images[v].metas : images[v].metas[k] = metadata[t]
        BY <2>1, <3>1 DEF Contents, ReadAt, Recorded, ReadPcs
      <3>4. Torn \notin Decompressed(metadata[t])
        BY <3>2, <3>3, CompleteReads
      <3>5. PICK c \in Decompressed(metadata[t]) : content' = [content EXCEPT ![t] = c]
        BY <1>3 DEF ReadImage
      <3>6. content'[t] = c
        BY <3>5
      <3> QED BY <3>4, <3>5, <3>6
    <2>3. metadata'[t] # None /\ delivered'[t] = None
      BY <2>1, NoneAssumption
    <2> QED BY <1>3, <2>1, <2>2, <2>3 DEF ReaderAt, ReadPcs
  <1>4. CASE u = t /\ FillOutput(t)
    BY <1>0, <1>4, ReadEffect DEF ReaderAt, ReadPcs
  <1>5. CASE u = t /\ ~CallRead(t) /\ ~ReadImage(t) /\ ~FillOutput(t)
    BY <1>0, <1>5, ReaderStep DEF ReaderAt, ReadPcs
  <1> QED BY <1>1, <1>2, <1>3, <1>4, <1>5

-----------------------------------------------------------------------------
(* What a read has delivered stays. *)

\* Only a read writes output files.
LEMMA OutputStep ==
    ASSUME NEW t \in Threads, Call(t) \/ Step(t), ~ReadImage(t), ~FillOutput(t)
    PROVE  UNCHANGED output_files
  <1>1. CASE Call(t)
    BY <1>1 DEF Call, CallAdd, CallBatch, CallPack, CallMount, CallRead, Unmount, diskVars
  <1>2. CASE CollectStep(t)
    BY <1>2 DEF CollectStep, CompressFile, CompressFileFails, JoinCompress,
                JoinCompressFails, CheckRoom, PushFile, PushTooLarge, diskVars
  <1>3. CASE PackStep(t)
    BY <1>3 DEF PackStep, LockPack, NothingToPack, PlanVolume, PlaceFile, WriteHeader,
                WriteHeaderFails, WriteMeta, WriteMetaFails, ReadTemps, ReadTempsFails,
                JoinWrites, JoinWritesFails, FinishPack, PackFails, diskVars
  <1>4. CASE MountReadStep(t)
    BY <1>4 DEF MountReadStep, MountRecord, MountRecordFails, FinishMount, ReadImageFails,
                FillOutputFails, diskVars
  <1> QED BY <1>1, <1>2, <1>3, <1>4 DEF Step

\* What a thread keeps delivered keeps its output file.
LEMMA OutputStays ==
    ASSUME NEW t \in Threads, Inv, Reading, Call(t) \/ Step(t),
           NEW u \in Threads, delivered[u] # None, delivered'[u] = delivered[u]
    PROVE  LET i == delivered[u].inode_id
           IN i \in InodeIds /\ output_files'[i] = output_files[i]
  <1>1. PICK i : i = delivered[u].inode_id
    OBVIOUS
  <1>2. i \in InodeIds
    BY <1>1 DEF Inv, TypeOK, HistoryType, FileRecord
  <1>3. CASE ~ReadImage(t) /\ ~FillOutput(t)
    BY <1>1, <1>2, <1>3, OutputStep
  <1>4. CASE ReadImage(t) \/ FillOutput(t)
    <2>1. ReaderAt(t)
      BY DEF Reading
    <2>2. /\ metadata[t] \in FileRecord /\ delivered[t] = None
          /\ metadata[t].inode_id # i => output_files'[i] = output_files[i]
      BY <1>2, <1>4, <2>1, ReadEffect
    <2>3. ASSUME metadata[t].inode_id = i
          PROVE  FALSE
      <3>1. UsedBy(t, i) /\ UsedBy(u, i)
        BY <1>1, <2>2, <2>3, NoneAssumption DEF UsedBy
      <3>2. t # u
        BY <2>2
      <3> QED BY <1>2, <3>1, <3>2 DEF Reading, ReadersApart
    <2> QED BY <1>1, <1>2, <2>2, <2>3
  <1> QED BY <1>3, <1>4

\* A good read delivers the content of the inode, or Torn from a volume not sealed.
LEMMA FillDelivers ==
    ASSUME NEW t \in Threads, Known, Contents, Reading, FillOutput(t)
    PROVE  LET file == metadata[t]
           IN /\ file \in FileRecord /\ file.inode_id \in InodeIds
              /\ file.volume_id \in VolumeIds /\ images[file.volume_id] # None
              /\ delivered' = [delivered EXCEPT ![t] = file] /\ delivered'[t] = file
              /\ source[file.inode_id] \in Paths
              /\ \/ /\ output_files'[file.inode_id] = source[file.inode_id]
                    /\ StoredIn(file.inode_id, file.volume_id)
                 \/ /\ output_files'[file.inode_id] = Torn
                    /\ file.volume_id \notin sealed
              /\ UNCHANGED <<source, sealed, images, pending_files, mounted_volumes>>
  <1>1. ReaderAt(t) /\ ReadAt(t)
    BY DEF Reading, Contents
  <1>2. PICK file : file = metadata[t]
    OBVIOUS
  <1>3. /\ file \in FileRecord /\ file.inode_id \in InodeIds /\ file.volume_id \in VolumeIds
        /\ delivered' = [delivered EXCEPT ![t] = file] /\ delivered'[t] = file
        /\ output_files'[file.inode_id] = content[t]
        /\ UNCHANGED <<source, sealed, images, pending_files, mounted_volumes>>
    BY <1>1, <1>2, ReadEffect DEF Known
  <1>4. pc[t] = "fill_output"
    BY DEF FillOutput
  <1>5. images[file.volume_id] # None
    BY <1>2, <1>4 DEF Known, Inv, LocalsReady, LocalsReadyAt
  <1>6. source[file.inode_id] \in Paths
    <2>1. PICK k \in DOMAIN images[file.volume_id].metas :
            images[file.volume_id].metas[k] = file
      BY <1>1, <1>2, <1>4 DEF ReadAt, Recorded
    <2>2. source[file.inode_id] = file.path
      BY <1>3, <1>5, <2>1 DEF Known, Staging, SourcesKnown, Issued
    <2> QED BY <1>3, <2>2 DEF FileRecord
  <1>7. CASE content[t] = Torn
    <2>1. file.volume_id \notin sealed
      BY <1>1, <1>2, <1>4, <1>7 DEF ReaderAt
    <2> QED BY <1>2, <1>3, <1>5, <1>6, <1>7, <2>1
  <1>8. CASE content[t] # Torn
    <2>1. content[t] = source[file.inode_id] /\ StoredIn(file.inode_id, file.volume_id)
      BY <1>1, <1>2, <1>4, <1>8 DEF ReadAt
    <2> QED BY <1>2, <1>3, <1>5, <1>6, <2>1
  <1> QED BY <1>7, <1>8

\* A call forgets what was delivered to its thread.
LEMMA BeginForgets ==
    ASSUME NEW t \in Threads, Call(t)
    PROVE  delivered' = [delivered EXCEPT ![t] = None]
  BY DEF Call, CallAdd, CallBatch, CallPack, CallMount, CallRead, Unmount, Begin

\* Whoever makes a step, what was delivered stays.
LEMMA DeliveredThread ==
    ASSUME NEW t \in Threads, Known, Contents, Reading, ImageGrows, SourceGrows,
           Call(t) \/ Step(t), NEW u \in Threads
    PROVE  DeliveredAt(u)'
  <1> USE DEF Known, Inv, TypeOK
  <1>0. DeliveredAt(u) /\ delivered \in [Threads -> FileRecord \cup {None}]
    BY DEF Reading, HistoryType
  <1>1. CASE delivered'[u] = delivered[u]
    <2> SUFFICES ASSUME delivered[u] # None
                 PROVE  DeliveredAt(u)'
      BY <1>1 DEF DeliveredAt
    <2>1. PICK i \in InodeIds, v \in VolumeIds :
            i = delivered[u].inode_id /\ v = delivered[u].volume_id
      BY <1>0 DEF DeliveredAt, FileRecord
    <2>2. images'[v] # None /\ source'[i] = source[i] /\ source[i] \in Paths
      BY <1>0, <2>1, IdsAssumption DEF DeliveredAt, ImageGrows, SourceGrows
    <2>3. v \in sealed' => v \in sealed
      BY <2>1, SealedBefore DEF ReadsFrom
    <2>4. output_files'[i] = output_files[i]
      BY <1>1, <2>1, OutputStays
    <2>5. v \in sealed => output_files[i] = source[i]
      BY <1>0, <2>1 DEF DeliveredAt, RightOutput
    <2> QED BY <1>1, <2>1, <2>2, <2>3, <2>4, <2>5 DEF DeliveredAt, RightOutput
  <1>2. CASE delivered'[u] = None
    BY <1>2 DEF DeliveredAt
  <1>3. CASE u = t /\ FillOutput(t)
    BY <1>3, FillDelivers DEF DeliveredAt, RightOutput
  <1>4. \/ delivered'[u] = delivered[u]
        \/ delivered'[u] = None
        \/ u = t /\ FillOutput(t)
    <2>1. CASE FillOutput(t) /\ u # t
      BY <1>0, <2>1 DEF FillOutput
    <2> QED BY <1>0, <2>1, HistoryFrame
  <1> QED BY <1>1, <1>2, <1>3, <1>4

LEMMA ReadingThread ==
    ASSUME NEW t \in Threads, FreshIds, SeparateReads, Known, Contents, Reading,
           ImageGrows, SourceGrows, Call(t) \/ Step(t)
    PROVE  Reading'
  <1>1. SealedComplete' /\ PackUnread' /\ ReadersApart'
    BY SealedThread, UnreadThread, ApartThread DEF Reading
  <1>2. \A u \in Threads : ReaderAt(u)' /\ DeliveredAt(u)'
    BY ReaderThread, DeliveredThread
  <1> QED BY <1>1, <1>2 DEF Reading

\* Steps that change nothing a reader looks at.
LEMMA ReadingStays ==
    ASSUME Known, ImageGrows, Reading,
           UNCHANGED <<pc, volume_meta, metadata, content, source, sealed, delivered,
                       output_files>>
    PROVE  Reading'
  <1>1. \A v \in sealed : v \in VolumeIds
    BY DEF Known, Inv, TypeOK, HistoryType
  <1>2. SealedComplete'
    BY <1>1, CompleteStays DEF Reading, SealedComplete
  <1>3. PackUnread' /\ ReadersApart'
    BY DEF Reading, PackUnread, ReadsFrom, ReadersApart, UsedBy
  <1>4. \A u \in Threads : ReaderAt(u)' /\ DeliveredAt(u)'
    BY DEF Reading, ReaderAt, DeliveredAt, RightOutput, ImageGrows
  <1> QED BY <1>2, <1>3, <1>4 DEF Reading

LEMMA ReadingNext ==
    ASSUME FreshIds, SeparateReads, Known, Contents, Reading, [Next]_vars
    PROVE  Reading'
  <1>0. ImageGrows /\ SourceGrows
    BY GrowNext
  <1>1. CASE \E t \in Threads : Call(t) \/ Step(t)
    BY <1>0, <1>1, ReadingThread
  <1>2. CASE Worker
    <2>1. PICK task \in pool : RunTask(task)
      BY <1>2 DEF Worker
    <2>2. UNCHANGED <<pc, volume_meta, metadata, content, source>>
      BY <2>1, WorkerFiles DEF Known
    <2>3. UNCHANGED <<output_files, delivered, sealed>>
      BY <2>1 DEF RunTask, RunCompress, RunCompressFails, RunWrite, RunWriteFails, answers
    <2> QED BY <1>0, <2>2, <2>3, ReadingStays
  <1>3. CASE Crash
    <2>1. /\ \A u \in Threads : /\ pc'[u] = "idle" /\ delivered'[u] = None
                                /\ metadata'[u] = None
          /\ UNCHANGED <<images, sealed>>
      BY <1>3 DEF Crash, Unset, diskVars
    <2>2. SealedComplete'
      BY <2>1 DEF Reading, SealedComplete, Complete, Written
    <2>3. PackUnread' /\ ReadersApart'
      BY <2>1 DEF PackUnread, LockedPackPcs, ReadersApart, UsedBy
    <2> QED BY <2>1, <2>2, <2>3 DEF Reading, ReaderAt, DeliveredAt, ReadPcs
  <1>4. CASE Stop \/ UNCHANGED vars
    <2>1. UNCHANGED <<pc, volume_meta, metadata, content, source, sealed, delivered,
                      output_files>>
      BY <1>4 DEF Stop, vars, diskVars, packVars, readVars, answers
    <2> QED BY <1>0, <2>1, ReadingStays
  <1> QED BY <1>1, <1>2, <1>3, <1>4 DEF Next

-----------------------------------------------------------------------------
(* A pack has files. *)

LEMMA FilledThread ==
    ASSUME NEW t \in Threads, Inv, Inv', PackFilled, Call(t) \/ Step(t)
    PROVE  PackFilled'
  <1>0. pending_files \in Seq(FileRecord) /\ pending_files' \in Seq(FileRecord)
    BY DEF Inv, TypeOK, MemoryType
  <1> SUFFICES ASSUME NEW u \in Threads, pc'[u] \in LockedPackPcs
               PROVE  pending_files' # <<>>
    BY DEF PackFilled
  <1>1. CASE u # t
    <2>1. pc'[u] = pc[u]
      BY <1>1, OthersStep DEF LocalsOf, Inv, TypeOK
    <2> QED BY <1>1, <2>1, PackAside DEF PackFilled
  <1>2. CASE u = t
    <2>1. pending_files # <<>> /\ ~PushFile(t) /\ ~FinishPack(t)
      <3>1. CASE PlanVolume(t)
        BY <3>1 DEF PlanVolume, PushFile, FinishPack
      <3>2. CASE \/ PlaceFile(t) \/ WriteHeader(t) \/ WriteMeta(t) \/ ReadTemps(t)
                 \/ JoinWrites(t)
        <4>1. pc[t] \in LockedPackPcs /\ pc[t] \notin {"push", "finish"}
          BY <3>2 DEF PlaceFile, WriteHeader, WriteMeta, ReadTemps, JoinWrites, LockedPackPcs
        <4> QED BY <4>1 DEF PackFilled, PushFile, FinishPack
      <3> QED BY <1>2, <3>1, <3>2, PackPcStep
    <2>2. DOMAIN pending_files' = DOMAIN pending_files
      BY <2>1, PendingStep
    <2> QED BY <1>0, <2>1, <2>2
  <1> QED BY <1>1, <1>2

LEMMA FilledNext ==
    ASSUME Inv, Inv', PackFilled, [Next]_vars
    PROVE  PackFilled'
  <1>1. CASE \E t \in Threads : Call(t) \/ Step(t)
    BY <1>1, FilledThread
  <1>2. CASE Worker
    BY <1>2, WorkerFiles DEF Worker, PackFilled
  <1>3. CASE Crash
    BY <1>3 DEF Crash, PackFilled, LockedPackPcs
  <1>4. CASE Stop \/ UNCHANGED vars
    BY <1>4 DEF Stop, vars, memVars, PackFilled
  <1> QED BY <1>1, <1>2, <1>3, <1>4 DEF Next

-----------------------------------------------------------------------------
(* The invariant. *)

LEMMA StoreInvInit == Init => Reading /\ PackFilled
  <1> SUFFICES ASSUME Init
               PROVE  Reading /\ PackFilled
    OBVIOUS
  <1>1. /\ sealed = {}
        /\ \A u \in Threads : pc[u] = "idle" /\ metadata[u] = None /\ delivered[u] = None
    BY DEF Init, Unset
  <1>2. SealedComplete /\ PackUnread /\ ReadersApart
    BY <1>1 DEF SealedComplete, PackUnread, LockedPackPcs, ReadersApart, UsedBy
  <1>3. \A u \in Threads : ReaderAt(u) /\ DeliveredAt(u)
    BY <1>1 DEF ReaderAt, DeliveredAt, ReadPcs
  <1> QED BY <1>1, <1>2, <1>3 DEF Reading, PackFilled, LockedPackPcs

LEMMA StoreInvariance ==
    ASSUME FreshIds, SeparateReads
    PROVE  Spec => []StoreInv
  <1>1. Init => Reading /\ PackFilled
    BY StoreInvInit
  <1>2. StoreInv /\ [Next]_vars => Reading' /\ PackFilled'
    BY ReadingNext, FilledNext, KnownNext DEF StoreInv, Known
  <1>3. StoreInv <=> (Known /\ Contents) /\ (Reading /\ PackFilled)
    BY DEF StoreInv
  <1>4. Spec => [](Known /\ Contents)
    BY ContentsInvariance
  <1> QED BY <1>1, <1>2, <1>3, <1>4, PTL DEF Spec

\* If the generator repeats no id and no thread reads an inode that another uses, what
\* the last good ReadFile of a thread has delivered from a volume whose pack succeeded
\* is the content the inode was added with, and stays it until the thread makes its
\* next call: other reads, unlocked I/O, packs and late writes do not touch it.
THEOREM ReadsIntact ==
    ASSUME FreshIds, SeparateReads
    PROVE  Spec => []DeliveredIntact
  <1>1. StoreInv => DeliveredIntact
    BY DEF StoreInv, Reading, DeliveredAt, DeliveredIntact
  <1> QED BY <1>1, StoreInvariance, PTL

-----------------------------------------------------------------------------
(* The variables of VolumeStore. *)

LEMMA KeptMapped ==
    ASSUME NEW i \in InodeIds
    PROVE  /\ Stored(i) <=> i \in Store!KeptAnywhere
           /\ Kept(i) <=> i \in collectedMap \cup Store!KeptAnywhere
  BY DEF Kept, Stored, Store!KeptAnywhere, keptMap, collectedMap

\* An image that does not change keeps nothing new: a stored file has its id already.
LEMMA KeptBefore ==
    ASSUME Known, SourceGrows, NEW i \in InodeIds, NEW v \in VolumeIds,
           images'[v] = images[v], StoredIn(i, v)'
    PROVE  StoredIn(i, v)
  <1>1. PICK k \in DOMAIN images[v].metas :
          /\ images[v].metas[k].inode_id = i
          /\ (Frames(images[v].metas[k]))' = {source'[i]}
    BY DEF StoredIn
  <1> DEFINE file == images[v].metas[k]
  <1>2. images[v] # None
    BY DEF StoredIn
  <1>3. file \in FileRecord /\ file.volume_id = v
    <2>1. images[v].metas \in Seq(FileRecord)
      BY <1>2 DEF Known, Inv, TypeOK, DiskType, Image
    <2> QED BY <1>2, <2>1 DEF Known, Layout, ImageSound
  <1>4. source[i] = file.path /\ file.path \in Paths
    BY <1>1, <1>2, <1>3 DEF Known, Staging, SourcesKnown, Issued, FileRecord
  <1>5. source'[i] = source[i]
    BY <1>4, IdsAssumption DEF SourceGrows
  <1>6. (Frames(images[v].metas[k]))' = Frames(images[v].metas[k])
    BY <1>3 DEF Frames
  <1> QED BY <1>1, <1>2, <1>5, <1>6 DEF StoredIn

LEMMA KeptUnchanged ==
    ASSUME Known, Known', ImageGrows, SourceGrows, UNCHANGED images
    PROVE  UNCHANGED keptMap
  BY StoredStays, KeptBefore DEF keptMap

\* A write to one image.
LEMMA KeptWritten ==
    ASSUME Known, Known', ImageGrows, SourceGrows, NEW v \in VolumeIds,
           \A w \in VolumeIds : w # v => images'[w] = images[w]
    PROVE  keptMap' = [keptMap EXCEPT ![v] = @ \cup keptMap'[v]]
  <1>1. ASSUME NEW w \in VolumeIds
        PROVE  /\ keptMap[w] \subseteq keptMap'[w]
               /\ w # v => keptMap'[w] = keptMap[w]
    BY StoredStays, KeptBefore DEF keptMap
  <1>2. DOMAIN keptMap = VolumeIds /\ DOMAIN keptMap' = VolumeIds
    BY DEF keptMap
  <1>3. keptMap'[v] = keptMap[v] \cup keptMap'[v]
    BY <1>1
  <1>4. /\ keptMap = [w \in VolumeIds |-> keptMap[w]]
        /\ keptMap' = [w \in VolumeIds |-> keptMap'[w]]
    BY DEF keptMap
  <1> QED BY <1>1, <1>2, <1>3, <1>4

LEMMA CollectedUnchanged ==
    ASSUME NEW t \in Threads, Inv, Call(t) \/ Step(t), ~PushFile(t), ~FinishPack(t)
    PROVE  UNCHANGED collectedMap
  BY PendingStep DEF collectedMap, InodesOf

\* What the store sees of a good read.
GivenBy(t) == <<metadata[t].inode_id, metadata[t].volume_id, content[t]>>

LEMMA GivenStep ==
    ASSUME NEW t \in Threads, StoreInv, Call(t) \/ Step(t)
    PROVE  /\ UNCHANGED delivered => UNCHANGED givenMap
           /\ delivered' = [delivered EXCEPT ![t] = None] =>
                 givenMap' = [givenMap EXCEPT ![t] = None]
           /\ FillOutput(t) => givenMap' = [givenMap EXCEPT ![t] = GivenBy(t)]
  <1>0. /\ Inv /\ Reading /\ Known /\ Contents
        /\ delivered \in [Threads -> FileRecord \cup {None}]
    BY DEF StoreInv, Known, Inv, TypeOK, HistoryType
  <1>1. ASSUME NEW u \in Threads, delivered'[u] = delivered[u]
        PROVE  givenMap'[u] = givenMap[u]
    <2>1. CASE delivered[u] = None
      BY <1>1, <2>1 DEF givenMap
    <2>2. CASE delivered[u] # None
      <3>1. PICK i : i = delivered[u].inode_id
        OBVIOUS
      <3>2. output_files'[i] = output_files[i]
        BY <1>0, <1>1, <2>2, <3>1, OutputStays
      <3>3. /\ givenMap[u] = <<i, delivered[u].volume_id, output_files[i]>>
            /\ givenMap'[u] = <<i, delivered[u].volume_id, output_files'[i]>>
        BY <1>1, <2>2, <3>1 DEF givenMap
      <3> QED BY <3>2, <3>3
    <2> QED BY <2>1, <2>2
  <1>2. /\ DOMAIN givenMap = Threads /\ DOMAIN givenMap' = Threads
        /\ givenMap = [u \in Threads |-> givenMap[u]]
        /\ givenMap' = [u \in Threads |-> givenMap'[u]]
    BY DEF givenMap
  <1>3. UNCHANGED delivered => UNCHANGED givenMap
    BY <1>1, <1>2
  <1>4. ASSUME delivered' = [delivered EXCEPT ![t] = None]
        PROVE  givenMap' = [givenMap EXCEPT ![t] = None]
    <2>1. givenMap'[t] = None
      BY <1>0, <1>4 DEF givenMap
    <2>2. \A u \in Threads : u # t => givenMap'[u] = givenMap[u]
      BY <1>0, <1>1, <1>4
    <2> QED BY <1>2, <2>1, <2>2
  <1>5. ASSUME FillOutput(t)
        PROVE  givenMap' = [givenMap EXCEPT ![t] = GivenBy(t)]
    <2>1. PICK file : file = metadata[t]
      OBVIOUS
    <2>2. /\ delivered' = [delivered EXCEPT ![t] = file] /\ delivered'[t] = file
          /\ file \in FileRecord
      BY <1>0, <1>5, <2>1, FillDelivers
    <2>3. output_files'[file.inode_id] = content[t]
      BY <1>0, <1>5, <2>1, ReadEffect DEF Reading
    <2>4. givenMap'[t] = GivenBy(t)
      BY <2>1, <2>2, <2>3, NoneAssumption DEF givenMap, GivenBy
    <2>5. \A u \in Threads : u # t => givenMap'[u] = givenMap[u]
      BY <1>0, <1>1, <2>2
    <2>6. PICK x : x = GivenBy(t)
      OBVIOUS
    <2>7. givenMap' = [givenMap EXCEPT ![t] = x]
      BY <1>2, <2>4, <2>5, <2>6
    <2> QED BY <2>6, <2>7
  <1> QED BY <1>3, <1>4, <1>5

\* What the steps that are not visible to callers leave alone.
LEMMA QuietStep ==
    ASSUME NEW t \in Threads, Step(t), ~PushFile(t), ~FinishPack(t), ~FinishMount(t),
           ~FillOutput(t)
    PROVE  UNCHANGED <<source, sealed, accepted, mounted_volumes, delivered>>
  <1>1. CASE CollectStep(t)
    BY <1>1 DEF CollectStep, CompressFile, CompressFileFails, JoinCompress, Return,
                JoinCompressFails, CheckRoom, PushTooLarge, memVars, answers
  <1>2. CASE PackStep(t)
    BY <1>2 DEF PackStep, LockPack, NothingToPack, PlanVolume, PlaceFile, WriteHeader,
                WriteHeaderFails, WriteMeta, WriteMetaFails, ReadTemps, ReadTempsFails,
                JoinWrites, JoinWritesFails, PackFails, Return, memVars, answers
  <1>3. CASE MountReadStep(t)
    BY <1>3 DEF MountReadStep, MountRecord, MountRecordFails, ReadImage, ReadImageFails,
                FillOutputFails, Return, memVars, answers
  <1> QED BY <1>1, <1>2, <1>3 DEF Step

-----------------------------------------------------------------------------
(* Every step of a thread is a step of VolumeStore or invisible. *)

Before == StoreInv /\ ImageGrows /\ SourceGrows
After == Known' /\ Contents'

\* An answer of success is one for files that wait or are kept.
LEMMA AnswerMapped ==
    ASSUME NEW t \in Threads, Call(t) \/ Step(t), After, UNCHANGED keptMap
    PROVE  Store!Answer
  <1>1. accepted \subseteq accepted'
    BY HistoryFrame DEF Return
  <1>2. ASSUME NEW i \in accepted'
        PROVE  i \in collectedMap' \cup Store!KeptAnywhere
    <2>1. Kept(i)' /\ i \in InodeIds
      BY <1>2 DEF After, Contents, KeptSound, Known, Inv, TypeOK, HistoryType
    <2>2. i \in collectedMap' \/ \E v \in VolumeIds : i \in keptMap'[v]
      BY <2>1 DEF Kept, Stored, collectedMap, keptMap
    <2> QED BY <2>2 DEF Store!KeptAnywhere
  <1> QED BY <1>1, <1>2 DEF Store!Answer

\* AddFileToCollect and AddFilesToCollect issue new ids.
LEMMA AddMapped ==
    ASSUME NEW t \in Threads, FreshIds, Before, After,
           CallAdd(t) \/ CallBatch(t)
    PROVE  Store!Issue(t)
  <1>0. Inv /\ Known /\ Known' /\ ImageGrows /\ SourceGrows /\ (Call(t) \/ Step(t))
    BY DEF Before, After, StoreInv, Known, Call
  <1>1. PICK s \in Seq(FileTask) :
          /\ \A k \in DOMAIN s : source[s[k].inode_id] = None
                                 /\ source'[s[k].inode_id] = s[k].path
          /\ \A i \in InodeIds : i \notin InodesOf(s) => source'[i] = source[i]
    BY <1>0, AddEffect
  <1> DEFINE S == InodesOf(s)
             f == [i \in S |-> source'[i]]
  <1>2. S \in SUBSET {i \in InodeIds : source[i] = None}
    BY <1>1, InodesType DEF InodesOf
  <1>3. f \in [S -> Paths]
    <2>1. \A k \in DOMAIN s : s[k] \in FileTask
      OBVIOUS
    <2>2. \A i \in S : source'[i] \in Paths
      BY <1>1, <2>1 DEF InodesOf, FileTask
    <2> QED BY <2>2
  <1>4. source' = [i \in InodeIds |-> IF i \in S THEN f[i] ELSE source[i]]
    <2>1. source' = [i \in InodeIds |-> source'[i]]
      BY <1>0 DEF Known, Inv, TypeOK, HistoryType
    <2> HIDE DEF S
    <2> QED BY <1>1, <2>1 DEF S
  <1>5. /\ UNCHANGED <<pending_files, images, sealed, accepted, mounted_volumes>>
        /\ delivered' = [delivered EXCEPT ![t] = None]
    BY DEF CallAdd, CallBatch, Begin, memVars, diskVars
  <1>6. givenMap' = [givenMap EXCEPT ![t] = None]
    BY <1>0, <1>5, GivenStep DEF Before
  <1>7. UNCHANGED keptMap /\ UNCHANGED collectedMap
    BY <1>0, <1>5, KeptUnchanged DEF collectedMap, InodesOf
  <1> HIDE DEF S, f
  <1>8. \E R \in SUBSET {i \in InodeIds : source[i] = None} :
          \E g \in [R -> Paths] :
             source' = [i \in InodeIds |-> IF i \in R THEN g[i] ELSE source[i]]
    BY <1>2, <1>3, <1>4
  <1> QED BY <1>5, <1>6, <1>7, <1>8 DEF Store!Issue, Store!Forget

\* The other calls forget the last answer; an unmount makes a volume unreadable.
LEMMA CallMapped ==
    ASSUME NEW t \in Threads, FreshIds, Before, After, Call(t),
           ~CallAdd(t), ~CallBatch(t)
    PROVE  Store!Begin(t) \/ \E v \in VolumeIds : Store!Unmount(t, v)
  <1>0. Inv /\ Known /\ Known' /\ ImageGrows /\ SourceGrows /\ StoreInv
    BY DEF Before, After, StoreInv, Known
  <1>1. UNCHANGED <<pending_files, images, source, sealed, accepted>>
    BY DEF Call, CallPack, CallMount, CallRead, Unmount, memVars, diskVars
  <1>2. givenMap' = [givenMap EXCEPT ![t] = None]
    BY <1>0, GivenStep, BeginForgets
  <1>3. UNCHANGED keptMap /\ UNCHANGED collectedMap
    BY <1>0, <1>1, KeptUnchanged DEF collectedMap, InodesOf
  <1>4. CASE Unmount(t)
    <2>1. PICK v \in mounted_volumes : mounted_volumes' = mounted_volumes \ {v}
      BY <1>4 DEF Unmount
    <2>2. v \in VolumeIds
      BY <1>0 DEF Inv, TypeOK, MemoryType
    <2> QED BY <1>1, <1>2, <1>3, <2>1, <2>2 DEF Store!Unmount, Store!Forget
  <1>5. CASE CallPack(t) \/ CallMount(t) \/ CallRead(t)
    <2>1. UNCHANGED mounted_volumes
      BY <1>5 DEF CallPack, CallMount, CallRead, memVars
    <2> QED BY <1>1, <1>2, <1>3, <2>1 DEF Store!Begin, Store!Forget
  <1> QED BY <1>4, <1>5 DEF Call

\* The append of a file collects it, once.
LEMMA PushMapped ==
    ASSUME NEW t \in Threads, Before, After, PushFile(t), Call(t) \/ Step(t)
    PROVE  \E i \in InodeIds : Store!Collect(i)
  <1>0. /\ Inv /\ Known /\ Known' /\ ImageGrows /\ SourceGrows /\ StoreInv
        /\ SourcesKnown /\ CallPhases /\ IdsOwned
    BY DEF Before, After, StoreInv, Known, Staging
  <1> DEFINE k == index[t]
             i == tasks[t][k].inode_id
  <1>1. k \in DOMAIN tasks[t] /\ k \in Unpushed(t)
    BY <1>0, PushEffect, PushedOnce
  <1>2. i \in InodeIds /\ source[i] # None
    <2>1. tasks[t][k] \in FileTask
      BY <1>0, PushEffect
    <2> QED BY <1>0, <1>1, <2>1, IdsAssumption DEF SourcesKnown, Issued, FileTask
  <1>3. ~Seen(i)
    BY <1>0, <1>1 DEF IdsOwned
  <1>4. i \notin collectedMap \cup Store!KeptAnywhere
    <2>1. ~Kept(i)
      BY <1>3 DEF Seen, Kept, Stored, StoredIn, InodesOf
    <2> HIDE DEF i
    <2> QED BY <1>2, <2>1, KeptMapped
  <1>5. collectedMap' = collectedMap \cup {i}
    <2>1. /\ DOMAIN pending_files' = DOMAIN pending_files \cup {Len(pending_files) + 1}
          /\ pending_files'[Len(pending_files) + 1].inode_id = i
          /\ \A j \in DOMAIN pending_files : pending_files'[j] = pending_files[j]
          /\ Len(pending_files) + 1 \notin DOMAIN pending_files
      <3> DEFINE file == [inode_id |-> tasks[t][k].inode_id, path |-> tasks[t][k].path,
                          volume_id |-> None, offset_in_volume |-> 0]
      <3>1. /\ DOMAIN pending_files' = DOMAIN pending_files \cup {Len(pending_files) + 1}
            /\ pending_files'[Len(pending_files) + 1] = file
            /\ \A j \in DOMAIN pending_files : pending_files'[j] = pending_files[j]
            /\ Len(pending_files) + 1 \notin DOMAIN pending_files
        BY <1>0, PushEffect
      <3>2. file.inode_id = i
        OBVIOUS
      <3> HIDE DEF file, i
      <3> QED BY <3>1, <3>2
    <2> HIDE DEF i
    <2> QED BY <2>1 DEF collectedMap, InodesOf
  <1>6. UNCHANGED <<source, sealed, images, mounted_volumes, delivered>>
    BY DEF PushFile, diskVars
  <1>7. UNCHANGED keptMap /\ UNCHANGED givenMap
    BY <1>0, <1>6, KeptUnchanged, GivenStep
  <1>8. Store!Answer
    BY <1>7, AnswerMapped
  <1> HIDE DEF i
  <1>9. Store!Collect(i)
    BY <1>2, <1>4, <1>5, <1>6, <1>7, <1>8 DEF Store!Collect
  <1> QED BY <1>2, <1>9

\* The end of a pack seals its volume.
LEMMA FinishMapped ==
    ASSUME NEW t \in Threads, Before, After, FinishPack(t),
           Call(t) \/ Step(t)
    PROVE  \E v \in VolumeIds : Store!Seal(v)
  <1>0. /\ Inv /\ Known /\ Known' /\ ImageGrows /\ SourceGrows /\ StoreInv
        /\ pending_files \in Seq(FileRecord)
    BY DEF Before, After, StoreInv, Known, Inv, TypeOK, MemoryType
  <1> DEFINE v == volume_meta[t].volume_id
  <1>1. PICK i : i \in InodesOf(pending_files)
    <2>1. pending_files # <<>>
      BY <1>0 DEF FinishPack, StoreInv, PackFilled, LockedPackPcs
    <2> QED BY <1>0, <2>1 DEF InodesOf
  <1>2. v \in VolumeIds /\ v \notin sealed \cup mounted_volumes
    <2>1. v \in VolumeIds /\ v \notin mounted_volumes
      BY <1>0, <1>1, PackStores
    <2>2. v \notin sealed
      BY <1>0 DEF FinishPack, LockedPackPcs, StoreInv, Reading, PackUnread
    <2> QED BY <2>1, <2>2
  <1>3. collectedMap \subseteq keptMap[v]
    BY <1>0, <1>2, PackStores, KnownInodes DEF collectedMap, keptMap
  <1>4. /\ pending_files' = <<>>
        /\ mounted_volumes' = mounted_volumes \cup {v} /\ sealed' = sealed \cup {v}
        /\ UNCHANGED <<source, images, delivered>>
    BY DEF FinishPack, ClearPending
  <1>5. UNCHANGED keptMap /\ UNCHANGED givenMap
    BY <1>0, <1>4, KeptUnchanged, GivenStep
  <1>6. Store!Answer
    BY <1>5, AnswerMapped
  <1>7. collectedMap # {} /\ collectedMap' = {}
    BY <1>1, <1>4 DEF collectedMap, InodesOf
  <1> HIDE DEF v
  <1>8. Store!Seal(v)
    BY <1>2, <1>3, <1>4, <1>5, <1>6, <1>7 DEF Store!Seal
  <1> QED BY <1>2, <1>8

LEMMA MountMapped ==
    ASSUME NEW t \in Threads, Before, After, FinishMount(t),
           Call(t) \/ Step(t)
    PROVE  \E v \in VolumeIds : Store!Mount(v)
  <1>0. Inv /\ Known /\ Known' /\ Contents /\ ImageGrows /\ SourceGrows /\ StoreInv
    BY DEF Before, After, StoreInv, Known
  <1> DEFINE v == volume_meta[t].volume_id
  <1>1. v \in VolumeIds
    BY <1>0, EndsWhole DEF Contents
  <1>2. tasks[t] = <<>>
    BY <1>0 DEF FinishMount, Known, Staging, CallPhases, PhaseAt, MountReadPcs
  <1>3. accepted' = accepted
    BY <1>2 DEF FinishMount, Return, InodesOf
  <1>4. /\ mounted_volumes' = mounted_volumes \cup {v}
        /\ UNCHANGED <<source, sealed, pending_files, images, delivered>>
    BY DEF FinishMount, diskVars
  <1>5. UNCHANGED keptMap /\ UNCHANGED givenMap /\ UNCHANGED collectedMap
    BY <1>0, <1>4, KeptUnchanged, GivenStep DEF collectedMap, InodesOf
  <1> HIDE DEF v
  <1>6. Store!Mount(v)
    BY <1>3, <1>4, <1>5 DEF Store!Mount
  <1> QED BY <1>1, <1>6

LEMMA FillMapped ==
    ASSUME NEW t \in Threads, Before, After, FillOutput(t), Call(t) \/ Step(t)
    PROVE  \E v \in VolumeIds, i \in InodeIds :
              Store!Read(t, v, i) \/ Store!ReadDamaged(t, v, i)
  <1>0. /\ Inv /\ Known /\ Known' /\ Contents /\ Reading
        /\ ImageGrows /\ SourceGrows /\ StoreInv
    BY DEF Before, After, StoreInv, Known
  <1>1. PICK i, v : i = metadata[t].inode_id /\ v = metadata[t].volume_id
    OBVIOUS
  <1>2. /\ i \in InodeIds /\ v \in VolumeIds /\ source[i] \in Paths
        /\ output_files'[i] = content[t]
        /\ \/ output_files'[i] = source[i] /\ StoredIn(i, v)
           \/ output_files'[i] = Torn /\ v \notin sealed
        /\ UNCHANGED <<source, sealed, images, pending_files, mounted_volumes>>
    BY <1>0, <1>1, FillDelivers, ReadEffect DEF Reading
  <1>3. tasks[t] = <<>>
    BY <1>0 DEF FillOutput, Known, Staging, CallPhases, PhaseAt, MountReadPcs
  <1>4. accepted' = accepted
    BY <1>3 DEF FillOutput, Return, InodesOf
  <1>5. givenMap' = [givenMap EXCEPT ![t] = <<i, v, content[t]>>]
    BY <1>0, <1>1, GivenStep DEF GivenBy
  <1>6. UNCHANGED keptMap /\ UNCHANGED collectedMap
    BY <1>0, <1>2, KeptUnchanged DEF collectedMap, InodesOf
  <1>7. CASE content[t] = source[i] /\ StoredIn(i, v)
    <2>1. i \in keptMap[v]
      BY <1>2, <1>7 DEF keptMap
    <2>2. Store!Read(t, v, i)
      BY <1>2, <1>4, <1>5, <1>6, <1>7, <2>1 DEF Store!Read
    <2> QED BY <1>2, <2>2
  <1>8. CASE content[t] = Torn /\ v \notin sealed
    <2>1. source[i] # None
      BY <1>2, IdsAssumption
    <2>2. Store!ReadDamaged(t, v, i)
      BY <1>2, <1>4, <1>5, <1>6, <1>8, <2>1 DEF Store!ReadDamaged
    <2> QED BY <1>2, <2>2
  <1> QED BY <1>2, <1>7, <1>8

\* A new header, whole or torn, makes an image of nothing out of no image.
LEMMA HeaderKept ==
    ASSUME NEW t \in Threads, Known, Known', ImageGrows, SourceGrows,
           WriteHeader(t) \/ WriteHeaderFails(t), Call(t) \/ Step(t)
    PROVE  UNCHANGED keptMap
  <1>1. CASE UNCHANGED images
    BY <1>1, KeptUnchanged
  <1>2. CASE ~UNCHANGED images
    <2>1. pc[t] = "header" /\ pc[t] \in LockedPackPcs
      BY DEF WriteHeader, WriteHeaderFails, LockedPackPcs
    <2>2. PICK v \in VolumeIds : v = volume_meta[t].volume_id /\ images[v] = None
      BY <2>1, PackLocals DEF Known, Layout, PlannedAt
    <2>3. /\ images'[v].metas = <<>>
          /\ \A w \in VolumeIds : w # v => images'[w] = images[w]
      <3>1. PICK h \in {volume_meta[t], Torn} :
              images' = [images EXCEPT ![v] = [header |-> h, metas |-> <<>>, data |-> {}]]
        BY <1>2, <2>2 DEF WriteHeader, WriteHeaderFails
      <3>2. images'[v] = [header |-> h, metas |-> <<>>, data |-> {}]
        BY <2>2, <3>1 DEF Known, Inv, TypeOK, DiskType
      <3>3. \A w \in VolumeIds : w # v => images'[w] = images[w]
        BY <3>1 DEF Known, Inv, TypeOK, DiskType
      <3> QED BY <3>2, <3>3
    <2>4. \A i \in InodeIds : ~StoredIn(i, v) /\ ~StoredIn(i, v)'
      BY <2>2, <2>3 DEF StoredIn
    <2>5. \A w \in VolumeIds : keptMap'[w] = keptMap[w]
      <3>1. keptMap[v] = {} /\ keptMap'[v] = {}
        BY <2>2, <2>4 DEF keptMap
      <3>2. ASSUME NEW w \in VolumeIds, w # v
            PROVE  keptMap'[w] = keptMap[w]
        BY <2>3, <3>2, StoredStays, KeptBefore DEF keptMap
      <3> QED BY <3>1, <3>2
    <2> QED BY <2>5 DEF keptMap
  <1> QED BY <1>1, <1>2

\* The last record makes an image keep the files of which no byte is needed.
LEMMA MetaKept ==
    ASSUME NEW t \in Threads, Known, Known', ImageGrows, SourceGrows, WriteMeta(t)
    PROVE  \E v \in VolumeIds :
              /\ keptMap' = [keptMap EXCEPT ![v] = @ \cup keptMap'[v]]
              /\ keptMap'[v] \subseteq collectedMap
  <1>1. PICK v \in VolumeIds :
        /\ \A w \in VolumeIds : w # v => images'[w] = images[w]
        /\ \A k \in DOMAIN images'[v].metas : images'[v].metas[k] = pending_files[k]
        /\ images'[v] \in Image /\ Len(images'[v].metas) = index[t]
    BY AppendEffect DEF Known
  <1>2. DOMAIN images'[v].metas \subseteq DOMAIN pending_files
    <2>1. pc[t] = "metas" /\ pc[t] \in LockedPackPcs
      BY DEF WriteMeta, LockedPackPcs
    <2>2. /\ pending_files \in Seq(FileRecord) /\ index[t] \in Nat \ {0}
          /\ index[t] \in DOMAIN pending_files
      BY <2>1, PackLocals DEF Known
    <2>3. images'[v].metas \in Seq(FileRecord)
      BY <1>1 DEF Image
    <2>4. /\ DOMAIN images'[v].metas = 1 .. index[t]
          /\ DOMAIN pending_files = 1 .. Len(pending_files)
          /\ Len(pending_files) \in Nat
      BY <1>1, <2>2, <2>3
    <2> QED BY <2>2, <2>4
  <1>3. keptMap'[v] \subseteq collectedMap
    <2>1. ASSUME NEW i \in InodeIds, StoredIn(i, v)'
          PROVE  i \in collectedMap
      <3>1. PICK k \in DOMAIN images'[v].metas : images'[v].metas[k].inode_id = i
        BY <2>1 DEF StoredIn
      <3> QED BY <1>1, <1>2, <3>1 DEF collectedMap, InodesOf
    <2> QED BY <2>1 DEF keptMap
  <1>4. keptMap' = [keptMap EXCEPT ![v] = @ \cup keptMap'[v]]
    BY <1>1, KeptWritten
  <1> QED BY <1>3, <1>4

\* A write of a pool task makes its image keep its own file at most: the bytes of no
\* other file are where it writes.
LEMMA WriteKept ==
    ASSUME NEW task \in pool, Known, Known', Contents, ImageGrows, SourceGrows,
           RunTask(task), task.kind = "write"
    PROVE  \E v \in VolumeIds :
              /\ keptMap' = [keptMap EXCEPT ![v] = @ \cup keptMap'[v]]
              /\ keptMap'[v] \subseteq collectedMap \cup Store!KeptAnywhere
  <1>1. PICK v \in VolumeIds : v = task.volume_id
    BY WriteEffect DEF Known
  <1>2. /\ images[v] \in Image /\ images'[v] \in Image
        /\ images'[v].header = images[v].header
        /\ images'[v].metas = images[v].metas
        /\ \A d \in images'[v].data :
              \/ d \in images[v].data
              \/ d.size # 0 /\ d \in {task.extent, Torned(task.extent)}
        /\ \A w \in VolumeIds : w # v => images'[w] = images[w]
    BY <1>1, WriteEffect DEF Known
  <1>3. images[v] # None /\ images'[v] # None
    BY <1>2, NoneAssumption
  <1>4. UNCHANGED source
    BY WorkerFiles DEF Known
  <1> DEFINE metas == images[v].metas
  <1>5. metas \in Seq(FileRecord) /\ \A k \in DOMAIN metas : metas[k].volume_id = v
    BY <1>2, <1>3 DEF Image, Known, Layout, ImageSound
  <1>6. /\ task.k \in DOMAIN metas
        /\ task.extent = ExtentOf(metas[task.k])
    BY <1>1 DEF Known, Layout, WriteSound
  <1>7. ASSUME NEW i \in InodeIds, StoredIn(i, v)'
        PROVE  Kept(i)
    <2>1. PICK k \in DOMAIN metas : /\ metas[k].inode_id = i
                                    /\ (Frames(images[v].metas[k]))' = {source[i]}
      BY <1>2, <1>4, <1>7 DEF StoredIn
    <2> DEFINE file == metas[k]
    <2>2. file.volume_id = v /\ file \in FileRecord /\ file' = file
      BY <1>2, <1>5
    <2>3. source[i] = file.path /\ source[i] # Torn
      BY <1>3, <2>1, <2>2, IdsAssumption DEF Known, Staging, SourcesKnown, Issued, FileRecord
    <2>4. images[v].header # Torn /\ Len(metas) = images[v].header.file_count
      BY <1>2, <1>7 DEF StoredIn
    <2>5. ASSUME Frames(file) = {file.path}
          PROVE  Kept(i)
      <3>1. StoredIn(i, v)
        BY <1>3, <2>1, <2>3, <2>4, <2>5 DEF StoredIn
      <3> QED BY <3>1 DEF Kept, Stored
    <2>6. CASE CompressedSize[file.path] = 0
      BY <2>5, <2>6 DEF Frames
    <2>7. CASE CompressedSize[file.path] # 0
      <3>1. PICK d \in images'[v].data : /\ d.offset = file.offset_in_volume
                                         /\ d.size = CompressedSize[file.path]
                                         /\ d.content # Torn
                                         /\ d.content = file.path
        BY <2>1, <2>2, <2>3, <2>7 DEF Frames
      <3>2. CASE d \in images[v].data
        <4>1. file.path \in Frames(file)
          BY <2>2, <2>7, <3>1, <3>2 DEF Frames
        <4>2. Frames(file) \subseteq {file.path}
          BY <1>3, <2>1, FramesSound DEF Known, Layout
        <4> QED BY <2>5, <4>1, <4>2
      <3>3. CASE d \notin images[v].data
        <4>1. d = ExtentOf(metas[task.k])
          BY <1>2, <1>6, <3>1, <3>3 DEF Torned, ExtentOf
        <4>2. k = task.k
          <5>1. PICK lo, hi : LaidOut(metas, DOMAIN metas, lo, hi)
            BY <1>3, <2>4 DEF Known, Layout, ImageSound
          <5>2. k \in DOMAIN metas /\ task.k \in DOMAIN metas
            BY <1>6
          <5>3. metas[k] \in FileRecord /\ metas[task.k] \in FileRecord
            BY <1>5, <1>6
          <5>4. /\ Start(metas[task.k]) = Start(metas[k])
                /\ CompressedSize[metas[task.k].path] = CompressedSize[metas[k].path]
            BY <3>1, <4>1 DEF ExtentOf, Start
          <5>5. /\ Start(metas[k]) \in Nat
                /\ CompressedSize[metas[k].path] \in Nat \ {0}
            BY <2>7, <5>3, SizesAssumption DEF Start, FileRecord
          <5>6. Overlap(ExtentOf(metas[task.k]), ExtentOf(metas[k]))
            BY <5>4, <5>5 DEF Overlap, ExtentOf
          <5> HIDE DEF metas
          <5> QED BY <1>5, <5>1, <5>2, <5>6, LaidApart
        <4>3. i \in Queued
          BY <1>1, <2>1, <4>2 DEF Queued
        <4> QED BY <4>3 DEF Contents, KeptSound
      <3> QED BY <3>2, <3>3
    <2> QED BY <2>6, <2>7
  <1>8. keptMap'[v] \subseteq collectedMap \cup Store!KeptAnywhere
    BY <1>7, KeptMapped DEF keptMap
  <1>9. keptMap' = [keptMap EXCEPT ![v] = @ \cup keptMap'[v]]
    BY <1>2, KeptWritten
  <1> QED BY <1>8, <1>9

\* The steps of a thread inside a call.
LEMMA StepMapped ==
    ASSUME NEW t \in Threads, Before, After, Step(t)
    PROVE  [Store!Next]_(Store!storeVars)
  <1>0. /\ Inv /\ Known /\ Known' /\ Contents /\ ImageGrows /\ SourceGrows /\ StoreInv
        /\ (Call(t) \/ Step(t))
    BY DEF Before, After, StoreInv, Known
  <1>1. CASE PushFile(t)
    BY <1>0, <1>1, PushMapped DEF Store!Next
  <1>2. CASE FinishPack(t)
    BY <1>0, <1>2, FinishMapped DEF Store!Next
  <1>3. CASE FinishMount(t)
    BY <1>0, <1>3, MountMapped DEF Store!Next
  <1>4. CASE FillOutput(t)
    BY <1>0, <1>4, FillMapped DEF Store!Next
  <1>5. CASE ~PushFile(t) /\ ~FinishPack(t) /\ ~FinishMount(t) /\ ~FillOutput(t)
    <2>1. UNCHANGED <<source, sealed, accepted, mounted_volumes>> /\ UNCHANGED delivered
      BY <1>5, QuietStep
    <2>2. UNCHANGED collectedMap /\ UNCHANGED givenMap
      BY <1>0, <1>5, <2>1, CollectedUnchanged, GivenStep
    <2>3. CASE WriteMeta(t)
      <3>1. PICK v \in VolumeIds : /\ keptMap' = [keptMap EXCEPT ![v] = @ \cup keptMap'[v]]
                                   /\ keptMap'[v] \subseteq collectedMap
        BY <1>0, <2>3, MetaKept
      <3>2. \E S \in SUBSET (collectedMap \cup Store!KeptAnywhere) :
               keptMap' = [keptMap EXCEPT ![v] = @ \cup S]
        BY <3>1
      <3>3. Store!Write(v)
        BY <2>1, <2>2, <3>2 DEF Store!Write
      <3> QED BY <3>3 DEF Store!Next
    <2>4. CASE ~WriteMeta(t)
      <3>1. UNCHANGED keptMap
        <4>1. CASE UNCHANGED images
          BY <1>0, <4>1, KeptUnchanged
        <4>2. CASE WriteHeader(t) \/ WriteHeaderFails(t)
          BY <1>0, <4>2, HeaderKept
        <4> QED BY <1>0, <2>4, <4>1, <4>2, ImagesEffect
      <3> QED BY <2>1, <2>2, <3>1 DEF Store!storeVars
    <2> QED BY <2>3, <2>4
  <1> QED BY <1>1, <1>2, <1>3, <1>4, <1>5

LEMMA WorkerMapped ==
    ASSUME NEW task \in pool, Before, After, RunTask(task)
    PROVE  [Store!Next]_(Store!storeVars)
  <1>0. Inv /\ Known /\ Known' /\ Contents /\ ImageGrows /\ SourceGrows
    BY DEF Before, After, StoreInv, Known
  <1>1. UNCHANGED <<source, mounted_volumes, pending_files>>
    BY <1>0, WorkerFiles
  <1>2. UNCHANGED <<sealed, accepted, delivered, output_files>>
    BY DEF RunTask, RunCompress, RunCompressFails, RunWrite, RunWriteFails, answers
  <1>3. UNCHANGED collectedMap /\ UNCHANGED givenMap
    BY <1>1, <1>2 DEF collectedMap, InodesOf, givenMap
  <1>4. CASE task.kind = "write"
    <2>1. PICK v \in VolumeIds :
             /\ keptMap' = [keptMap EXCEPT ![v] = @ \cup keptMap'[v]]
             /\ keptMap'[v] \subseteq collectedMap \cup Store!KeptAnywhere
      BY <1>0, <1>4, WriteKept
    <2>2. \E S \in SUBSET (collectedMap \cup Store!KeptAnywhere) :
             keptMap' = [keptMap EXCEPT ![v] = @ \cup S]
      BY <2>1
    <2>3. Store!Write(v)
      BY <1>1, <1>2, <1>3, <2>2 DEF Store!Write
    <2> QED BY <2>3 DEF Store!Next
  <1>5. CASE task.kind # "write"
    <2>1. UNCHANGED keptMap
      BY <1>0, <1>5, CompressEffect, KeptUnchanged
    <2> QED BY <1>1, <1>2, <1>3, <2>1 DEF Store!storeVars
  <1> QED BY <1>4, <1>5

LEMMA CrashMapped ==
    ASSUME Before, After, Crash
    PROVE  Store!Restart
  <1>1. /\ UNCHANGED <<images, source, sealed>>
        /\ accepted' = {} /\ mounted_volumes' = {} /\ pending_files' = <<>>
        /\ \A u \in Threads : delivered'[u] = None
    BY DEF Crash, Unset, diskVars
  <1>2. UNCHANGED keptMap
    BY <1>1, KeptUnchanged DEF Before, After, StoreInv
  <1>3. collectedMap' = {} /\ givenMap' = [c \in Threads |-> None]
    BY <1>1 DEF collectedMap, InodesOf, givenMap
  <1> QED BY <1>1, <1>2, <1>3 DEF Store!Restart

LEMMA StoreInit ==
    ASSUME Init
    PROVE  Store!Init
  <1>1. /\ source = [i \in InodeIds |-> None] /\ accepted = {} /\ mounted_volumes = {}
        /\ sealed = {}
        /\ pending_files = <<>>
        /\ \A v \in VolumeIds : images[v] = None
        /\ \A u \in Threads : delivered[u] = None
    BY DEF Init, NoInodes, Unset
  <1>2. collectedMap = {} /\ givenMap = [c \in Threads |-> None]
    BY <1>1 DEF collectedMap, InodesOf, givenMap
  <1>3. keptMap = [v \in VolumeIds |-> {}]
    BY <1>1 DEF keptMap, StoredIn
  <1> QED BY <1>1, <1>2, <1>3 DEF Store!Init

LEMMA StoreNext ==
    ASSUME FreshIds, SeparateReads, StoreInv, [Next]_vars
    PROVE  [Store!Next]_(Store!storeVars)
  <1>0. Before /\ After
    BY GrowNext, KnownNext, ContentsNext DEF Before, After, StoreInv
  <1>1. CASE \E t \in Threads : Call(t)
    <2>1. PICK t \in Threads : Call(t)
      BY <1>1
    <2>2. CASE CallAdd(t) \/ CallBatch(t)
      BY <1>0, <2>2, AddMapped DEF Store!Next
    <2>3. CASE ~CallAdd(t) /\ ~CallBatch(t)
      BY <1>0, <2>1, <2>3, CallMapped DEF Store!Next
    <2> QED BY <2>2, <2>3
  <1>2. CASE \E t \in Threads : Step(t)
    BY <1>0, <1>2, StepMapped
  <1>3. CASE Worker
    BY <1>0, <1>3, WorkerMapped DEF Worker
  <1>4. CASE Crash
    BY <1>0, <1>4, CrashMapped DEF Store!Next
  <1>5. CASE Stop \/ UNCHANGED vars
    <2>1. /\ UNCHANGED <<source, sealed, accepted, mounted_volumes, images>>
          /\ UNCHANGED <<pending_files, delivered, output_files>>
      BY <1>5 DEF Stop, vars, memVars, diskVars, answers
    <2>2. UNCHANGED keptMap
      BY <1>0, <2>1, KeptUnchanged DEF Before, After, StoreInv
    <2> QED BY <2>1, <2>2 DEF Store!storeVars, collectedMap, InodesOf, givenMap
  <1> QED BY <1>1, <1>2, <1>3, <1>4, <1>5 DEF Next

\* If the generator repeats no id and no thread reads an inode that another uses,
\* VolumeManager implements VolumeStore: whatever the interleaving of calls, pool
\* tasks, failed file operations and crashes, a file is collected once, a pack that
\* succeeds moves all that waited into one volume, no volume loses a file, an answer of
\* success is for a file that waits or is kept, and a good read from a volume whose
\* pack succeeded gives the content the file was added with.
THEOREM RefinesStore ==
    ASSUME FreshIds, SeparateReads
    PROVE  Spec => ImplementsStore
  <1>1. Init => Store!Init
    BY StoreInit
  <1>2. StoreInv /\ [Next]_vars => [Store!Next]_(Store!storeVars)
    BY StoreNext
  <1> QED BY <1>1, <1>2, StoreInvariance, PTL DEF Spec, ImplementsStore, Store!Spec
=============================================================================
