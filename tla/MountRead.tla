------------------------------- MODULE MountRead -------------------------------
(***************************************************************************)
(* MountVolume, UnmountVolume and ReadFile.  A mount reads the image       *)
(* without a lock and takes state_mutex_ once per metadata record; a read  *)
(* copies the metadata under the lock and does its I/O after releasing it. *)
(* The returns that change nothing (FILE_NOT_FOUND, INVALID_VOLUME_FORMAT  *)
(* of a bad header, INVALID_VOLUME_ID, VOLUME_NOT_FOUND, INODE_NOT_FOUND)  *)
(* are the guards of the actions that begin the calls.                     *)
(***************************************************************************)
EXTENDS VolumeState

\* What is left of ValidateVolumeMetadata for headers PackVolumeInternal wrote.
ValidateVolumeMetadata(m) == m.user_data_offset + m.user_data_size <= VolumeSize

\* The path of an image is known to callers once the pack that writes it ended.
BeingPacked(v) == \E u \in Threads : /\ pc[u] \in LockedPackPcs
                                     /\ volume_meta[u].volume_id = v

\* Another thread is about to insert into mounted_volumes_.
InsertingVolume(t) ==
    \E u \in Threads \ {t} :
       \/ pc[u] = "finish"
       \/ pc[u] = "mount" /\ index[u] > volume_meta[u].file_count

\* The header is read and validated.  mounted_volumes_ is searched without a lock: a
\* search that races with an insert may miss a volume that is there.
CallMount(t) ==
    /\ Begin(t, "mount")
    /\ \E v \in VolumeIds :
         /\ images[v] # None
         /\ ~BeingPacked(v)
         /\ images[v].header # Torn
         /\ ValidateVolumeMetadata(images[v].header)
         /\ v \notin mounted_volumes \/ InsertingVolume(t)
         /\ volume_meta' = [volume_meta EXCEPT ![t] = images[v].header]
    /\ index' = [index EXCEPT ![t] = 1]
    /\ Goto(t, "mount")
    /\ UNCHANGED <<memVars, diskVars, lockVars, poolVars, addVars, readVars, source,
                   sealed, accepted, faults, crashes>>

\* One iteration: a record goes into the cache under its own lock.
MountRecord(t) ==
    /\ pc[t] = "mount"
    /\ index[t] <= volume_meta[t].file_count
    /\ LET metas == images[volume_meta[t].volume_id].metas
       IN /\ index[t] <= Len(metas)
          /\ state_mutex = None
          /\ file_metadata_cache' =
                [file_metadata_cache EXCEPT ![metas[index[t]].inode_id] = metas[index[t]]]
    /\ index' = [index EXCEPT ![t] = @ + 1]
    /\ UNCHANGED <<pending_files, pending_size, mounted_volumes, diskVars, lockVars,
                   poolVars, pc, addVars, volume_meta, readVars, source, sealed,
                   answers, counters>>

\* The file ends before the record does, or a read fails: the records cached so
\* far stay cached.
MountRecordFails(t) ==
    /\ pc[t] = "mount"
    /\ index[t] <= volume_meta[t].file_count
    /\ \/ /\ index[t] > Len(images[volume_meta[t].volume_id].metas)
          /\ NoFault
       \/ Fault
    /\ Return(t, "INVALID_VOLUME_FORMAT")
    /\ UNCHANGED <<memVars, diskVars, lockVars, poolVars, source, sealed, delivered,
                   calls, crashes>>

FinishMount(t) ==
    /\ pc[t] = "mount"
    /\ index[t] > volume_meta[t].file_count
    /\ state_mutex = None
    /\ mounted_volumes' = mounted_volumes \cup {volume_meta[t].volume_id}
    /\ Return(t, "SUCCESS")
    /\ UNCHANGED <<pending_files, pending_size, file_metadata_cache, diskVars, lockVars,
                   poolVars, source, sealed, delivered, counters>>

\* The inodes of the volume leave the cache, the volume the mounted ones.
Unmount(t) ==
    /\ Begin(t, "unmount")
    /\ state_mutex = None
    /\ \E v \in mounted_volumes :
         /\ file_metadata_cache' =
              [i \in InodeIds |->
                 IF file_metadata_cache[i] # None /\ file_metadata_cache[i].volume_id = v
                 THEN None ELSE file_metadata_cache[i]]
         /\ mounted_volumes' = mounted_volumes \ {v}
    /\ UNCHANGED <<pending_files, pending_size, diskVars, lockVars, poolVars, pc,
                   addVars, packVars, readVars, source, sealed, accepted, faults,
                   crashes>>

\* The inode is being read by thread t, or t was given its output file last.
UsedBy(t, i) == \/ metadata[t] # None /\ metadata[t].inode_id = i
                \/ delivered[t] # None /\ delivered[t].inode_id = i

\* ReadFile: the lookup under the lock.  The path of the output file depends on the
\* inode only; with SeparateReads callers do not read an inode that another uses.
CallRead(t) ==
    /\ Begin(t, "read")
    /\ state_mutex = None
    /\ \E i \in InodeIds :
         /\ file_metadata_cache[i] # None
         /\ file_metadata_cache[i].volume_id \in mounted_volumes
         /\ SeparateReads => \A u \in Threads \ {t} : ~UsedBy(u, i)
         /\ metadata' = [metadata EXCEPT ![t] = file_metadata_cache[i]]
    /\ Goto(t, "read_image")
    /\ UNCHANGED <<memVars, diskVars, lockVars, poolVars, addVars, packVars, content,
                   source, sealed, accepted, faults, crashes>>

\* The content of the zstd frame at the place of the file, if the whole frame is there.
\* Of an empty file no byte is read.
Frames(file) ==
    IF CompressedSize[file.path] = 0 THEN {file.path}
    ELSE {e.content : e \in {d \in images[file.volume_id].data :
                                /\ d.offset = file.offset_in_volume
                                /\ d.size = CompressedSize[file.path]
                                /\ d.content # Torn}}

\* The ranges of an image that were written or that a pool task is writing.
UserData(v) ==
    {e \in images[v].data \cup
           {task.extent : task \in {w \in pool : w.kind = "write" /\ w.volume_id = v}} :
        e.size # 0}

\* A part of the frame is there: its write failed part way, or goes on after its pack has
\* failed.  Bytes behind it keep the read from meeting the end of the file.  (A place
\* where nothing was written holds zeros, which are no frame.)
FrameTorn(file) ==
    /\ Frames(file) = {}
    /\ \E e \in UserData(file.volume_id) : e.offset = file.offset_in_volume
    /\ \E e \in UserData(file.volume_id) : e.offset > file.offset_in_volume

\* What AsyncReadAt and DecompressDataZstd may return for the file.  Frames carry no
\* checksum: a torn one is refused, or decompressed to other bytes with SUCCESS.
Decompressed(file) == Frames(file) \cup {x \in {Torn} : FrameTorn(file)}

\* Read and decompress, then open the output file, which truncates it.
ReadImage(t) ==
    /\ pc[t] = "read_image"
    /\ \E p \in Decompressed(metadata[t]) : content' = [content EXCEPT ![t] = p]
    /\ output_files' = [output_files EXCEPT ![metadata[t].inode_id] = Torn]
    /\ Goto(t, "fill_output")
    /\ UNCHANGED <<memVars, temp_files, images, lockVars, poolVars, addVars, packVars,
                   metadata, source, sealed, answers, counters>>

ReadImageFails(t) ==
    /\ pc[t] = "read_image"
    /\ \/ /\ Frames(metadata[t]) = {}
          /\ NoFault
       \/ Fault
    /\ Return(t, "IO_ERROR")
    /\ UNCHANGED <<memVars, diskVars, lockVars, poolVars, source, sealed, delivered,
                   calls, crashes>>

FillOutput(t) ==
    /\ pc[t] = "fill_output"
    /\ output_files' = [output_files EXCEPT ![metadata[t].inode_id] = content[t]]
    /\ delivered' = [delivered EXCEPT ![t] = metadata[t]]
    /\ Return(t, "SUCCESS")
    /\ UNCHANGED <<memVars, temp_files, images, lockVars, poolVars, source, sealed,
                   counters>>

FillOutputFails(t) ==
    /\ pc[t] = "fill_output"
    /\ Fault
    /\ Return(t, "IO_ERROR")
    /\ UNCHANGED <<memVars, diskVars, lockVars, poolVars, source, sealed, delivered,
                   calls, crashes>>

MountReadStep(t) ==
    \/ MountRecord(t)
    \/ MountRecordFails(t)
    \/ FinishMount(t)
    \/ ReadImage(t)
    \/ ReadImageFails(t)
    \/ FillOutput(t)
    \/ FillOutputFails(t)
=============================================================================
