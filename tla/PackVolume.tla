------------------------------ MODULE PackVolume ------------------------------
(***************************************************************************)
(* PackVolumeInternal: how the pending files become one volume image.      *)
(* The call takes pack_mutex_, then state_mutex_, and holds both until it  *)
(* returns; the user data is written by tasks of the thread pool.  Every   *)
(* error path returns with the pending files still pending, so that the    *)
(* next pack tries them again under a new volume id, and leaves what it    *)
(* wrote of the image on disk.                                             *)
(***************************************************************************)
EXTENDS VolumeState

\* Mutant: the id may be INVALID_VOLUME_ID.
GenerateVolumeIdInvalid == {None}

\* Mutant: the id may be that of another volume.
GenerateVolumeIdUnchecked == VolumeIds

\* GenerateUniqueId until the id is not that of a mounted volume.
GenerateVolumeId ==
    {v \in VolumeIds : /\ v \notin mounted_volumes
                       /\ FreshIds => images[v] = None}

\* FlushPendingFiles and PackVolume.
CallPack(t) ==
    /\ Begin(t, "pack")
    /\ trigger' = [trigger EXCEPT ![t] = "Manual"]
    /\ Goto(t, "lock_pack")
    /\ UNCHANGED <<memVars, diskVars, lockVars, poolVars, tasks, packVars, readVars,
                   source, sealed, accepted, faults, crashes>>

LockPack(t) ==
    /\ pc[t] = "lock_pack"
    /\ pack_mutex = None
    /\ pack_mutex' = t
    /\ Goto(t, "lock_state")
    /\ UNCHANGED <<memVars, diskVars, state_mutex, poolVars, addVars, packVars,
                   readVars, source, sealed, answers, counters>>

\* Mutant: a pack that was to make room looks at the pending files again.
NothingToPackRetries(t) ==
    /\ pc[t] = "lock_state"
    /\ state_mutex = None
    /\ pending_files = <<>>
    /\ pack_mutex' = None
    /\ trigger' = [trigger EXCEPT ![t] = None]
    /\ IF trigger[t] = "AutoOverflow" THEN Goto(t, "check") ELSE Goto(t, "idle")
    /\ UNCHANGED <<memVars, diskVars, state_mutex, poolVars, tasks, packVars, readVars,
                   source, sealed, answers, counters>>

\* Nothing is pending: INVALID_PARAMETER, whatever the trigger was.
NothingToPack(t) ==
    /\ pc[t] = "lock_state"
    /\ state_mutex = None
    /\ pending_files = <<>>
    /\ pack_mutex' = None
    /\ Return(t, "INVALID_PARAMETER")
    /\ UNCHANGED <<memVars, diskVars, state_mutex, poolVars, source, sealed, delivered,
                   counters>>

\* The volume gets its id, the pending files get it too, and the user data area
\* will start after their metadata.
PlanVolume(t) ==
    /\ pc[t] = "lock_state"
    /\ state_mutex = None
    /\ pending_files # <<>>
    /\ state_mutex' = t
    /\ \E v \in GenerateVolumeId :
         /\ volume_meta' = [volume_meta EXCEPT ![t] =
                [volume_id |-> v, file_count |-> Len(pending_files),
                 user_data_offset |-> HeaderLen + RecordLen * Len(pending_files),
                 user_data_size |-> 0]]
         /\ pending_files' = [k \in DOMAIN pending_files |->
                                [pending_files[k] EXCEPT !.volume_id = v]]
    /\ index' = [index EXCEPT ![t] = 1]
    /\ Goto(t, "place")
    /\ UNCHANGED <<pending_size, file_metadata_cache, mounted_volumes, diskVars,
                   pack_mutex, poolVars, addVars, readVars, source, sealed, answers,
                   counters>>

\* Mutant: the loop ends one iteration late.
NextFilePastEnd(t, label) ==
    IF index[t] > Len(pending_files)
    THEN /\ index' = [index EXCEPT ![t] = 1]
         /\ Goto(t, label)
    ELSE /\ index' = [index EXCEPT ![t] = @ + 1]
         /\ UNCHANGED pc

\* Loop control of the loops over pending_files: the last iteration goes on to
\* the label after the loop.
NextFile(t, label) ==
    IF index[t] = Len(pending_files)
    THEN /\ index' = [index EXCEPT ![t] = 1]
         /\ Goto(t, label)
    ELSE /\ index' = [index EXCEPT ![t] = @ + 1]
         /\ UNCHANGED pc

\* Mutant: every file at the start of the user data area.
NextOffsetFixed(m) == m.user_data_offset

\* Where the next file goes.
NextOffset(m) == m.user_data_offset + m.user_data_size

\* One iteration of the loop that gives the files their place in the image.
PlaceFile(t) ==
    /\ pc[t] = "place"
    /\ pending_files' = [pending_files EXCEPT ![index[t]].offset_in_volume =
                                                   NextOffset(volume_meta[t])]
    /\ volume_meta' = [volume_meta EXCEPT ![t].user_data_size =
                           @ + CompressedSize[pending_files[index[t]].path]]
    /\ NextFile(t, "header")
    /\ UNCHANGED <<pending_size, file_metadata_cache, mounted_volumes, diskVars,
                   lockVars, poolVars, addVars, readVars, source, sealed, answers,
                   counters>>

\* Mutant: the guard of state_mutex_ outlives the call.
ReleasePackOnly == /\ pack_mutex' = None
                   /\ UNCHANGED state_mutex

\* The two lock guards go out of scope.
ReleaseLocks == /\ pack_mutex' = None
                /\ state_mutex' = None

\* Every error return.
PackFails(t, code) ==
    /\ ReleaseLocks
    /\ Return(t, code)
    /\ UNCHANGED <<pending_files, pending_size, mounted_volumes, temp_files,
                   output_files, source, sealed, delivered, calls, crashes>>

\* AsyncWriteAll of the header creates or truncates the image file.
WriteHeader(t) ==
    /\ pc[t] = "header"
    /\ LET v == volume_meta[t].volume_id
       IN images' = [images EXCEPT ![v] =
                        [header |-> volume_meta[t], metas |-> <<>>, data |-> {}]]
    /\ Goto(t, "metas")
    /\ UNCHANGED <<memVars, temp_files, output_files, lockVars, poolVars, addVars,
                   packVars, readVars, source, sealed, answers, counters>>

WriteHeaderFails(t) ==
    /\ pc[t] = "header"
    /\ Fault
    /\ LET v == volume_meta[t].volume_id
       IN \/ UNCHANGED images
          \/ images' = [images EXCEPT ![v] = [header |-> Torn, metas |-> <<>>, data |-> {}]]
    /\ PackFails(t, "IO_ERROR")
    /\ UNCHANGED <<file_metadata_cache, poolVars>>

\* Mutant: the cache is not told.
CachePlaceForgotten(file) == UNCHANGED file_metadata_cache

\* The cache, if it still has the inode, learns where the file will be.
CachePlace(file) ==
    LET i == file.inode_id
    IN file_metadata_cache' =
          IF file_metadata_cache[i] = None THEN file_metadata_cache
          ELSE [file_metadata_cache EXCEPT ![i].volume_id = file.volume_id,
                                           ![i].offset_in_volume = file.offset_in_volume]

\* One iteration of the loop that writes the metadata records.
WriteMeta(t) ==
    /\ pc[t] = "metas"
    /\ LET file == pending_files[index[t]]
       IN /\ images' = [images EXCEPT ![volume_meta[t].volume_id].metas = Append(@, file)]
          /\ CachePlace(file)
    /\ NextFile(t, "read_temps")
    /\ UNCHANGED <<pending_files, pending_size, mounted_volumes, temp_files,
                   output_files, lockVars, poolVars, addVars, volume_meta, readVars,
                   source, sealed, answers, counters>>

\* A record written in part ends the metadata area like one not written at all.
WriteMetaFails(t) ==
    /\ pc[t] = "metas"
    /\ Fault
    /\ PackFails(t, "IO_ERROR")
    /\ UNCHANGED <<file_metadata_cache, images, poolVars>>

TempPresent(file) == temp_files[file.inode_id] # None

\* What the pool task for the k-th file will write: all the bytes of its temp file.
WriteTaskOf(t, k) ==
    LET file == pending_files[k]
        bytes == temp_files[file.inode_id]
    IN [kind |-> "write", owner |-> t, k |-> k, volume_id |-> volume_meta[t].volume_id,
        extent |-> [offset |-> file.offset_in_volume,
                    size |-> CompressedSize[IF bytes = Torn THEN file.path ELSE bytes],
                    content |-> bytes]]

\* The read tasks are joined before the write tasks are enqueued.
ReadTemps(t) ==
    /\ pc[t] = "read_temps"
    /\ \A k \in DOMAIN pending_files : TempPresent(pending_files[k])
    /\ pool' = pool \cup {WriteTaskOf(t, k) : k \in DOMAIN pending_files}
    /\ Goto(t, "join_writes")
    /\ UNCHANGED <<memVars, diskVars, lockVars, failed, addVars, packVars, readVars,
                   source, sealed, answers, counters>>

\* A temp file is missing (FILE_NOT_FOUND) or cannot be read (IO_ERROR).
ReadTempsFails(t) ==
    /\ pc[t] = "read_temps"
    /\ \/ /\ \E k \in DOMAIN pending_files : ~TempPresent(pending_files[k])
          /\ NoFault
       \/ Fault
    /\ PackFails(t, "IO_ERROR")
    /\ UNCHANGED <<file_metadata_cache, images, poolVars>>

Overlap(e, f) == /\ e.offset < f.offset + f.size
                 /\ f.offset < e.offset + e.size

\* The data area after e was written; no bytes, no extent.
Overwrite(data, e) ==
    {d \in data : ~Overlap(d, e)} \cup (IF e.size = 0 THEN {} ELSE {e})

\* AsyncWriteAt in a worker; the call that enqueued it may have returned.
RunWrite(task) ==
    /\ task.kind = "write"
    /\ pool' = pool \ {task}
    /\ images' = [images EXCEPT ![task.volume_id].data = Overwrite(@, task.extent)]
    /\ UNCHANGED <<memVars, temp_files, output_files, lockVars, failed, pc, addVars,
                   packVars, readVars, source, sealed, answers, counters>>

RunWriteFails(task) ==
    /\ task.kind = "write"
    /\ TaskFails(task)
    /\ \/ UNCHANGED images
       \/ images' = [images EXCEPT ![task.volume_id].data =
                        Overwrite(@, [task.extent EXCEPT !.content = Torn])]
    /\ UNCHANGED <<memVars, temp_files, output_files, lockVars, pc, addVars, packVars,
                   readVars, source, sealed, answers, calls, crashes>>

\* Mutant: the image is removed on an error, whoever still writes to it.
JoinWritesFailsCleaning(t) ==
    /\ pc[t] = "join_writes"
    /\ FutureFails(t)
    /\ DropFutures(t)
    /\ images' = [images EXCEPT ![volume_meta[t].volume_id] = None]
    /\ PackFails(t, "IO_ERROR")
    /\ UNCHANGED <<file_metadata_cache, faults>>

\* task.get() in order: the first error returns, later tasks may still run.
JoinWritesFails(t) ==
    /\ pc[t] = "join_writes"
    /\ FutureFails(t)
    /\ DropFutures(t)
    /\ PackFails(t, "IO_ERROR")
    /\ UNCHANGED <<file_metadata_cache, images, faults>>

JoinWrites(t) ==
    /\ pc[t] = "join_writes"
    /\ FuturesDone(t)
    /\ Goto(t, "finish")
    /\ UNCHANGED <<memVars, diskVars, lockVars, poolVars, addVars, packVars, readVars,
                   source, sealed, answers, counters>>

\* AsyncDeleteFile of every temp file; a failure is ignored and the file stays.
DeleteTemps(inodes) ==
    \/ /\ temp_files' = [i \in InodeIds |-> IF i \in inodes THEN None ELSE temp_files[i]]
       /\ NoFault
    \/ \E kept \in inodes :
         /\ temp_files' = [i \in InodeIds |-> IF i \in inodes \ {kept} THEN None
                                                                     ELSE temp_files[i]]
         /\ Fault

\* Mutant: the running size is not reset.
ClearPendingFilesOnly == /\ pending_files' = <<>>
                         /\ UNCHANGED pending_size

ClearPending == /\ pending_files' = <<>>
                /\ pending_size' = 0

\* The volume is whole and mounted, the pending files are forgotten, the mutexes released.
\* A pack that made room for an add goes on with the add; any other returns.  The
\* reporter, called before the mutexes are released, changes no state of the manager.
FinishPack(t) ==
    /\ pc[t] = "finish"
    /\ DeleteTemps(InodesOf(pending_files))
    /\ mounted_volumes' = mounted_volumes \cup {volume_meta[t].volume_id}
    /\ sealed' = sealed \cup {volume_meta[t].volume_id}
    /\ ClearPending
    /\ ReleaseLocks
    /\ IF trigger[t] = "AutoOverflow"
       THEN /\ Goto(t, "push")
            /\ trigger' = [trigger EXCEPT ![t] = None]
            /\ volume_meta' = [volume_meta EXCEPT ![t] = None]
            /\ UNCHANGED <<tasks, index, readVars, accepted>>
       ELSE Return(t, "SUCCESS")
    /\ UNCHANGED <<file_metadata_cache, images, output_files, poolVars, source,
                   delivered, calls, crashes>>

PackStep(t) ==
    \/ LockPack(t)
    \/ NothingToPack(t)
    \/ PlanVolume(t)
    \/ PlaceFile(t)
    \/ WriteHeader(t)
    \/ WriteHeaderFails(t)
    \/ WriteMeta(t)
    \/ WriteMetaFails(t)
    \/ ReadTemps(t)
    \/ ReadTempsFails(t)
    \/ JoinWrites(t)
    \/ JoinWritesFails(t)
    \/ FinishPack(t)
=============================================================================
