----------------------------- MODULE CollectFiles -----------------------------
(***************************************************************************)
(* AddFileToCollect and AddFilesToCollect: a file gets an inode id, is     *)
(* compressed into a temp file without any lock held, and is appended to   *)
(* the pending files; a pack runs before the append if the volume would    *)
(* overflow and after it if the threshold is reached.  The two operations  *)
(* differ in who compresses (the caller or pool tasks) and share the rest. *)
(*                                                                         *)
(* The early returns for an empty path, a missing file or a directory      *)
(* change nothing and are left out: Paths are files that exist.            *)
(***************************************************************************)
EXTENDS VolumeState

\* Mutant: the id may be one in use.
GenerateInodeIdUnchecked == InodeIds

\* GenerateUniqueId until the id is not that of a cached inode.
GenerateInodeId ==
    {i \in InodeIds : /\ file_metadata_cache[i] = None
                      /\ FreshIds => source[i] = None}

Size(task) == CompressedSize[task.path]

\* AddFileToCollect: the inode id is drawn under the lock, nothing else is.
CallAdd(t) ==
    /\ Begin(t, "add")
    /\ state_mutex = None
    /\ \E i \in GenerateInodeId, p \in Paths :
         /\ tasks' = [tasks EXCEPT ![t] = <<[inode_id |-> i, path |-> p]>>]
         /\ source' = [source EXCEPT ![i] = p]
    /\ Goto(t, "compress")
    /\ UNCHANGED <<memVars, diskVars, lockVars, poolVars, trigger, packVars, readVars,
                   sealed, accepted, faults, crashes>>

\* Read, compress, write the temp file.  A frame larger than a whole volume is
\* refused only after its temp file was written.
CompressFile(t) ==
    /\ pc[t] = "compress"
    /\ LET task == tasks[t][1]
       IN /\ temp_files' = [temp_files EXCEPT ![task.inode_id] = task.path]
          /\ IF Size(task) > VolumeSize
             THEN Return(t, "VOLUME_FULL")
             ELSE /\ Goto(t, "check")
                  /\ UNCHANGED <<addVars, packVars, readVars, accepted>>
    /\ UNCHANGED <<memVars, images, output_files, lockVars, poolVars, source, sealed,
                   delivered, counters>>

\* The source cannot be read or compressed, or the temp file not be written.
LeaveTemp(i) == \/ UNCHANGED temp_files
                \/ temp_files' = [temp_files EXCEPT ![i] = Torn]

CompressFileFails(t) ==
    /\ pc[t] = "compress"
    /\ Fault
    /\ LeaveTemp(tasks[t][1].inode_id)
    /\ Return(t, "IO_ERROR")
    /\ UNCHANGED <<memVars, images, output_files, lockVars, poolVars, source, sealed,
                   delivered, calls, crashes>>

\* AddFilesToCollect: all the ids under one lock, then one pool task per file.
\* Nothing but the generator keeps two ids of the batch apart.
CallBatch(t) ==
    /\ Begin(t, "batch")
    /\ state_mutex = None
    /\ \E n \in 1..MaxBatch : \E s \in [1..n -> FileTask] :
         /\ \A k \in 1..n : s[k].inode_id \in GenerateInodeId
         /\ FreshIds => \A j, k \in 1..n : j # k => s[j].inode_id # s[k].inode_id
         /\ tasks' = [tasks EXCEPT ![t] = s]
         /\ source' = [i \in InodeIds |->
                          IF i \in InodesOf(s)
                          THEN s[CHOOSE k \in 1..n : s[k].inode_id = i].path
                          ELSE source[i]]
         /\ pool' = pool \cup {[kind |-> "compress", owner |-> t, k |-> k,
                                inode_id |-> s[k].inode_id, path |-> s[k].path] : k \in 1..n}
    /\ Goto(t, "pool_compress")
    /\ UNCHANGED <<memVars, diskVars, lockVars, failed, trigger, packVars, readVars,
                   sealed, accepted, faults, crashes>>

\* A worker compresses one file of a batch.
RunCompress(task) ==
    /\ task.kind = "compress"
    /\ pool' = pool \ {task}
    /\ temp_files' = [temp_files EXCEPT ![task.inode_id] = task.path]
    /\ UNCHANGED <<memVars, images, output_files, lockVars, failed, pc, addVars,
                   packVars, readVars, source, sealed, answers, counters>>

RunCompressFails(task) ==
    /\ task.kind = "compress"
    /\ TaskFails(task)
    /\ LeaveTemp(task.inode_id)
    /\ UNCHANGED <<memVars, images, output_files, lockVars, pc, addVars, packVars,
                   readVars, source, sealed, answers, calls, crashes>>

\* f.get() in order: the first error returns, later tasks may still run.
JoinCompressFails(t) ==
    /\ pc[t] = "pool_compress"
    /\ FutureFails(t)
    /\ DropFutures(t)
    /\ Return(t, "IO_ERROR")
    /\ UNCHANGED <<memVars, diskVars, lockVars, source, sealed, delivered, counters>>

JoinCompress(t) ==
    /\ pc[t] = "pool_compress"
    /\ FuturesDone(t)
    /\ Goto(t, "check")
    /\ UNCHANGED <<memVars, diskVars, lockVars, poolVars, addVars, packVars, readVars,
                   source, sealed, answers, counters>>

\* Mutant: off by one.
WouldOverflowWhenFull(task) == pending_size + Size(task) >= VolumeSize

\* Mutant: the new file is not counted.
WouldOverflowOldOnly(task) == pending_size > VolumeSize

WouldOverflow(task) == pending_size + Size(task) > VolumeSize

\* Would one of the files, taken alone, overflow the volume?  The lock is
\* released between this check, the pack it asks for and the append.
CheckRoom(t) ==
    /\ pc[t] = "check"
    /\ state_mutex = None
    /\ IF \E k \in DOMAIN tasks[t] : WouldOverflow(tasks[t][k])
       THEN /\ trigger' = [trigger EXCEPT ![t] = "AutoOverflow"]
            /\ Goto(t, "lock_pack")
       ELSE /\ Goto(t, "push")
            /\ UNCHANGED trigger
    /\ UNCHANGED <<memVars, diskVars, lockVars, poolVars, tasks, packVars, readVars,
                   source, sealed, answers, counters>>

\* Mutant: a list that just reaches the threshold waits.
OverThresholdStrictly(size) == size * ThresholdDen > ThresholdNum * VolumeSize

OverThreshold(size) == size * ThresholdDen >= ThresholdNum * VolumeSize

ShouldPackVolume ==
    /\ pending_files # <<>>
    /\ pending_size * ThresholdDen >= ThresholdNum * VolumeSize

\* One iteration of the append loop, the first of which takes the lock and the
\* last of which, with the threshold test, releases it.
PushFile(t) ==
    /\ pc[t] = "push"
    /\ state_mutex = IF index[t] = 1 THEN None ELSE t
    /\ LET task == tasks[t][index[t]]
           file == [inode_id |-> task.inode_id, path |-> task.path,
                    volume_id |-> None, offset_in_volume |-> 0]
           size == pending_size + Size(task)
       IN /\ Size(task) <= VolumeSize
          /\ pending_files' = Append(pending_files, file)
          /\ pending_size' = size
          /\ file_metadata_cache' = [file_metadata_cache EXCEPT ![task.inode_id] = file]
          /\ \/ /\ index[t] < Len(tasks[t])
                /\ state_mutex' = t
                /\ index' = [index EXCEPT ![t] = @ + 1]
                /\ UNCHANGED <<pc, addVars, volume_meta, readVars, accepted>>
             \/ /\ index[t] = Len(tasks[t])
                /\ OverThreshold(size)
                /\ state_mutex' = None
                /\ trigger' = [trigger EXCEPT ![t] = "AutoThreshold"]
                /\ index' = [index EXCEPT ![t] = 1]
                /\ Goto(t, "lock_pack")
                /\ UNCHANGED <<tasks, volume_meta, readVars, accepted>>
             \/ /\ index[t] = Len(tasks[t])
                /\ ~OverThreshold(size)
                /\ state_mutex' = None
                /\ Return(t, "SUCCESS")
    /\ UNCHANGED <<mounted_volumes, diskVars, pack_mutex, poolVars, source, sealed,
                   delivered, counters>>

\* A file of a batch larger than a whole volume: the call returns VOLUME_FULL, the
\* files appended before it stay.
PushTooLarge(t) ==
    /\ pc[t] = "push"
    /\ state_mutex = IF index[t] = 1 THEN None ELSE t
    /\ Size(tasks[t][index[t]]) > VolumeSize
    /\ state_mutex' = None
    /\ Return(t, "VOLUME_FULL")
    /\ UNCHANGED <<memVars, diskVars, pack_mutex, poolVars, source, sealed, delivered,
                   counters>>

CollectStep(t) ==
    \/ CompressFile(t)
    \/ CompressFileFails(t)
    \/ JoinCompress(t)
    \/ JoinCompressFails(t)
    \/ CheckRoom(t)
    \/ PushFile(t)
    \/ PushTooLarge(t)
=============================================================================
