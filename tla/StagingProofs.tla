---------------------------- MODULE StagingProofs ----------------------------
(***************************************************************************)
(* Part 2 of the theorems about VolumeManager: a pending file stays in its *)
(* temp file.                                                              *)
(*                                                                         *)
(* temp_<inode>.zst is written by whoever drew the inode id, a caller or a *)
(* pool task that may outlive its call, and deleted by whoever packs, so   *)
(* the files are kept apart by nothing but their ids.  The theorems of     *)
(* this part therefore assume FreshIds: an id is drawn once.  The          *)
(* invariant says who owns an id at each moment: the call that drew it,    *)
(* until the file is pushed; a pool task nobody waits for; or the pending  *)
(* files and the images.                                                   *)
(***************************************************************************)
EXTENDS VolumeManagerProofs

\* The file has the path its inode id was issued for.
Issued(file) == source[file.inode_id] = file.path

\* Every file the manager knows of, in memory or on disk, has an id that was issued
\* for its path.
SourcesKnown ==
    /\ \A t \in Threads : \A k \in DOMAIN tasks[t] : Issued(tasks[t][k])
    /\ \A task \in pool : task.kind = "compress" => Issued(task)
    /\ \A k \in DOMAIN pending_files : Issued(pending_files[k])
    /\ \A i \in InodeIds : file_metadata_cache[i] # None =>
          file_metadata_cache[i].inode_id = i /\ Issued(file_metadata_cache[i])
    /\ \A v \in VolumeIds : images[v] # None =>
          \A k \in DOMAIN images[v].metas : Issued(images[v].metas[k])

\* The files of a call of t that are not among the pending files yet.
Unpushed(t) ==
    {k \in DOMAIN tasks[t] : \/ pc[t] \in {"compress", "pool_compress", "check"}
                             \/ pc[t] = "push" /\ index[t] <= k
                             \/ trigger[t] = "AutoOverflow"}

\* Only an add has files, one if it compresses itself, only a pack has a trigger, and a
\* pool task somebody waits for is waited for at the join of its kind.
PhaseAt(t) ==
    /\ pc[t] = "compress" => DOMAIN tasks[t] = {1}
    /\ trigger[t] # None <=> pc[t] \in UnlockedPackPcs \cup LockedPackPcs
    /\ pc[t] = "idle" \/ pc[t] \in MountReadPcs \/ trigger[t] = "Manual" => tasks[t] = <<>>

JoinPc(task) == IF task.kind = "compress" THEN "pool_compress" ELSE "join_writes"

CallPhases ==
    /\ \A t \in Threads : PhaseAt(t)
    /\ \A task \in pool : task.owner # None => pc[task.owner] = JoinPc(task)

\* The inode id is that of a pending or of a packed file.
Seen(i) ==
    \/ i \in InodesOf(pending_files)
    \/ \E v \in VolumeIds : images[v] # None /\ i \in InodesOf(images[v].metas)

Distinct(files) ==
    \A j, k \in DOMAIN files : files[j].inode_id = files[k].inode_id => j = k

\* A compress task works for the call that waits for it or for nobody.
CompressOwned(task) ==
    IF task.owner = None
    THEN /\ ~Seen(task.inode_id)
         /\ \A u \in Threads : task.inode_id \notin InodesOf(tasks[u])
    ELSE /\ task.k \in DOMAIN tasks[task.owner]
         /\ tasks[task.owner][task.k] = [inode_id |-> task.inode_id, path |-> task.path]

\* An inode id has one owner.
IdsOwned ==
    /\ \A t \in Threads : Distinct(tasks[t])
    /\ \A t, u \in Threads : t # u => InodesOf(tasks[t]) \cap InodesOf(tasks[u]) = {}
    /\ Distinct(pending_files)
    /\ \A t \in Threads : \A k \in Unpushed(t) : ~Seen(tasks[t][k].inode_id)
    /\ \A task \in pool : task.kind = "compress" => CompressOwned(task)

\* The temp file of a file is written: pending, or compressed and not pushed yet.
Staged(file) == temp_files[file.inode_id] = file.path

\* The pool has not finished, or failed to finish, the k-th file of t.
BeingCompressed(t, k) ==
    /\ pc[t] = "pool_compress"
    /\ \/ <<t, k>> \in failed
       \/ \E task \in pool : task.kind = "compress" /\ task.owner = t /\ task.k = k

TempsStaged ==
    /\ \A k \in DOMAIN pending_files : Staged(pending_files[k])
    /\ \A t \in Threads : \A k \in Unpushed(t) :
          pc[t] = "compress" \/ Staged(tasks[t][k]) \/ BeingCompressed(t, k)

Staging == SourcesKnown /\ CallPhases /\ IdsOwned /\ TempsStaged

-----------------------------------------------------------------------------
(* What a step does to the files it does not work on. *)

\* The list keeps its files, in their places, or loses all of them, except where a
\* file is pushed.
LEMMA PendingStep ==
    ASSUME NEW t \in Threads, Inv, Call(t) \/ Step(t), ~PushFile(t)
    PROVE  /\ DOMAIN pending_files' \subseteq DOMAIN pending_files
           /\ FinishPack(t) \/ DOMAIN pending_files' = DOMAIN pending_files
           /\ \A k \in DOMAIN pending_files' :
                 /\ pending_files'[k].inode_id = pending_files[k].inode_id
                 /\ pending_files'[k].path = pending_files[k].path
  <1> USE DEF Inv, TypeOK, MemoryType
  <1>1. CASE PlanVolume(t)
    <2>1. PICK v \in VolumeIds :
            pending_files' = [k \in DOMAIN pending_files |->
                                [pending_files[k] EXCEPT !.volume_id = v]]
      BY <1>1 DEF PlanVolume, GenerateVolumeId
    <2>2. \A k \in DOMAIN pending_files : pending_files[k] \in FileRecord
      OBVIOUS
    <2> QED BY <2>1, <2>2 DEF FileRecord
  <1>2. CASE PlaceFile(t)
    <2> DEFINE j == index[t]
               o == NextOffset(volume_meta[t])
    <2>1. pending_files' = [pending_files EXCEPT ![j].offset_in_volume = o]
      BY <1>2 DEF PlaceFile
    <2>2. \A k \in DOMAIN pending_files : pending_files[k] \in FileRecord
      OBVIOUS
    <2> HIDE DEF j, o
    <2>3. DOMAIN pending_files' = DOMAIN pending_files
      BY <2>1
    <2>4. ASSUME NEW k \in DOMAIN pending_files
          PROVE  pending_files'[k] \in {pending_files[k],
                                        [pending_files[k] EXCEPT !.offset_in_volume = o]}
      BY <2>1
    <2> QED BY <2>2, <2>3, <2>4 DEF FileRecord
  <1>3. CASE FinishPack(t)
    BY <1>3 DEF FinishPack, ClearPending
  <1>4. CASE Call(t)
    BY <1>4 DEF Call, CallAdd, CallBatch, CallPack, CallMount, CallRead, Unmount, memVars
  <1>5. CASE CollectStep(t)
    BY <1>5 DEF CollectStep, CompressFile, CompressFileFails, JoinCompress,
                JoinCompressFails, CheckRoom, PushTooLarge, memVars
  <1>6. CASE MountReadStep(t)
    BY <1>6 DEF MountReadStep, MountRecord, MountRecordFails, FinishMount, ReadImage,
                ReadImageFails, FillOutput, FillOutputFails, memVars
  <1>7. CASE \/ LockPack(t) \/ NothingToPack(t) \/ WriteHeader(t) \/ WriteHeaderFails(t)
             \/ WriteMeta(t) \/ WriteMetaFails(t) \/ ReadTemps(t) \/ ReadTempsFails(t)
             \/ JoinWrites(t) \/ JoinWritesFails(t)
    BY <1>7 DEF LockPack, NothingToPack, WriteHeader, WriteHeaderFails, WriteMeta,
                WriteMetaFails, ReadTemps, ReadTempsFails, JoinWrites, JoinWritesFails,
                PackFails, memVars
  <1> QED BY <1>1, <1>2, <1>3, <1>4, <1>5, <1>6, <1>7 DEF Step, PackStep

\* A record in an image was there before or is one of the pending files.
LEMMA MetasStep ==
    ASSUME NEW t \in Threads, Inv, Call(t) \/ Step(t), NEW v \in VolumeIds,
           images'[v] # None, NEW k \in DOMAIN images'[v].metas
    PROVE  \/ images[v] # None /\ k \in DOMAIN images[v].metas
                               /\ images'[v].metas[k] = images[v].metas[k]
           \/ \E j \in DOMAIN pending_files : images'[v].metas[k] = pending_files[j]
  <1> USE NoneAssumption DEF Inv, TypeOK, DiskType
  <1>1. CASE WriteHeader(t) \/ WriteHeaderFails(t)
    <2>1. \/ images'[v] = images[v]
          \/ images'[v].metas = <<>>
      BY <1>1 DEF WriteHeader, WriteHeaderFails
    <2> QED BY <2>1
  <1>2. CASE WriteMeta(t)
    <2> DEFINE w == volume_meta[t].volume_id
               file == pending_files[index[t]]
               image == [images[w] EXCEPT !.metas = Append(@, file)]
    <2>1. w \in VolumeIds /\ images[w] # None /\ index[t] \in DOMAIN pending_files
      BY <1>2 DEF WriteMeta, LocalsType, LocalsReady, LocalsReadyAt, LockedPackPcs,
                  VolumeRecord, MemoryType
    <2>2. images[w].metas \in Seq(FileRecord)
      BY <2>1 DEF Image
    <2>3. images' = [images EXCEPT ![w] = image]
      BY <1>2 DEF WriteMeta
    <2>4. CASE v # w
      BY <2>1, <2>3, <2>4
    <2>5. CASE v = w
      <3>1. images'[v].metas = Append(images[w].metas, file)
        BY <2>1, <2>3, <2>5 DEF Image
      <3>2. k \in DOMAIN images[w].metas \/ k = Len(images[w].metas) + 1
        BY <2>2, <3>1
      <3> QED BY <2>1, <2>2, <2>5, <3>1, <3>2
    <2> QED BY <2>4, <2>5
  <1>3. CASE \/ Call(t) \/ CollectStep(t) \/ MountReadStep(t)
             \/ LockPack(t) \/ NothingToPack(t) \/ PlanVolume(t) \/ PlaceFile(t)
             \/ WriteMetaFails(t) \/ ReadTemps(t) \/ ReadTempsFails(t) \/ JoinWrites(t)
             \/ JoinWritesFails(t) \/ FinishPack(t)
    <2>1. UNCHANGED images
      BY <1>3 DEF Call, CallAdd, CallBatch, CallPack, CallMount, CallRead, Unmount,
             CollectStep, CompressFile, CompressFileFails, JoinCompress,
             JoinCompressFails, CheckRoom, PushFile, PushTooLarge, MountReadStep,
             MountRecord, MountRecordFails, FinishMount, ReadImage, ReadImageFails,
             FillOutput, FillOutputFails, LockPack, NothingToPack, PlanVolume, PlaceFile,
             WriteMetaFails, ReadTemps, ReadTempsFails, JoinWrites, JoinWritesFails,
             FinishPack, diskVars
    <2> QED BY <2>1
  <1> QED BY <1>1, <1>2, <1>3 DEF Step, PackStep

\* An id that was issued for a path stays issued for it.
SourceGrows == \A i \in InodeIds : source[i] # None => source'[i] = source[i]

\* The files a call asked for are recorded under the new ids.
LEMMA CallAddEffect ==
    ASSUME NEW t \in Threads, Inv, FreshIds, CallAdd(t)
    PROVE  \E s \in Seq(FileTask) :
             /\ tasks' = [tasks EXCEPT ![t] = s]
             /\ Distinct(s)
             /\ \A k \in DOMAIN s : source[s[k].inode_id] = None
                                    /\ source'[s[k].inode_id] = s[k].path
             /\ \A i \in InodeIds : i \notin InodesOf(s) => source'[i] = source[i]
  <1>1. PICK i \in GenerateInodeId, p \in Paths :
          /\ tasks' = [tasks EXCEPT ![t] = <<[inode_id |-> i, path |-> p]>>]
          /\ source' = [source EXCEPT ![i] = p]
    BY DEF CallAdd
  <1> DEFINE file == [inode_id |-> i, path |-> p]
             s == <<file>>
  <1>2. i \in InodeIds /\ source[i] = None
    BY <1>1 DEF GenerateInodeId
  <1>3. file \in FileTask /\ file.inode_id = i /\ file.path = p
    BY <1>2 DEF FileTask
  <1>4. s \in Seq(FileTask) /\ DOMAIN s = {1} /\ s[1] = file
    BY <1>3
  <1>5. source'[i] = p /\ \A j \in InodeIds : j # i => source'[j] = source[j]
    BY <1>1, <1>2 DEF Inv, TypeOK, HistoryType
  <1>6. tasks' = [tasks EXCEPT ![t] = s]
    BY <1>1
  <1> HIDE DEF s, file
  <1>7. Distinct(s)
    BY <1>4 DEF Distinct
  <1>8. \A k \in DOMAIN s : source[s[k].inode_id] = None /\ source'[s[k].inode_id] = s[k].path
    BY <1>2, <1>3, <1>4, <1>5
  <1>9. \A j \in InodeIds : j \notin InodesOf(s) => source'[j] = source[j]
    BY <1>3, <1>4, <1>5 DEF InodesOf
  <1> QED BY <1>4, <1>6, <1>7, <1>8, <1>9

LEMMA CallBatchEffect ==
    ASSUME NEW t \in Threads, Inv, FreshIds, CallBatch(t)
    PROVE  \E s \in Seq(FileTask) :
             /\ tasks' = [tasks EXCEPT ![t] = s]
             /\ Distinct(s)
             /\ \A k \in DOMAIN s : source[s[k].inode_id] = None
                                    /\ source'[s[k].inode_id] = s[k].path
             /\ \A i \in InodeIds : i \notin InodesOf(s) => source'[i] = source[i]
             /\ pool' = pool \cup {[kind |-> "compress", owner |-> t, k |-> k,
                                    inode_id |-> s[k].inode_id, path |-> s[k].path] :
                                        k \in DOMAIN s}
  <1>1. PICK n \in 1 .. MaxBatch : \E s \in [1 .. n -> FileTask] :
          /\ \A k \in 1 .. n : s[k].inode_id \in GenerateInodeId
          /\ FreshIds => \A j, k \in 1 .. n : j # k => s[j].inode_id # s[k].inode_id
          /\ tasks' = [tasks EXCEPT ![t] = s]
          /\ source' = [i \in InodeIds |->
                           IF i \in InodesOf(s)
                           THEN s[CHOOSE k \in 1 .. n : s[k].inode_id = i].path
                           ELSE source[i]]
          /\ pool' = pool \cup {[kind |-> "compress", owner |-> t, k |-> k,
                                 inode_id |-> s[k].inode_id, path |-> s[k].path] :
                                     k \in 1 .. n}
    BY DEF CallBatch
  <1>2. PICK s \in [1 .. n -> FileTask] :
          /\ \A k \in 1 .. n : s[k].inode_id \in GenerateInodeId
          /\ FreshIds => \A j, k \in 1 .. n : j # k => s[j].inode_id # s[k].inode_id
          /\ tasks' = [tasks EXCEPT ![t] = s]
          /\ source' = [i \in InodeIds |->
                           IF i \in InodesOf(s)
                           THEN s[CHOOSE k \in 1 .. n : s[k].inode_id = i].path
                           ELSE source[i]]
          /\ pool' = pool \cup {[kind |-> "compress", owner |-> t, k |-> k,
                                 inode_id |-> s[k].inode_id, path |-> s[k].path] :
                                     k \in 1 .. n}
    BY <1>1
  <1>3. s \in Seq(FileTask) /\ DOMAIN s = 1 .. n
    BY <1>2, BoundsAssumption
  <1>4. Distinct(s)
    BY <1>2, <1>3 DEF Distinct
  <1>5. ASSUME NEW k \in DOMAIN s
        PROVE  source[s[k].inode_id] = None /\ source'[s[k].inode_id] = s[k].path
    <2>1. s[k].inode_id \in InodeIds /\ source[s[k].inode_id] = None
      BY <1>2, <1>3 DEF GenerateInodeId
    <2>2. s[k].inode_id \in InodesOf(s)
      BY DEF InodesOf
    <2>3. (CHOOSE j \in 1 .. n : s[j].inode_id = s[k].inode_id) = k
      BY <1>2, <1>3, <1>4 DEF Distinct
    <2> QED BY <1>2, <2>1, <2>2, <2>3
  <1>6. \A i \in InodeIds : i \notin InodesOf(s) => source'[i] = source[i]
    BY <1>2
  <1> QED BY <1>2, <1>3, <1>4, <1>5, <1>6

LEMMA AddEffect ==
    ASSUME NEW t \in Threads, Inv, FreshIds, CallAdd(t) \/ CallBatch(t)
    PROVE  \E s \in Seq(FileTask) :
             /\ tasks' = [tasks EXCEPT ![t] = s]
             /\ Distinct(s)
             /\ \A k \in DOMAIN s : source[s[k].inode_id] = None
                                    /\ source'[s[k].inode_id] = s[k].path
             /\ \A i \in InodeIds : i \notin InodesOf(s) => source'[i] = source[i]
  <1>1. CASE CallAdd(t)
    BY <1>1, CallAddEffect
  <1>2. CASE CallBatch(t)
    <2>1. PICK s \in Seq(FileTask) :
             /\ tasks' = [tasks EXCEPT ![t] = s]
             /\ Distinct(s)
             /\ \A k \in DOMAIN s : source[s[k].inode_id] = None
                                    /\ source'[s[k].inode_id] = s[k].path
             /\ \A i \in InodeIds : i \notin InodesOf(s) => source'[i] = source[i]
             /\ pool' = pool \cup {[kind |-> "compress", owner |-> t, k |-> k,
                                    inode_id |-> s[k].inode_id, path |-> s[k].path] :
                                        k \in DOMAIN s}
      BY <1>2, CallBatchEffect
    <2> QED BY <2>1
  <1> QED BY <1>1, <1>2

LEMMA SourceStep ==
    ASSUME NEW t \in Threads, Inv, FreshIds, Call(t) \/ Step(t)
    PROVE  SourceGrows
  <1>1. CASE CallAdd(t) \/ CallBatch(t)
    <2>1. PICK s \in Seq(FileTask) :
            /\ \A k \in DOMAIN s : source[s[k].inode_id] = None
            /\ \A i \in InodeIds : i \notin InodesOf(s) => source'[i] = source[i]
      BY <1>1, AddEffect
    <2> QED BY <2>1 DEF SourceGrows, InodesOf
  <1>2. CASE UNCHANGED source
    BY <1>2 DEF SourceGrows
  <1> QED BY <1>1, <1>2, HistoryFrame

\* Only an add gives a thread files, and a file once pushed is not pushed again.
LEMMA TasksStep ==
    ASSUME NEW t \in Threads, Inv, CallPhases, Call(t) \/ Step(t),
           ~CallAdd(t), ~CallBatch(t), NEW u \in Threads
    PROVE  /\ tasks'[u] = tasks[u] \/ tasks'[u] = <<>>
           /\ Unpushed(u)' \subseteq Unpushed(u)
  <1> USE DEF Inv, TypeOK, LocalsType, Unpushed
  <1>1. CASE u # t
    <2>1. LocalsOf(u)' = LocalsOf(u)
      BY <1>1, OthersStep
    <2> QED BY <2>1 DEF LocalsOf
  <1>2. ASSUME u = t, NEW code, Return(t, code)
        PROVE  tasks'[t] = <<>>
    BY <1>2 DEF Return
  <1>3. CASE u = t /\ \E code : Return(t, code)
    BY <1>2, <1>3
  <1>4. CASE u = t /\ tasks[t] = <<>> /\ UNCHANGED tasks
    BY <1>4
  <1>5. ASSUME CallPack(t) \/ CallMount(t) \/ CallRead(t) \/ Unmount(t)
        PROVE  tasks[t] = <<>> /\ UNCHANGED tasks
    BY <1>5 DEF CallPack, CallMount, CallRead, Unmount, Begin, CallPhases, PhaseAt, addVars
  <1>6. CASE u = t /\ (CompressFile(t) \/ JoinCompress(t)) /\ ~\E code : Return(t, code)
    BY <1>6, NoneAssumption DEF CompressFile, JoinCompress, Goto, addVars
  <1>7. CASE u = t /\ CheckRoom(t)
    BY <1>7 DEF CheckRoom, Goto
  <1>8. CASE u = t /\ PushFile(t) /\ ~\E code : Return(t, code)
    BY <1>8 DEF PushFile, Goto, addVars, CallPhases, PhaseAt, LockedPackPcs, UnlockedPackPcs
  <1>9. CASE u = t /\ (LockPack(t) \/ PlanVolume(t) \/ PlaceFile(t) \/ WriteHeader(t)
                       \/ WriteMeta(t) \/ ReadTemps(t) \/ JoinWrites(t))
    BY <1>9 DEF LockPack, PlanVolume, PlaceFile, WriteHeader, WriteMeta, ReadTemps,
                JoinWrites, NextFile, Goto, addVars
  <1>10. CASE u = t /\ FinishPack(t) /\ ~\E code : Return(t, code)
    BY <1>10 DEF FinishPack, Goto
  <1>11. CASE MountRecord(t) \/ ReadImage(t)
    BY <1>4, <1>1, <1>11 DEF MountRecord, ReadImage, CallPhases, PhaseAt, MountReadPcs, addVars
  <1>12. CASE \/ CompressFileFails(t) \/ JoinCompressFails(t) \/ PushTooLarge(t)
              \/ NothingToPack(t) \/ WriteHeaderFails(t) \/ WriteMetaFails(t)
              \/ ReadTempsFails(t) \/ JoinWritesFails(t) \/ MountRecordFails(t)
              \/ FinishMount(t) \/ ReadImageFails(t) \/ FillOutput(t) \/ FillOutputFails(t)
    BY <1>1, <1>3, <1>12 DEF CompressFileFails, JoinCompressFails, PushTooLarge,
       NothingToPack, WriteHeaderFails, WriteMetaFails, ReadTempsFails, JoinWritesFails,
       PackFails, MountRecordFails, FinishMount, ReadImageFails, FillOutput, FillOutputFails
  <1> QED BY <1>1, <1>3, <1>4, <1>5, <1>6, <1>7, <1>8, <1>9, <1>10, <1>11, <1>12
          DEF Call, Step, CollectStep, PackStep, MountReadStep

-----------------------------------------------------------------------------
(* Who waits for which pool task. *)

\* The pool tasks after a step of t: those of the others, those of t that nobody waits
\* for any more, or the ones t has just enqueued.
LEMMA PoolStep ==
    ASSUME NEW t \in Threads, Inv, FreshIds, CallPhases, Call(t) \/ Step(t)
    PROVE  /\ {task \in pool : task.owner # t} \subseteq pool'
           /\ {f \in failed : f[1] # t} \subseteq failed'
           /\ \A task \in pool' :
                 \/ task \in pool /\ task.owner # t
                 \/ \E old \in pool :
                       /\ old.owner = t
                       /\ task = [old EXCEPT !.owner = None]
                       /\ \/ old.kind = "compress" /\ JoinCompressFails(t)
                          \/ old.kind = "write" /\ JoinWritesFails(t)
                 \/ /\ CallBatch(t)
                    /\ \E k \in DOMAIN tasks'[t] :
                          task = [kind |-> "compress", owner |-> t, k |-> k,
                                  inode_id |-> tasks'[t][k].inode_id,
                                  path |-> tasks'[t][k].path]
                 \/ /\ ReadTemps(t)
                    /\ \E k \in DOMAIN pending_files : task = WriteTaskOf(t, k)
  <1>0. ASSUME NEW task \in pool, task.owner = t
        PROVE  \/ task.kind = "compress" /\ pc[t] = "pool_compress"
               \/ task.kind = "write" /\ pc[t] = "join_writes"
    <2>1. task.kind \in {"compress", "write"}
      BY DEF Inv, TypeOK, SyncType, CompressTask, WriteTask
    <2>2. pc[t] = JoinPc(task)
      BY <1>0, IdsAssumption DEF CallPhases
    <2> QED BY <2>1, <2>2 DEF JoinPc
  <1>1. CASE CallBatch(t)
    <2>1. PICK s \in Seq(FileTask) :
            /\ tasks' = [tasks EXCEPT ![t] = s]
            /\ pool' = pool \cup {[kind |-> "compress", owner |-> t, k |-> k,
                                   inode_id |-> s[k].inode_id, path |-> s[k].path] :
                                       k \in DOMAIN s}
      BY <1>1, CallBatchEffect
    <2>2. tasks'[t] = s
      BY <2>1 DEF Inv, TypeOK, LocalsType
    <2>3. pc[t] = "idle" /\ failed' = failed
      BY <1>1 DEF CallBatch, Begin
    <2>4. \A task \in pool : task.owner # t
      BY <1>0, <2>3
    <2>5. pool \subseteq pool'
      BY <2>1
    <2>6. ASSUME NEW task \in pool', task \notin pool
          PROVE  \E k \in DOMAIN s :
                    task = [kind |-> "compress", owner |-> t, k |-> k,
                            inode_id |-> s[k].inode_id, path |-> s[k].path]
      BY <2>1, <2>6
    <2> QED BY <1>1, <2>2, <2>3, <2>4, <2>5, <2>6
  <1>2. CASE ReadTemps(t)
    <2>1. /\ pool' = pool \cup {WriteTaskOf(t, k) : k \in DOMAIN pending_files}
          /\ pc[t] = "read_temps" /\ failed' = failed
      BY <1>2 DEF ReadTemps
    <2>2. \A task \in pool : task.owner # t
      BY <1>0, <2>1
    <2> QED BY <1>2, <2>1, <2>2
  <1>3. CASE JoinCompress(t) \/ JoinWrites(t)
    BY <1>3 DEF JoinCompress, JoinWrites, FuturesDone, poolVars
  <1>4. CASE JoinCompressFails(t) \/ JoinWritesFails(t)
    <2>1. DropFutures(t)
      BY <1>4 DEF JoinCompressFails, JoinWritesFails
    <2>2. ASSUME NEW old \in pool, old.owner = t
          PROVE  \/ old.kind = "compress" /\ JoinCompressFails(t)
                 \/ old.kind = "write" /\ JoinWritesFails(t)
      BY <1>0, <1>4, <2>2 DEF JoinCompressFails, JoinWritesFails
    <2>3. /\ pool' = {IF task.owner = t THEN [task EXCEPT !.owner = None] ELSE task :
                         task \in pool}
          /\ failed' = {f \in failed : f[1] # t}
      BY <2>1 DEF DropFutures
    <2>4. {task \in pool : task.owner # t} \subseteq pool'
      BY <2>3
    <2>5. ASSUME NEW task \in pool'
          PROVE  \/ task \in pool /\ task.owner # t
                 \/ \E old \in pool : old.owner = t /\ task = [old EXCEPT !.owner = None]
      BY <2>3
    <2> QED BY <2>2, <2>3, <2>4, <2>5
  <1>5. CASE UNCHANGED poolVars /\ pc[t] # "pool_compress" /\ pc[t] # "join_writes"
    BY <1>0, <1>5 DEF poolVars
  <1>6. CASE Call(t) /\ ~CallBatch(t)
    BY <1>5, <1>6 DEF Call, CallAdd, CallPack, CallMount, CallRead, Unmount, Begin
  <1>7. CASE CollectStep(t) /\ ~JoinCompress(t) /\ ~JoinCompressFails(t)
    BY <1>5, <1>7 DEF CollectStep, CompressFile, CompressFileFails, CheckRoom, PushFile,
                      PushTooLarge
  <1>8. CASE PackStep(t) /\ ~ReadTemps(t) /\ ~JoinWrites(t) /\ ~JoinWritesFails(t)
    BY <1>5, <1>8 DEF PackStep, LockPack, NothingToPack, PlanVolume, PlaceFile, WriteHeader,
                      WriteHeaderFails, WriteMeta, WriteMetaFails, ReadTempsFails, FinishPack,
                      PackFails
  <1>9. CASE MountReadStep(t)
    BY <1>5, <1>9 DEF MountReadStep, MountRecord, MountRecordFails, FinishMount, ReadImage,
                ReadImageFails, FillOutput, FillOutputFails
  <1> QED BY <1>1, <1>2, <1>3, <1>4, <1>6, <1>7, <1>8, <1>9 DEF Step

LEMMA PhaseStep ==
    ASSUME NEW t \in Threads, Inv, PhaseAt(t), Call(t) \/ Step(t)
    PROVE  PhaseAt(t)'
  <1> USE NoneAssumption DEF Inv, TypeOK, LocalsType, PhaseAt, Triggers, AddPcs,
          UnlockedPackPcs, LockedPackPcs, MountReadPcs
  <1>0. PhaseAt(t)
    OBVIOUS
  <1>1. ASSUME NEW code, Return(t, code)
        PROVE  PhaseAt(t)'
    BY <1>1 DEF Return, Goto
  <1>2. CASE CallAdd(t)
    <2>1. PICK file : tasks' = [tasks EXCEPT ![t] = <<file>>]
      BY <1>2 DEF CallAdd
    <2> QED BY <1>0, <1>2, <2>1 DEF CallAdd, Begin, Goto
  <1>8. CASE Call(t) /\ ~CallAdd(t)
    BY <1>0, <1>8 DEF Call, CallBatch, CallPack, CallMount, CallRead, Unmount, Begin,
                      Goto, addVars
  <1>3. CASE CollectStep(t) /\ ~\E code : Return(t, code)
    BY <1>0, <1>3 DEF CollectStep, CompressFile, CompressFileFails, JoinCompress,
                JoinCompressFails, CheckRoom, PushFile, PushTooLarge, Goto, addVars
  <1>4. CASE (\/ LockPack(t) \/ PlanVolume(t) \/ PlaceFile(t) \/ WriteHeader(t)
              \/ WriteMeta(t) \/ ReadTemps(t) \/ JoinWrites(t))
    BY <1>0, <1>4 DEF LockPack, PlanVolume, PlaceFile, WriteHeader, WriteMeta, ReadTemps,
                      JoinWrites, NextFile, Goto, addVars
  <1>5. CASE FinishPack(t) /\ ~\E code : Return(t, code)
    BY <1>0, <1>5 DEF FinishPack, Goto
  <1>6. CASE MountRecord(t) \/ ReadImage(t)
    BY <1>0, <1>6 DEF MountRecord, ReadImage, Goto, addVars
  <1>7. CASE \/ NothingToPack(t) \/ WriteHeaderFails(t) \/ WriteMetaFails(t)
             \/ ReadTempsFails(t) \/ JoinWritesFails(t) \/ MountRecordFails(t)
             \/ FinishMount(t) \/ ReadImageFails(t) \/ FillOutput(t) \/ FillOutputFails(t)
    BY <1>1, <1>7 DEF NothingToPack, WriteHeaderFails, WriteMetaFails, ReadTempsFails,
       JoinWritesFails, PackFails, MountRecordFails, FinishMount, ReadImageFails, FillOutput,
       FillOutputFails
  <1> QED BY <1>1, <1>2, <1>3, <1>4, <1>5, <1>6, <1>7, <1>8
          DEF Step, PackStep, MountReadStep

LEMMA CallPhasesStep ==
    ASSUME NEW t \in Threads, Inv, FreshIds, CallPhases, Call(t) \/ Step(t)
    PROVE  CallPhases'
  <1>1. ASSUME NEW u \in Threads
        PROVE  PhaseAt(u)'
    <2>1. CASE u = t
      BY <2>1, PhaseStep DEF CallPhases
    <2>2. CASE u # t
      <3>1. LocalsOf(u)' = LocalsOf(u)
        BY <2>2, OthersStep DEF Inv, TypeOK
      <3> QED BY <3>1 DEF LocalsOf, CallPhases, PhaseAt
    <2> QED BY <2>1, <2>2
  <1>2. ASSUME NEW task \in pool', task.owner # None
        PROVE  pc'[task.owner] = JoinPc(task)
    <2>1. CASE task \in pool /\ task.owner # t
      <3>1. task.owner \in Threads
        BY <1>2, <2>1 DEF Inv, TypeOK, SyncType, CompressTask, WriteTask
      <3>2. LocalsOf(task.owner)' = LocalsOf(task.owner)
        BY <2>1, <3>1, OthersStep DEF Inv, TypeOK
      <3> QED BY <1>2, <2>1, <3>2 DEF LocalsOf, CallPhases
    <2>2. ASSUME NEW old \in pool, task = [old EXCEPT !.owner = None]
          PROVE  FALSE
      BY <1>2, <2>2 DEF Inv, TypeOK, SyncType, CompressTask, WriteTask
    <2>3. CASE CallBatch(t) /\ task.kind = "compress" /\ task.owner = t
      BY <2>3 DEF CallBatch, Goto, JoinPc, Inv, TypeOK, LocalsType
    <2>4. CASE ReadTemps(t) /\ task.kind = "write" /\ task.owner = t
      BY <2>4 DEF ReadTemps, Goto, JoinPc, Inv, TypeOK, LocalsType
    <2> QED BY <2>1, <2>2, <2>3, <2>4, PoolStep DEF WriteTaskOf
  <1> QED BY <1>1, <1>2 DEF CallPhases

-----------------------------------------------------------------------------
(* Every file is known under the path its id was issued for. *)

LEMMA IssuedStays ==
    ASSUME SourceGrows, NEW i \in InodeIds, NEW p \in Paths, source[i] = p
    PROVE  source'[i] = p
  BY IdsAssumption DEF SourceGrows

\* The cache forgets, keeps or places what it has, or takes a file that was pushed or
\* a record of an image.
LEMMA CacheStep ==
    ASSUME NEW t \in Threads, Inv, Call(t) \/ Step(t), NEW i \in InodeIds,
           file_metadata_cache'[i] # None
    PROVE  \/ file_metadata_cache'[i] = file_metadata_cache[i]
           \/ /\ WriteMeta(t)
              /\ pending_files[index[t]].inode_id = i
              /\ file_metadata_cache[i] # None
              /\ file_metadata_cache'[i] =
                    [file_metadata_cache[i] EXCEPT
                        !.volume_id = pending_files[index[t]].volume_id,
                        !.offset_in_volume = pending_files[index[t]].offset_in_volume]
           \/ /\ PushFile(t)
              /\ tasks[t][index[t]].inode_id = i
              /\ file_metadata_cache'[i] =
                    [inode_id |-> i, path |-> tasks[t][index[t]].path,
                     volume_id |-> None, offset_in_volume |-> 0]
           \/ /\ MountRecord(t)
              /\ index[t] \in DOMAIN images[volume_meta[t].volume_id].metas
              /\ images[volume_meta[t].volume_id].metas[index[t]].inode_id = i
              /\ file_metadata_cache'[i] = images[volume_meta[t].volume_id].metas[index[t]]
  <1> USE DEF Inv, TypeOK, MemoryType
  <1>1. CASE WriteMeta(t)
    <2> DEFINE file == pending_files[index[t]]
               j == file.inode_id
               placed == [file_metadata_cache[j] EXCEPT
                             !.volume_id = file.volume_id,
                             !.offset_in_volume = file.offset_in_volume]
    <2>1. j \in InodeIds
      <3>1. index[t] \in DOMAIN pending_files
        BY <1>1 DEF WriteMeta, LocalsReady, LocalsReadyAt, LocalsType
      <3>2. file \in FileRecord
        BY <3>1
      <3> QED BY <3>2 DEF FileRecord
    <2>2. \/ file_metadata_cache' = file_metadata_cache
          \/ /\ file_metadata_cache[j] # None
             /\ file_metadata_cache' = [file_metadata_cache EXCEPT ![j] = placed]
      BY <1>1 DEF WriteMeta, CachePlace
    <2> HIDE DEF placed
    <2>3. \/ file_metadata_cache'[i] = file_metadata_cache[i]
          \/ i = j /\ file_metadata_cache[j] # None /\ file_metadata_cache'[i] = placed
      BY <2>1, <2>2
    <2> QED BY <1>1, <2>3 DEF placed
  <1>2. CASE PushFile(t)
    <2> DEFINE task == tasks[t][index[t]]
               file == [inode_id |-> task.inode_id, path |-> task.path,
                        volume_id |-> None, offset_in_volume |-> 0]
    <2>1. file_metadata_cache' = [file_metadata_cache EXCEPT ![task.inode_id] = file]
      BY <1>2 DEF PushFile
    <2> QED BY <1>2, <2>1
  <1>3. CASE MountRecord(t)
    <2> DEFINE metas == images[volume_meta[t].volume_id].metas
    <2>1. /\ file_metadata_cache' =
                [file_metadata_cache EXCEPT ![metas[index[t]].inode_id] = metas[index[t]]]
          /\ index[t] <= Len(metas)
      BY <1>3 DEF MountRecord
    <2>2. metas \in Seq(FileRecord)
      BY <1>3 DEF MountRecord, DiskType, Image, LocalsType, LocalsReady, LocalsReadyAt,
                  LockedPackPcs, VolumeRecord
    <2>3. index[t] \in DOMAIN metas
      BY <2>1, <2>2 DEF LocalsType
    <2> HIDE DEF metas
    <2>4. \/ file_metadata_cache'[i] = file_metadata_cache[i]
          \/ i = metas[index[t]].inode_id /\ file_metadata_cache'[i] = metas[index[t]]
      BY <2>1
    <2> QED BY <1>3, <2>3, <2>4 DEF metas
  <1>4. CASE Unmount(t)
    <2>1. PICK v \in mounted_volumes : file_metadata_cache' =
              [j \in InodeIds |->
                 IF file_metadata_cache[j] # None /\ file_metadata_cache[j].volume_id = v
                 THEN None ELSE file_metadata_cache[j]]
      BY <1>4 DEF Unmount
    <2> QED BY <2>1
  <1>5. CASE Call(t) /\ ~Unmount(t)
    BY <1>5 DEF Call, CallAdd, CallBatch, CallPack, CallMount, CallRead, memVars
  <1>6. CASE CollectStep(t) /\ ~PushFile(t)
    BY <1>6 DEF CollectStep, CompressFile, CompressFileFails, JoinCompress,
                JoinCompressFails, CheckRoom, PushTooLarge, memVars
  <1>7. CASE PackStep(t) /\ ~WriteMeta(t)
    BY <1>7 DEF PackStep, LockPack, NothingToPack, PlanVolume, PlaceFile, WriteHeader,
                WriteHeaderFails, WriteMetaFails, ReadTemps, ReadTempsFails, JoinWrites,
                JoinWritesFails, FinishPack, memVars
  <1>8. CASE MountReadStep(t) /\ ~MountRecord(t)
    BY <1>8 DEF MountReadStep, MountRecordFails, FinishMount, ReadImage,
                ReadImageFails, FillOutput, FillOutputFails, memVars
  <1> QED BY <1>1, <1>2, <1>3, <1>4, <1>5, <1>6, <1>7, <1>8 DEF Step

\* A pushed file is the file of the call, with no place yet.
LEMMA PushEffect ==
    ASSUME NEW t \in Threads, Inv, PushFile(t)
    PROVE  LET task == tasks[t][index[t]]
               file == [inode_id |-> task.inode_id, path |-> task.path,
                        volume_id |-> None, offset_in_volume |-> 0]
           IN /\ index[t] \in DOMAIN tasks[t]
              /\ task \in FileTask
              /\ file \in FileRecord
              /\ pending_files' = Append(pending_files, file)
              /\ DOMAIN pending_files' = DOMAIN pending_files \cup {Len(pending_files) + 1}
              /\ Len(pending_files) + 1 \notin DOMAIN pending_files
              /\ pending_files'[Len(pending_files) + 1] = file
              /\ \A k \in DOMAIN pending_files : pending_files'[k] = pending_files[k]
  <1> DEFINE task == tasks[t][index[t]]
             file == [inode_id |-> task.inode_id, path |-> task.path,
                      volume_id |-> None, offset_in_volume |-> 0]
  <1> USE DEF Inv, TypeOK, MemoryType
  <1>1. index[t] \in DOMAIN tasks[t] /\ task \in FileTask
    BY DEF PushFile, LocalsReady, LocalsReadyAt, LocalsType, AddPcs
  <1>2. file \in FileRecord
    BY <1>1 DEF FileTask, FileRecord
  <1>3. pending_files' = Append(pending_files, file)
    BY DEF PushFile
  <1> HIDE DEF task, file
  <1>4. /\ DOMAIN pending_files' = DOMAIN pending_files \cup {Len(pending_files) + 1}
        /\ Len(pending_files) + 1 \notin DOMAIN pending_files
        /\ pending_files'[Len(pending_files) + 1] = file
        /\ \A k \in DOMAIN pending_files : pending_files'[k] = pending_files[k]
    BY <1>2, <1>3
  <1> QED BY <1>1, <1>2, <1>3, <1>4 DEF task, file

LEMMA SourcesStep ==
    ASSUME NEW t \in Threads, Inv, FreshIds, CallPhases, SourcesKnown, Call(t) \/ Step(t)
    PROVE  SourcesKnown'
  <1>0. SourceGrows
    BY SourceStep
  <1>1. ASSUME NEW u \in Threads, NEW k \in DOMAIN tasks'[u]
        PROVE  Issued(tasks[u][k])'
    <2>1. CASE CallAdd(t) \/ CallBatch(t)
      <3>1. PICK s \in Seq(FileTask) :
              /\ tasks' = [tasks EXCEPT ![t] = s]
              /\ \A j \in DOMAIN s : source'[s[j].inode_id] = s[j].path
        BY <2>1, AddEffect
      <3>2. CASE u = t
        BY <3>1, <3>2 DEF Inv, TypeOK, LocalsType, Issued
      <3>3. CASE u # t
        <4>1. tasks'[u] = tasks[u] /\ tasks[u] \in Seq(FileTask)
          <5>1. tasks \in [Threads -> Seq(FileTask)]
            BY DEF Inv, TypeOK, LocalsType
          <5> QED BY <3>1, <3>3, <5>1
        <4>2. tasks[u][k] \in FileTask
          BY <1>1, <4>1
        <4> QED BY <1>0, <1>1, <4>1, <4>2, IssuedStays DEF SourcesKnown, Issued, FileTask
      <3> QED BY <3>2, <3>3
    <2>2. CASE ~CallAdd(t) /\ ~CallBatch(t)
      <3>1. tasks'[u] = tasks[u] \/ tasks'[u] = <<>>
        BY <2>2, TasksStep
      <3>2. tasks'[u] = tasks[u] /\ tasks[u] \in Seq(FileTask)
        BY <1>1, <3>1 DEF Inv, TypeOK, LocalsType
      <3>3. tasks[u][k] \in FileTask
        BY <1>1, <3>2
      <3> QED BY <1>0, <1>1, <3>2, <3>3, IssuedStays DEF SourcesKnown, Issued, FileTask
    <2> QED BY <2>1, <2>2
  <1>2. ASSUME NEW task \in pool', task.kind = "compress"
        PROVE  Issued(task)'
    <2>1. ASSUME NEW old \in pool, old.kind = "compress",
                 task.inode_id = old.inode_id, task.path = old.path
          PROVE  Issued(task)'
      <3>1. old.inode_id \in InodeIds /\ old.path \in Paths
        BY <2>1 DEF Inv, TypeOK, SyncType, CompressTask, WriteTask
      <3> QED BY <1>0, <2>1, <3>1, IssuedStays DEF SourcesKnown, Issued
    <2>2. ASSUME NEW old \in pool, task = [old EXCEPT !.owner = None]
          PROVE  /\ old.kind = "compress"
                 /\ task.inode_id = old.inode_id /\ task.path = old.path
      BY <1>2, <2>2 DEF Inv, TypeOK, SyncType, CompressTask, WriteTask
    <2>3. ASSUME NEW k \in DOMAIN tasks'[t],
                 task.inode_id = tasks'[t][k].inode_id, task.path = tasks'[t][k].path
          PROVE  Issued(task)'
      BY <1>1, <2>3 DEF Issued
    <2> QED BY <1>2, <2>1, <2>2, <2>3, PoolStep DEF WriteTaskOf
  <1>3. ASSUME NEW k \in DOMAIN pending_files'
        PROVE  Issued(pending_files[k])'
    <2>1. ASSUME NEW j \in DOMAIN pending_files,
                 pending_files'[k].inode_id = pending_files[j].inode_id,
                 pending_files'[k].path = pending_files[j].path
          PROVE  Issued(pending_files[k])'
      <3>1. pending_files[j] \in FileRecord
        BY DEF Inv, TypeOK, MemoryType
      <3> QED BY <1>0, <2>1, <3>1, IssuedStays DEF SourcesKnown, Issued, FileRecord
    <2>2. CASE PushFile(t) /\ k \notin DOMAIN pending_files
      <3> DEFINE task == tasks[t][index[t]]
      <3>1. /\ k = Len(pending_files) + 1
            /\ pending_files'[k] = [inode_id |-> task.inode_id, path |-> task.path,
                                    volume_id |-> None, offset_in_volume |-> 0]
            /\ index[t] \in DOMAIN tasks[t] /\ task \in FileTask
        BY <1>3, <2>2, PushEffect
      <3> QED BY <1>0, <3>1, IssuedStays DEF SourcesKnown, Issued, FileTask
    <2>3. CASE PushFile(t) /\ k \in DOMAIN pending_files
      BY <2>1, <2>3, PushEffect
    <2> QED BY <1>3, <2>1, <2>2, <2>3, PendingStep
  <1>4. ASSUME NEW i \in InodeIds, file_metadata_cache'[i] # None
        PROVE  file_metadata_cache'[i].inode_id = i /\ Issued(file_metadata_cache[i])'
    <2>1. ASSUME file_metadata_cache[i] # None
          PROVE  /\ file_metadata_cache[i].inode_id = i
                 /\ file_metadata_cache[i] \in FileRecord
                 /\ source'[i] = file_metadata_cache[i].path
      <3>1. /\ file_metadata_cache[i].inode_id = i
            /\ source[i] = file_metadata_cache[i].path
        BY <2>1 DEF SourcesKnown, Issued
      <3>2. file_metadata_cache[i] \in FileRecord
        BY <2>1 DEF Inv, TypeOK, MemoryType
      <3> QED BY <1>0, <3>1, <3>2, IssuedStays DEF FileRecord
    <2>2. CASE file_metadata_cache'[i] = file_metadata_cache[i]
      BY <1>4, <2>1, <2>2 DEF Issued
    <2>3. CASE /\ file_metadata_cache[i] # None
               /\ file_metadata_cache'[i] =
                    [file_metadata_cache[i] EXCEPT
                        !.volume_id = pending_files[index[t]].volume_id,
                        !.offset_in_volume = pending_files[index[t]].offset_in_volume]
      BY <2>1, <2>3 DEF Issued, FileRecord
    <2>4. CASE /\ PushFile(t)
               /\ tasks[t][index[t]].inode_id = i
               /\ file_metadata_cache'[i] =
                    [inode_id |-> i, path |-> tasks[t][index[t]].path,
                     volume_id |-> None, offset_in_volume |-> 0]
      <3>1. index[t] \in DOMAIN tasks[t] /\ tasks[t][index[t]] \in FileTask
        BY <2>4, PushEffect
      <3> QED BY <1>0, <2>4, <3>1, IssuedStays DEF SourcesKnown, Issued, FileTask
    <2>5. CASE /\ MountRecord(t)
               /\ index[t] \in DOMAIN images[volume_meta[t].volume_id].metas
               /\ images[volume_meta[t].volume_id].metas[index[t]].inode_id = i
               /\ file_metadata_cache'[i] = images[volume_meta[t].volume_id].metas[index[t]]
      <3> DEFINE v == volume_meta[t].volume_id
      <3>1. v \in VolumeIds /\ images[v] # None
        BY <2>5 DEF MountRecord, Inv, TypeOK, LocalsType, LocalsReady, LocalsReadyAt,
                    LockedPackPcs, VolumeRecord
      <3>2. images[v].metas[index[t]] \in FileRecord
        BY <2>5, <3>1 DEF Inv, TypeOK, DiskType, Image
      <3> QED BY <1>0, <2>5, <3>1, <3>2, IssuedStays DEF SourcesKnown, Issued, FileRecord
    <2> QED BY <1>4, <2>2, <2>3, <2>4, <2>5, CacheStep
  <1>5. ASSUME NEW v \in VolumeIds, images'[v] # None, NEW k \in DOMAIN images'[v].metas
        PROVE  Issued(images[v].metas[k])'
    <2>1. CASE images[v] # None /\ k \in DOMAIN images[v].metas
                                /\ images'[v].metas[k] = images[v].metas[k]
      <3>1. images[v].metas[k] \in FileRecord
        BY <2>1 DEF Inv, TypeOK, DiskType, Image
      <3> QED BY <1>0, <2>1, <3>1, IssuedStays DEF SourcesKnown, Issued, FileRecord
    <2>2. ASSUME NEW j \in DOMAIN pending_files, images'[v].metas[k] = pending_files[j]
          PROVE  Issued(images[v].metas[k])'
      <3>1. pending_files[j] \in FileRecord
        BY DEF Inv, TypeOK, MemoryType
      <3> QED BY <1>0, <2>2, <3>1, IssuedStays DEF SourcesKnown, Issued, FileRecord
    <2> QED BY <1>5, <2>1, <2>2, MetasStep
  <1> QED BY <1>1, <1>2, <1>3, <1>4, <1>5 DEF SourcesKnown

-----------------------------------------------------------------------------
(* An inode id has one owner. *)

LEMMA InodeOf ==
    ASSUME NEW files, NEW k \in DOMAIN files
    PROVE  files[k].inode_id \in InodesOf(files)
  BY DEF InodesOf

\* A new id belongs to nobody.
LEMMA NewId ==
    ASSUME Inv, SourcesKnown, NEW i \in InodeIds, source[i] = None
    PROVE  /\ ~Seen(i)
           /\ \A u \in Threads : i \notin InodesOf(tasks[u])
           /\ \A task \in pool : task.kind = "compress" => task.inode_id # i
  <1> USE IdsAssumption DEF SourcesKnown, Issued, Inv, TypeOK
  <1>1. ASSUME NEW k \in DOMAIN pending_files, pending_files[k].inode_id = i
        PROVE  FALSE
    <2>1. pending_files[k] \in FileRecord
      BY DEF MemoryType
    <2> QED BY <1>1, <2>1 DEF FileRecord
  <1>2. ASSUME NEW v \in VolumeIds, images[v] # None, NEW k \in DOMAIN images[v].metas,
               images[v].metas[k].inode_id = i
        PROVE  FALSE
    <2>1. images[v].metas[k] \in FileRecord
      BY <1>2 DEF DiskType, Image
    <2> QED BY <1>2, <2>1 DEF FileRecord
  <1>3. ASSUME NEW u \in Threads, NEW k \in DOMAIN tasks[u], tasks[u][k].inode_id = i
        PROVE  FALSE
    <2>1. tasks[u] \in Seq(FileTask)
      BY DEF LocalsType
    <2>2. tasks[u][k] \in FileTask
      BY <2>1
    <2> QED BY <1>3, <2>2 DEF FileTask
  <1>4. ASSUME NEW task \in pool, task.kind = "compress", task.inode_id = i
        PROVE  FALSE
    <2>1. task.path \in Paths
      BY <1>4 DEF SyncType, CompressTask, WriteTask
    <2> QED BY <1>4, <2>1
  <1> QED BY <1>1, <1>2, <1>3, <1>4 DEF Seen, InodesOf

\* Only a push makes an id seen.
LEMMA SeenStep ==
    ASSUME NEW t \in Threads, Inv, Call(t) \/ Step(t), NEW i, Seen(i)'
    PROVE  \/ Seen(i)
           \/ PushFile(t) /\ i = tasks[t][index[t]].inode_id
  <1>1. ASSUME NEW k \in DOMAIN pending_files', pending_files'[k].inode_id = i
        PROVE  \/ Seen(i)
               \/ PushFile(t) /\ i = tasks[t][index[t]].inode_id
    <2>1. CASE PushFile(t)
      <3> DEFINE task == tasks[t][index[t]]
      <3>1. CASE k \in DOMAIN pending_files
        <4>1. pending_files'[k] = pending_files[k]
          BY <2>1, <3>1, PushEffect
        <4> QED BY <1>1, <3>1, <4>1 DEF Seen, InodesOf
      <3>2. CASE k \notin DOMAIN pending_files
        <4>1. pending_files'[k] = [inode_id |-> task.inode_id, path |-> task.path,
                                   volume_id |-> None, offset_in_volume |-> 0]
          BY <1>1, <2>1, <3>2, PushEffect
        <4> QED BY <1>1, <2>1, <4>1
      <3> QED BY <3>1, <3>2
    <2>2. CASE ~PushFile(t)
      <3>1. k \in DOMAIN pending_files /\ pending_files[k].inode_id = i
        BY <1>1, <2>2, PendingStep
      <3> QED BY <3>1 DEF Seen, InodesOf
    <2> QED BY <2>1, <2>2
  <1>2. ASSUME NEW v \in VolumeIds, images'[v] # None, NEW k \in DOMAIN images'[v].metas,
               images'[v].metas[k].inode_id = i
        PROVE  Seen(i)
    <2>1. CASE images[v] # None /\ k \in DOMAIN images[v].metas
                                /\ images'[v].metas[k] = images[v].metas[k]
      BY <1>2, <2>1 DEF Seen, InodesOf
    <2>2. ASSUME NEW j \in DOMAIN pending_files, images'[v].metas[k] = pending_files[j]
          PROVE  Seen(i)
      BY <1>2, <2>2 DEF Seen, InodesOf
    <2> QED BY <1>2, <2>1, <2>2, MetasStep
  <1> QED BY <1>1, <1>2 DEF Seen, InodesOf

\* The file of a push was not pushed before and is not to be pushed again.
LEMMA PushedOnce ==
    ASSUME NEW t \in Threads, Inv, CallPhases, PushFile(t)
    PROVE  /\ index[t] \in Unpushed(t)
           /\ index[t] \notin Unpushed(t)'
  <1>1. index[t] \in DOMAIN tasks[t] /\ pc[t] = "push"
    BY PushEffect DEF PushFile
  <1>2. index[t] \in Unpushed(t)
    BY <1>1 DEF Unpushed, Inv, TypeOK, LocalsType
  <1>3. trigger[t] = None
    BY <1>1 DEF CallPhases, PhaseAt, UnlockedPackPcs, LockedPackPcs
  <1>4. CASE \E code : Return(t, code)
    <2>1. tasks'[t] = <<>>
      BY <1>4 DEF Return, Inv, TypeOK, LocalsType
    <2> QED BY <1>2, <2>1 DEF Unpushed
  <1>5. CASE ~\E code : Return(t, code)
    <2>1. \/ pc' = pc /\ trigger' = trigger /\ index'[t] = index[t] + 1
          \/ pc'[t] = "lock_pack" /\ trigger'[t] = "AutoThreshold"
      BY <1>5 DEF PushFile, Goto, addVars, Inv, TypeOK, LocalsType
    <2> QED BY <1>1, <1>2, <1>3, <2>1, NoneAssumption
            DEF Unpushed, Inv, TypeOK, LocalsType, Triggers
  <1> QED BY <1>4, <1>5

\* The files of a thread after a step of t: as before, none, or newly issued.
LEMMA TasksNext ==
    ASSUME NEW t \in Threads, Inv, FreshIds, CallPhases, SourcesKnown, Call(t) \/ Step(t),
           NEW u \in Threads
    PROVE  \/ tasks'[u] = tasks[u]
           \/ tasks'[u] = <<>>
           \/ /\ u = t
              /\ CallAdd(t) \/ CallBatch(t)
              /\ Distinct(tasks'[u])
              /\ \A i \in InodesOf(tasks'[u]) : i \in InodeIds /\ source[i] = None
  <1>1. CASE CallAdd(t) \/ CallBatch(t)
    <2>1. PICK s \in Seq(FileTask) :
             /\ tasks' = [tasks EXCEPT ![t] = s]
             /\ Distinct(s)
             /\ \A k \in DOMAIN s : source[s[k].inode_id] = None
      BY <1>1, AddEffect
    <2>2. \A i \in InodesOf(s) : i \in InodeIds /\ source[i] = None
      BY <2>1, InodesType DEF InodesOf
    <2>3. tasks'[u] = tasks[u] \/ (u = t /\ tasks'[u] = s)
      BY <2>1 DEF Inv, TypeOK, LocalsType
    <2>4. CASE u = t /\ tasks'[u] = s
      <3>1. Distinct(tasks'[u])
        BY <2>1, <2>4 DEF Distinct
      <3>2. \A i \in InodesOf(tasks'[u]) : i \in InodeIds /\ source[i] = None
        BY <2>2, <2>4 DEF InodesOf
      <3> QED BY <1>1, <2>4, <3>1, <3>2
    <2> QED BY <2>3, <2>4
  <1>2. CASE ~CallAdd(t) /\ ~CallBatch(t)
    BY <1>2, TasksStep
  <1> QED BY <1>1, <1>2

LEMMA OwnersStep ==
    ASSUME NEW t \in Threads, Inv, FreshIds, CallPhases, SourcesKnown, IdsOwned,
           Call(t) \/ Step(t), NEW task \in pool', task.kind = "compress"
    PROVE  CompressOwned(task)'
  <1>1. CASE task \in pool /\ task.owner # t
    <2>1. CompressOwned(task)
      BY <1>1 DEF IdsOwned
    <2>2. CASE task.owner = None
      <3>1. ~Seen(task.inode_id)'
        <4>1. ~Seen(task.inode_id) /\ task.inode_id \notin InodesOf(tasks[t])
          BY <2>1, <2>2 DEF CompressOwned
        <4>2. ~(PushFile(t) /\ task.inode_id = tasks[t][index[t]].inode_id)
          BY <4>1, PushEffect, InodeOf
        <4> QED BY <4>1, <4>2, SeenStep
      <3>2. ASSUME NEW u \in Threads
            PROVE  task.inode_id \notin InodesOf(tasks'[u])
        <4>1. task.inode_id \notin InodesOf(tasks[u])
          BY <2>1, <2>2 DEF CompressOwned
        <4>2. task.inode_id \notin InodesOf(<<>>)
          BY DEF InodesOf
        <4>3. ~(task.inode_id \in InodeIds /\ source[task.inode_id] = None)
          BY <1>1, NewId
        <4> QED BY <4>1, <4>2, <4>3, TasksNext
      <3> QED BY <2>2, <3>1, <3>2 DEF CompressOwned
    <2>3. CASE task.owner # None
      <3>1. task.owner \in Threads
        BY <1>1, <2>3 DEF Inv, TypeOK, SyncType, CompressTask, WriteTask
      <3>2. LocalsOf(task.owner)' = LocalsOf(task.owner)
        BY <1>1, <3>1, OthersStep DEF Inv, TypeOK
      <3> QED BY <2>1, <2>3, <3>2 DEF CompressOwned, LocalsOf
    <2> QED BY <2>2, <2>3
  <1>2. ASSUME NEW old \in pool, old.owner = t, task = [old EXCEPT !.owner = None],
               old.kind = "compress", JoinCompressFails(t)
        PROVE  CompressOwned(task)'
    <2>1. task.owner = None /\ task.inode_id = old.inode_id
      BY <1>2 DEF Inv, TypeOK, SyncType, CompressTask, WriteTask
    <2>2. /\ old.k \in DOMAIN tasks[t]
          /\ tasks[t][old.k].inode_id = old.inode_id
          /\ old.k \in Unpushed(t)
      <3>1. CompressOwned(old) /\ t # None
        BY <1>2, IdsAssumption DEF IdsOwned
      <3>2. pc[t] = "pool_compress"
        BY <1>2 DEF JoinCompressFails
      <3> QED BY <1>2, <3>1, <3>2 DEF CompressOwned, Unpushed
    <2>3. ~Seen(task.inode_id)'
      <3>1. ~Seen(task.inode_id)
        BY <2>1, <2>2 DEF IdsOwned
      <3>2. ~PushFile(t)
        BY <1>2 DEF JoinCompressFails, PushFile
      <3> QED BY <3>1, <3>2, SeenStep
    <2>4. ASSUME NEW u \in Threads
          PROVE  task.inode_id \notin InodesOf(tasks'[u])
      <3>1. tasks' = [tasks EXCEPT ![t] = <<>>]
        BY <1>2 DEF JoinCompressFails, Return
      <3>2. CASE u = t
        BY <3>1, <3>2 DEF InodesOf, Inv, TypeOK, LocalsType
      <3>3. CASE u # t
        <4>1. tasks'[u] = tasks[u]
          BY <3>1, <3>3 DEF Inv, TypeOK, LocalsType
        <4>2. task.inode_id \in InodesOf(tasks[t])
          BY <2>1, <2>2, InodeOf
        <4> QED BY <3>3, <4>1, <4>2 DEF IdsOwned
      <3> QED BY <3>2, <3>3
    <2> QED BY <2>1, <2>3, <2>4 DEF CompressOwned
  <1>3. ASSUME NEW k \in DOMAIN tasks'[t],
               task = [kind |-> "compress", owner |-> t, k |-> k,
                       inode_id |-> tasks'[t][k].inode_id, path |-> tasks'[t][k].path],
               CallBatch(t)
        PROVE  CompressOwned(task)'
    <2>1. PICK s \in Seq(FileTask) : tasks' = [tasks EXCEPT ![t] = s]
      BY <1>3, AddEffect
    <2>2. tasks'[t] = s
      BY <2>1 DEF Inv, TypeOK, LocalsType
    <2>3. tasks'[t][k] \in FileTask
      BY <1>3, <2>2
    <2>4. t # None
      BY IdsAssumption
    <2> QED BY <1>3, <2>3, <2>4 DEF CompressOwned, FileTask
  <1>4. ~\E k \in DOMAIN pending_files : task = WriteTaskOf(t, k)
    BY DEF WriteTaskOf
  <1>5. \A old \in pool : task = [old EXCEPT !.owner = None] => old.kind = "compress"
    BY DEF Inv, TypeOK, SyncType, CompressTask, WriteTask
  <1> QED BY <1>1, <1>2, <1>3, <1>4, <1>5, PoolStep

LEMMA IdsStep ==
    ASSUME NEW t \in Threads, Inv, FreshIds, CallPhases, SourcesKnown, IdsOwned,
           Call(t) \/ Step(t)
    PROVE  IdsOwned'
  <1>0. InodesOf(<<>>) = {} /\ Distinct(<<>>)
    BY DEF InodesOf, Distinct
  <1>1. ASSUME NEW u \in Threads
        PROVE  Distinct(tasks[u])'
    <2>1. Distinct(tasks'[u])
      BY <1>0, TasksNext DEF IdsOwned
    <2> QED BY <2>1 DEF Distinct
  <1>2. ASSUME NEW u \in Threads, NEW w \in Threads, u # w
        PROVE  InodesOf(tasks[u])' \cap InodesOf(tasks[w])' = {}
    <2>1. ASSUME NEW i \in InodeIds, source[i] = None
          PROVE  i \notin InodesOf(tasks[u]) /\ i \notin InodesOf(tasks[w])
      BY <2>1, NewId
    <2>2. InodesOf(tasks[u]) \cap InodesOf(tasks[w]) = {}
      BY <1>2 DEF IdsOwned
    <2>3. InodesOf(tasks'[u]) \cap InodesOf(tasks'[w]) = {}
      BY <1>0, <1>2, <2>1, <2>2, TasksNext
    <2> QED BY <2>3 DEF InodesOf
  <1>3. Distinct(pending_files)'
    <2>1. CASE PushFile(t)
      <3> DEFINE task == tasks[t][index[t]]
                 n == Len(pending_files) + 1
      <3>1. /\ DOMAIN pending_files' = DOMAIN pending_files \cup {n}
            /\ pending_files'[n] = [inode_id |-> task.inode_id, path |-> task.path,
                                    volume_id |-> None, offset_in_volume |-> 0]
            /\ \A k \in DOMAIN pending_files : pending_files'[k] = pending_files[k]
        BY <2>1, PushEffect
      <3>2. ~Seen(task.inode_id)
        BY <2>1, PushedOnce DEF IdsOwned
      <3>3. \A k \in DOMAIN pending_files : pending_files[k].inode_id # task.inode_id
        BY <3>2 DEF Seen, InodesOf
      <3> HIDE DEF task, n
      <3>4. pending_files'[n].inode_id = task.inode_id
        BY <3>1
      <3> QED BY <3>1, <3>3, <3>4 DEF Distinct, IdsOwned
    <2>2. CASE ~PushFile(t)
      BY <2>2, PendingStep DEF Distinct, IdsOwned
    <2> QED BY <2>1, <2>2
  <1>4. ASSUME NEW u \in Threads, NEW k \in Unpushed(u)'
        PROVE  ~Seen(tasks[u][k].inode_id)'
    <2>1. k \in DOMAIN tasks'[u]
      BY <1>4 DEF Unpushed
    <2>0. PICK i : i = tasks'[u][k].inode_id
      OBVIOUS
    <2>2. CASE CallAdd(t) \/ CallBatch(t)
      <3>1. ~PushFile(t)
        BY <2>2 DEF CallAdd, CallBatch, Begin, PushFile
      <3>2. ~Seen(i)
        <4>1. CASE tasks'[u] = tasks[u] /\ u # t
          <5>1. LocalsOf(u)' = LocalsOf(u)
            BY <4>1, OthersStep DEF Inv, TypeOK
          <5>2. k \in Unpushed(u)
            BY <1>4, <5>1 DEF LocalsOf, Unpushed
          <5> QED BY <2>0, <4>1, <5>2 DEF IdsOwned
        <4>2. CASE u = t
          <5>1. PICK s \in Seq(FileTask) :
                   /\ tasks' = [tasks EXCEPT ![t] = s]
                   /\ \A j \in DOMAIN s : source[s[j].inode_id] = None
            BY <2>2, AddEffect
          <5>2. tasks'[t] = s
            BY <5>1 DEF Inv, TypeOK, LocalsType
          <5>3. i \in InodeIds /\ source[i] = None
            BY <2>0, <2>1, <4>2, <5>1, <5>2, InodesType, InodeOf
          <5> QED BY <5>3, NewId
        <4>3. CASE u # t
          <5>1. tasks'[u] = tasks[u]
            BY <4>3, OthersStep DEF LocalsOf, Inv, TypeOK
          <5> QED BY <4>1, <4>3, <5>1
        <4> QED BY <4>2, <4>3
      <3>3. ~Seen(i)'
        BY <3>1, <3>2, SeenStep
      <3> QED BY <2>0, <3>3 DEF Seen
    <2>3. CASE ~CallAdd(t) /\ ~CallBatch(t)
      <3>1. tasks'[u] = tasks[u] /\ k \in Unpushed(u)
        <4>1. tasks'[u] # <<>>
          BY <2>1
        <4> QED BY <1>4, <2>3, <4>1, TasksStep
      <3>2. ~Seen(i)
        BY <2>0, <3>1 DEF IdsOwned
      <3>3. ~(PushFile(t) /\ i = tasks[t][index[t]].inode_id)
        <4> SUFFICES ASSUME PushFile(t), i = tasks[t][index[t]].inode_id
                     PROVE  FALSE
          OBVIOUS
        <4>1. index[t] \in DOMAIN tasks[t] /\ index[t] \notin Unpushed(t)'
          BY PushedOnce, PushEffect
        <4>2. CASE u = t
          BY <1>4, <2>0, <2>1, <3>1, <4>1, <4>2 DEF IdsOwned, Distinct
        <4>3. CASE u # t
          <5>1. i \in InodesOf(tasks[u]) /\ i \in InodesOf(tasks[t])
            BY <2>0, <2>1, <3>1, <4>1, InodeOf
          <5> QED BY <4>3, <5>1 DEF IdsOwned
        <4> QED BY <4>2, <4>3
      <3>4. ~Seen(i)'
        BY <3>2, <3>3, SeenStep
      <3> QED BY <2>0, <3>4 DEF Seen
    <2> QED BY <2>2, <2>3
  <1>5. ASSUME NEW task \in pool', task.kind = "compress"
        PROVE  CompressOwned(task)'
    BY <1>5, OwnersStep
  <1> QED BY <1>1, <1>2, <1>3, <1>4, <1>5 DEF IdsOwned

-----------------------------------------------------------------------------
(* A pending file is in its temp file. *)

\* A caller writes the temp file of the file it compresses and deletes those of the
\* files it packed.
LEMMA TempStep ==
    ASSUME NEW t \in Threads, Inv, Call(t) \/ Step(t), NEW i \in InodeIds
    PROVE  \/ temp_files'[i] = temp_files[i]
           \/ CompressFile(t) /\ i = tasks[t][1].inode_id
           \/ CompressFileFails(t) /\ i = tasks[t][1].inode_id
           \/ FinishPack(t) /\ i \in InodesOf(pending_files)
  <1> USE DEF Inv, TypeOK, DiskType
  <1>1. CASE CompressFile(t)
    BY <1>1 DEF CompressFile
  <1>2. CASE CompressFileFails(t)
    BY <1>2 DEF CompressFileFails, LeaveTemp
  <1>3. CASE FinishPack(t)
    BY <1>3 DEF FinishPack, DeleteTemps
  <1>4. CASE Call(t)
    BY <1>4 DEF Call, CallAdd, CallBatch, CallPack, CallMount, CallRead, Unmount, diskVars
  <1>5. CASE CollectStep(t) /\ ~CompressFile(t) /\ ~CompressFileFails(t)
    BY <1>5 DEF CollectStep, JoinCompress, JoinCompressFails, CheckRoom, PushFile,
                PushTooLarge, diskVars
  <1>6. CASE PackStep(t) /\ ~FinishPack(t)
    BY <1>6 DEF PackStep, LockPack, NothingToPack, PlanVolume, PlaceFile, WriteHeader,
                WriteHeaderFails, WriteMeta, WriteMetaFails, ReadTemps, ReadTempsFails,
                JoinWrites, JoinWritesFails, PackFails, diskVars
  <1>7. CASE MountReadStep(t)
    BY <1>7 DEF MountReadStep, MountRecord, MountRecordFails, FinishMount, ReadImage,
                ReadImageFails, FillOutput, FillOutputFails, diskVars
  <1> QED BY <1>1, <1>2, <1>3, <1>4, <1>5, <1>6, <1>7 DEF Step

\* The file a caller compresses itself is not pushed yet.
LEMMA OwnCompress ==
    ASSUME NEW t \in Threads, Inv, CallPhases, pc[t] = "compress"
    PROVE  DOMAIN tasks[t] = {1} /\ 1 \in Unpushed(t)
  BY DEF CallPhases, PhaseAt, Unpushed

LEMMA PendingTempsStep ==
    ASSUME NEW t \in Threads, Inv, CallPhases, IdsOwned, TempsStaged, Call(t) \/ Step(t),
           NEW k \in DOMAIN pending_files'
    PROVE  Staged(pending_files[k])'
  <1>1. ASSUME NEW j \in DOMAIN pending_files, ~FinishPack(t),
               pending_files'[k].inode_id = pending_files[j].inode_id,
               pending_files'[k].path = pending_files[j].path
        PROVE  Staged(pending_files[k])'
    <2>0. PICK i : i = pending_files[j].inode_id
      OBVIOUS
    <2>1. i \in InodeIds
      <3>1. pending_files[j] \in FileRecord
        BY DEF Inv, TypeOK, MemoryType
      <3> QED BY <2>0, <3>1 DEF FileRecord
    <2>2. Seen(i)
      BY <2>0 DEF Seen, InodesOf
    <2>3. ~(CompressFile(t) \/ CompressFileFails(t)) \/ i # tasks[t][1].inode_id
      <3> SUFFICES ASSUME CompressFile(t) \/ CompressFileFails(t)
                   PROVE  i # tasks[t][1].inode_id
        OBVIOUS
      <3>1. pc[t] = "compress"
        BY DEF CompressFile, CompressFileFails
      <3> QED BY <2>2, <3>1, OwnCompress DEF IdsOwned
    <2>4. temp_files'[i] = temp_files[i]
      BY <1>1, <2>1, <2>3, TempStep
    <2> QED BY <1>1, <2>0, <2>4 DEF TempsStaged, Staged
  <1>2. CASE PushFile(t) /\ k \in DOMAIN pending_files
    <2>1. ~FinishPack(t)
      BY <1>2 DEF PushFile, FinishPack
    <2> QED BY <1>1, <1>2, <2>1, PushEffect
  <1>3. CASE PushFile(t) /\ k \notin DOMAIN pending_files
    <2>0. PICK i : i = tasks[t][index[t]].inode_id
      OBVIOUS
    <2>1. /\ pending_files'[k].inode_id = i
          /\ pending_files'[k].path = tasks[t][index[t]].path
      <3> DEFINE task == tasks[t][index[t]]
      <3>1. pending_files'[k] = [inode_id |-> task.inode_id, path |-> task.path,
                                 volume_id |-> None, offset_in_volume |-> 0]
        BY <1>3, PushEffect
      <3> QED BY <2>0, <3>1
    <2>2. pc[t] = "push" /\ UNCHANGED temp_files
      BY <1>3 DEF PushFile, diskVars
    <2>3. Staged(tasks[t][index[t]])
      BY <1>3, <2>2, PushedOnce DEF TempsStaged, BeingCompressed
    <2> QED BY <2>0, <2>1, <2>2, <2>3 DEF Staged
  <1>4. CASE FinishPack(t)
    BY <1>4 DEF FinishPack, ClearPending
  <1> QED BY <1>1, <1>2, <1>3, <1>4, PendingStep

\* The temp file of a file that is not pushed yet is not touched by others, nor by its
\* owner once it is written.
LEMMA UnpushedKept ==
    ASSUME NEW t \in Threads, Inv, CallPhases, IdsOwned, Call(t) \/ Step(t),
           NEW u \in Threads, NEW k \in Unpushed(u), Staged(tasks[u][k]),
           u # t \/ pc[t] # "compress", tasks'[u] = tasks[u]
    PROVE  Staged(tasks[u][k])'
  <1>0. PICK i : i = tasks[u][k].inode_id
    OBVIOUS
  <1>1. k \in DOMAIN tasks[u]
    BY DEF Unpushed
  <1>2. i \in InodeIds /\ i \in InodesOf(tasks[u])
    <2>1. i \in InodesOf(tasks[u])
      BY <1>0, <1>1, InodeOf
    <2> QED BY <2>1, InodesType DEF Inv, TypeOK, LocalsType
  <1>3. ~Seen(i)
    BY <1>0 DEF IdsOwned
  <1>4. ~(FinishPack(t) /\ i \in InodesOf(pending_files))
    BY <1>3 DEF Seen
  <1>5. ~((CompressFile(t) \/ CompressFileFails(t)) /\ i = tasks[t][1].inode_id)
    <2> SUFFICES ASSUME CompressFile(t) \/ CompressFileFails(t), i = tasks[t][1].inode_id
                 PROVE  FALSE
      OBVIOUS
    <2>1. pc[t] = "compress"
      BY DEF CompressFile, CompressFileFails
    <2>2. i \in InodesOf(tasks[t])
      BY <2>1, OwnCompress, InodeOf
    <2> QED BY <1>2, <2>1, <2>2 DEF IdsOwned
  <1>6. temp_files'[i] = temp_files[i]
    BY <1>2, <1>4, <1>5, TempStep
  <1> QED BY <1>0, <1>6 DEF Staged

LEMMA UnpushedTempsStep ==
    ASSUME NEW t \in Threads, Inv, FreshIds, SourcesKnown, CallPhases, IdsOwned, TempsStaged,
           Call(t) \/ Step(t), NEW u \in Threads, NEW k \in Unpushed(u)'
    PROVE  pc'[u] = "compress" \/ Staged(tasks[u][k])' \/ BeingCompressed(u, k)'
  <1>0. k \in DOMAIN tasks'[u]
    BY DEF Unpushed
  <1>1. CASE u # t
    <2>1. LocalsOf(u)' = LocalsOf(u)
      BY <1>1, OthersStep DEF Inv, TypeOK
    <2>2. pc'[u] = pc[u] /\ tasks'[u] = tasks[u] /\ k \in Unpushed(u)
      BY <2>1 DEF LocalsOf, Unpushed
    <2>3. CASE Staged(tasks[u][k])
      BY <1>1, <2>2, <2>3, UnpushedKept
    <2>4. CASE BeingCompressed(u, k)
      <3>1. /\ \A task \in pool : task.owner # t => task \in pool'
            /\ \A f \in failed : f[1] # t => f \in failed'
        BY PoolStep
      <3> QED BY <1>1, <2>2, <2>4, <3>1 DEF BeingCompressed
    <2> QED BY <2>2, <2>3, <2>4 DEF TempsStaged
  <1>2. CASE CallAdd(t) /\ u = t
    BY <1>2 DEF CallAdd, Goto, Inv, TypeOK, LocalsType
  <1>3. CASE CallBatch(t) /\ u = t
    <2>1. PICK s \in Seq(FileTask) :
            /\ tasks' = [tasks EXCEPT ![t] = s]
            /\ pool' = pool \cup {[kind |-> "compress", owner |-> t, k |-> j,
                                   inode_id |-> s[j].inode_id, path |-> s[j].path] :
                                       j \in DOMAIN s}
      BY <1>3, CallBatchEffect
    <2>2. pc'[t] = "pool_compress" /\ tasks'[t] = s
      BY <1>3, <2>1 DEF CallBatch, Goto, Inv, TypeOK, LocalsType
    <2>3. [kind |-> "compress", owner |-> t, k |-> k,
           inode_id |-> s[k].inode_id, path |-> s[k].path] \in pool'
      BY <1>0, <1>3, <2>1, <2>2
    <2> QED BY <1>3, <2>2, <2>3 DEF BeingCompressed
  <1>4. CASE u = t /\ ~CallAdd(t) /\ ~CallBatch(t)
    <2>1. tasks'[t] = tasks[t] /\ k \in Unpushed(t)
      BY <1>0, <1>4, TasksStep
    <2>2. CASE pc[t] = "compress"
      <3>1. CompressFile(t) /\ ~\E code : Return(t, code)
        <4>1. ~\E code : Return(t, code)
          BY <1>0, <1>4 DEF Return, Inv, TypeOK, LocalsType
        <4>2. ~CompressFileFails(t)
          BY <4>1 DEF CompressFileFails
        <4> QED BY <1>4, <2>2, <4>1, <4>2 DEF Call, CallPack, CallMount, CallRead, Unmount,
               Begin, Step, CollectStep, JoinCompress, JoinCompressFails, CheckRoom, PushFile,
               PushTooLarge, PackStep, LockPack, NothingToPack, PlanVolume, PlaceFile,
               WriteHeader, WriteHeaderFails, WriteMeta, WriteMetaFails, ReadTemps,
               ReadTempsFails, JoinWrites, JoinWritesFails, FinishPack, MountReadStep,
               MountRecord, MountRecordFails, FinishMount, ReadImage, ReadImageFails,
               FillOutput, FillOutputFails
      <3>2. k = 1 /\ tasks[t] \in Seq(FileTask)
        BY <2>1, <2>2, OwnCompress DEF Unpushed, Inv, TypeOK, LocalsType
      <3>3. tasks[t][1].inode_id \in InodeIds
        <4>1. tasks[t][1] \in FileTask
          BY <2>2, <3>2, OwnCompress
        <4> QED BY <4>1 DEF FileTask
      <3>4. temp_files'[tasks[t][1].inode_id] = tasks[t][1].path
        BY <3>1, <3>3 DEF CompressFile, Inv, TypeOK, DiskType
      <3> QED BY <1>4, <2>1, <3>2, <3>4 DEF Staged
    <2>3. CASE pc[t] = "pool_compress"
      <3>1. JoinCompress(t)
        <4>1. ~\E code : Return(t, code)
          BY <1>0, <1>4 DEF Return, Inv, TypeOK, LocalsType
        <4>2. ~JoinCompressFails(t)
          BY <4>1 DEF JoinCompressFails
        <4> QED BY <1>4, <2>3, <4>2 DEF Call, CallPack, CallMount, CallRead, Unmount,
               Begin, Step, CollectStep, CompressFile, CompressFileFails, CheckRoom, PushFile,
               PushTooLarge, PackStep, LockPack, NothingToPack, PlanVolume, PlaceFile,
               WriteHeader, WriteHeaderFails, WriteMeta, WriteMetaFails, ReadTemps,
               ReadTempsFails, JoinWrites, JoinWritesFails, FinishPack, MountReadStep,
               MountRecord, MountRecordFails, FinishMount, ReadImage, ReadImageFails,
               FillOutput, FillOutputFails
      <3>2. Staged(tasks[t][k])
        <4>1. FuturesDone(t)
          BY <3>1 DEF JoinCompress
        <4>2. <<t, k>> \notin failed /\ \A task \in pool : task.owner # t
          BY <4>1 DEF FuturesDone
        <4>3. ~BeingCompressed(t, k)
          BY <4>2 DEF BeingCompressed
        <4> QED BY <2>1, <2>3, <4>3 DEF TempsStaged
      <3> QED BY <1>4, <2>1, <2>3, <3>2, UnpushedKept
    <2>4. CASE pc[t] # "compress" /\ pc[t] # "pool_compress"
      <3>1. Staged(tasks[t][k])
        BY <2>1, <2>4 DEF TempsStaged, BeingCompressed
      <3> QED BY <1>4, <2>1, <2>4, <3>1, UnpushedKept
    <2> QED BY <2>2, <2>3, <2>4
  <1> QED BY <1>1, <1>2, <1>3, <1>4

LEMMA TempsStagedStep ==
    ASSUME NEW t \in Threads, Inv, FreshIds, SourcesKnown, CallPhases, IdsOwned, TempsStaged,
           Call(t) \/ Step(t)
    PROVE  TempsStaged'
  BY PendingTempsStep, UnpushedTempsStep DEF TempsStaged

-----------------------------------------------------------------------------
(* Workers, crashes, and the theorem. *)

\* What a worker does to the disk and what it leaves alone.
LEMMA WorkerFiles ==
    ASSUME NEW task \in pool, Inv, RunTask(task)
    PROVE  /\ pool' = pool \ {task}
           /\ UNCHANGED <<pending_files, file_metadata_cache, mounted_volumes, pc, tasks,
                          index, trigger, volume_meta, metadata, content, source>>
           /\ \A v \in VolumeIds :
                 /\ images'[v] # None <=> images[v] # None
                 /\ images[v] # None => /\ images'[v].header = images[v].header
                                        /\ images'[v].metas = images[v].metas
           /\ \A f \in failed : f \in failed'
           /\ \A i \in InodeIds :
                 \/ temp_files'[i] = temp_files[i]
                 \/ /\ task.kind = "compress" /\ i = task.inode_id
                    /\ \/ temp_files'[i] = task.path
                       \/ task.owner = None
                       \/ <<task.owner, task.k>> \in failed'
  <1> USE NoneAssumption DEF Inv, TypeOK, DiskType, SyncType
  <1>1. UNCHANGED <<pending_files, file_metadata_cache, mounted_volumes, pc, tasks,
                    index, trigger, volume_meta, metadata, content, source>>
    BY DEF RunTask, RunCompress, RunCompressFails, RunWrite, RunWriteFails, memVars, addVars,
           packVars, readVars
  <1>2. \A f \in failed : f \in failed'
    BY PoolEffect
  <1>3. ASSUME NEW v \in VolumeIds
        PROVE  /\ images'[v] # None <=> images[v] # None
               /\ images[v] # None => /\ images'[v].header = images[v].header
                                      /\ images'[v].metas = images[v].metas
    <2>1. CASE UNCHANGED images
      BY <2>1
    <2>2. ASSUME NEW e, task.kind = "write",
                 images' = [images EXCEPT ![task.volume_id].data = Overwrite(@, e)]
          PROVE  /\ images'[v] # None <=> images[v] # None
                 /\ images[v] # None => /\ images'[v].header = images[v].header
                                        /\ images'[v].metas = images[v].metas
      <3>1. task.volume_id \in VolumeIds /\ images[task.volume_id] \in Image
        BY <2>2 DEF WriteTask, CompressTask, ImagesPresent
      <3> QED BY <1>3, <2>2, <3>1, WorkerEffect DEF Image
    <2> QED BY <2>1, <2>2 DEF RunTask, RunCompress, RunCompressFails, RunWrite, RunWriteFails
  <1>4. ASSUME NEW i \in InodeIds
        PROVE  \/ temp_files'[i] = temp_files[i]
               \/ /\ task.kind = "compress" /\ i = task.inode_id
                  /\ \/ temp_files'[i] = task.path
                     \/ task.owner = None
                     \/ <<task.owner, task.k>> \in failed'
    <2>1. CASE RunCompress(task)
      BY <2>1 DEF RunCompress
    <2>2. CASE RunCompressFails(task)
      BY <2>2 DEF RunCompressFails, LeaveTemp, TaskFails
    <2> QED BY <2>1, <2>2 DEF RunTask, RunWrite, RunWriteFails
  <1> QED BY <1>1, <1>2, <1>3, <1>4, PoolEffect

\* A compress task with an owner writes the temp file of a file of its owner that is
\* not pushed yet.
LEMMA OwnerOf ==
    ASSUME Inv, CallPhases, IdsOwned, NEW task \in pool, task.kind = "compress",
           task.owner # None
    PROVE  /\ task.owner \in Threads
           /\ pc[task.owner] = "pool_compress"
           /\ task.k \in Unpushed(task.owner)
           /\ tasks[task.owner][task.k].inode_id = task.inode_id
           /\ tasks[task.owner][task.k].path = task.path
  <1>1. task.owner \in Threads
    BY DEF Inv, TypeOK, SyncType, CompressTask, WriteTask
  <1>2. pc[task.owner] = "pool_compress"
    BY DEF CallPhases, JoinPc
  <1>3. /\ task.k \in DOMAIN tasks[task.owner]
        /\ tasks[task.owner][task.k] = [inode_id |-> task.inode_id, path |-> task.path]
    BY DEF IdsOwned, CompressOwned
  <1>4. task.k \in Unpushed(task.owner)
    BY <1>2, <1>3 DEF Unpushed
  <1> QED BY <1>1, <1>2, <1>3, <1>4

LEMMA WorkerTemps ==
    ASSUME NEW task \in pool, Inv, CallPhases, IdsOwned, TempsStaged, RunTask(task)
    PROVE  TempsStaged'
  <1> USE WorkerFiles
  <1>1. ASSUME NEW k \in DOMAIN pending_files
        PROVE  temp_files'[pending_files[k].inode_id] = pending_files[k].path
    <2>0. PICK i : i = pending_files[k].inode_id
      OBVIOUS
    <2>1. i \in InodeIds
      <3>1. pending_files[k] \in FileRecord
        BY DEF Inv, TypeOK, MemoryType
      <3> QED BY <2>0, <3>1 DEF FileRecord
    <2>2. Seen(i)
      BY <2>0 DEF Seen, InodesOf
    <2>3. ~(task.kind = "compress" /\ i = task.inode_id)
      <3>1. CASE task.owner = None
        BY <2>2, <3>1 DEF IdsOwned, CompressOwned
      <3>2. CASE task.owner # None
        BY <2>2, <3>2, OwnerOf DEF IdsOwned
      <3> QED BY <3>1, <3>2
    <2> QED BY <2>0, <2>1, <2>3 DEF TempsStaged, Staged
  <1>2. ASSUME NEW u \in Threads, NEW k \in Unpushed(u)
        PROVE  \/ pc[u] = "compress"
               \/ temp_files'[tasks[u][k].inode_id] = tasks[u][k].path
               \/ BeingCompressed(u, k)'
    <2>0. PICK i : i = tasks[u][k].inode_id
      OBVIOUS
    <2>1. i \in InodesOf(tasks[u]) /\ i \in InodeIds /\ k \in DOMAIN tasks[u]
      <3>1. k \in DOMAIN tasks[u] /\ i \in InodesOf(tasks[u])
        BY <2>0, InodeOf DEF Unpushed
      <3> QED BY <3>1, InodesType DEF Inv, TypeOK, LocalsType
    <2>2. CASE task.kind = "compress" /\ i = task.inode_id
      <3>1. task.owner # None
        BY <2>1, <2>2 DEF IdsOwned, CompressOwned
      <3>2. task.owner = u
        <4>1. i \in InodesOf(tasks[task.owner])
          BY <2>2, <3>1, OwnerOf, InodeOf DEF Unpushed
        <4> QED BY <2>1, <2>2, <3>1, <4>1, OwnerOf DEF IdsOwned
      <3>3. task.k = k /\ task.path = tasks[u][k].path /\ pc[u] = "pool_compress"
        <4>1. /\ task.k \in DOMAIN tasks[u] /\ tasks[u][task.k].inode_id = i
              /\ tasks[u][task.k].path = task.path /\ pc[u] = "pool_compress"
          BY <2>2, <3>1, <3>2, OwnerOf DEF Unpushed
        <4>2. Distinct(tasks[u])
          BY DEF IdsOwned
        <4>3. task.k = k
          BY <2>0, <2>1, <4>1, <4>2 DEF Distinct
        <4> QED BY <4>1, <4>3
      <3>4. temp_files'[i] = task.path \/ <<u, k>> \in failed'
        <4>1. RunCompress(task) \/ RunCompressFails(task)
          BY <2>2 DEF RunTask, RunWrite, RunWriteFails
        <4>2. CASE RunCompress(task)
          BY <2>1, <2>2, <4>2 DEF RunCompress, Inv, TypeOK, DiskType
        <4>3. CASE RunCompressFails(task)
          BY <3>1, <3>2, <3>3, <4>3 DEF RunCompressFails, TaskFails
        <4> QED BY <4>1, <4>2, <4>3
      <3> QED BY <2>0, <3>3, <3>4 DEF BeingCompressed
    <2>3. CASE ~(task.kind = "compress" /\ i = task.inode_id)
      <3>1. temp_files'[i] = temp_files[i]
        BY <2>1, <2>3
      <3>2. CASE Staged(tasks[u][k])
        BY <2>0, <3>1, <3>2 DEF Staged
      <3>3. CASE BeingCompressed(u, k)
        <4>1. CASE <<u, k>> \in failed
          BY <3>3, <4>1 DEF BeingCompressed
        <4>2. ASSUME NEW other \in pool, other.kind = "compress", other.owner = u, other.k = k
              PROVE  BeingCompressed(u, k)'
          <5>1. other.inode_id = i
            BY <2>0, <4>2, OwnerOf, IdsAssumption
          <5>2. other # task
            BY <2>3, <4>2, <5>1
          <5> QED BY <3>3, <4>2, <5>2 DEF BeingCompressed
        <4> QED BY <3>3, <4>1, <4>2 DEF BeingCompressed
      <3> QED BY <3>2, <3>3 DEF TempsStaged
    <2> QED BY <2>2, <2>3
  <1> QED BY <1>1, <1>2 DEF TempsStaged, Staged, Unpushed

LEMMA WorkerSeen ==
    ASSUME NEW task \in pool, Inv, RunTask(task), NEW i
    PROVE  Seen(i)' <=> Seen(i)
  <1>1. UNCHANGED pending_files
    BY WorkerFiles
  <1>2. ASSUME NEW v \in VolumeIds
        PROVE  (images'[v] # None /\ i \in InodesOf(images'[v].metas))
               <=> (images[v] # None /\ i \in InodesOf(images[v].metas))
    <2>1. /\ images'[v] # None <=> images[v] # None
          /\ images[v] # None => images'[v].metas = images[v].metas
      BY WorkerFiles
    <2> QED BY <2>1
  <1> QED BY <1>1, <1>2 DEF Seen, InodesOf

LEMMA WorkerStaging ==
    ASSUME NEW task \in pool, Inv, Staging, RunTask(task)
    PROVE  Staging'
  <1>0. /\ UNCHANGED <<pending_files, file_metadata_cache, pc, tasks, index, trigger, source>>
        /\ pool' \subseteq pool
        /\ \A v \in VolumeIds : images'[v] # None =>
              images[v] # None /\ images'[v].metas = images[v].metas
    BY WorkerFiles
  <1>1. SourcesKnown'
    <2>1. SourcesKnown
      BY DEF Staging
    <2>2. \A v \in VolumeIds : images'[v] # None =>
             \A k \in DOMAIN images'[v].metas : Issued(images[v].metas[k])'
      <3> SUFFICES ASSUME NEW v \in VolumeIds, images'[v] # None,
                          NEW k \in DOMAIN images'[v].metas
                   PROVE  Issued(images[v].metas[k])'
        OBVIOUS
      <3>1. images[v] # None /\ images'[v].metas = images[v].metas
        BY <1>0
      <3> QED BY <1>0, <2>1, <3>1 DEF SourcesKnown, Issued
    <2>3. /\ \A t \in Threads : \A k \in DOMAIN tasks'[t] : Issued(tasks[t][k])'
          /\ \A other \in pool' : other.kind = "compress" => Issued(other)'
          /\ \A k \in DOMAIN pending_files' : Issued(pending_files[k])'
          /\ \A i \in InodeIds : file_metadata_cache'[i] # None =>
                /\ file_metadata_cache'[i].inode_id = i
                /\ Issued(file_metadata_cache[i])'
      BY <1>0, <2>1 DEF SourcesKnown, Issued
    <2> QED BY <2>2, <2>3 DEF SourcesKnown
  <1>2. CallPhases'
    BY <1>0 DEF Staging, CallPhases, PhaseAt, JoinPc
  <1>3. IdsOwned'
    <2>0. /\ \A t \in Threads : Distinct(tasks[t])
          /\ \A t, u \in Threads : t # u => InodesOf(tasks[t]) \cap InodesOf(tasks[u]) = {}
          /\ Distinct(pending_files)
      BY DEF Staging, IdsOwned
    <2>1. \A t \in Threads : Distinct(tasks[t])'
      BY <1>0, <2>0 DEF Distinct
    <2>2. \A t, u \in Threads : t # u => InodesOf(tasks[t])' \cap InodesOf(tasks[u])' = {}
      <3>1. \A u \in Threads : InodesOf(tasks[u])' = InodesOf(tasks[u])
        BY <1>0 DEF InodesOf
      <3> QED BY <2>0, <3>1
    <2>3. Distinct(pending_files)'
      BY <1>0, <2>0 DEF Distinct
    <2>4. ASSUME NEW t \in Threads, NEW k \in Unpushed(t)'
          PROVE  ~Seen(tasks[t][k].inode_id)'
      <3>0. PICK i : i = tasks[t][k].inode_id
        OBVIOUS
      <3>1. k \in Unpushed(t)
        BY WorkerFiles DEF Unpushed
      <3>2. ~Seen(i)'
        BY <3>0, <3>1, WorkerSeen DEF Staging, IdsOwned
      <3> QED BY <3>0, <3>2, WorkerFiles DEF Seen
    <2>5. ASSUME NEW other \in pool', other.kind = "compress"
          PROVE  CompressOwned(other)'
      <3>1. other \in pool /\ CompressOwned(other)
        BY <1>0, <2>5 DEF Staging, IdsOwned
      <3>2. Seen(other.inode_id)' <=> Seen(other.inode_id)
        BY WorkerSeen
      <3>3. \A u \in Threads : InodesOf(tasks[u])' = InodesOf(tasks[u])
        BY <1>0 DEF InodesOf
      <3> QED BY <1>0, <3>1, <3>2, <3>3 DEF CompressOwned
    <2> QED BY <2>1, <2>2, <2>3, <2>4, <2>5 DEF IdsOwned
  <1>4. TempsStaged'
    BY WorkerTemps DEF Staging
  <1> QED BY <1>1, <1>2, <1>3, <1>4 DEF Staging

\* After a crash only the images know any ids.
LEMMA CrashStaging ==
    ASSUME Inv, Staging, Crash
    PROVE  Staging'
  <1>1. /\ pending_files' = <<>> /\ pool' = {} /\ images' = images /\ source' = source
        /\ file_metadata_cache' = NoInodes
        /\ \A t \in Threads : pc'[t] = "idle" /\ tasks'[t] = <<>> /\ trigger'[t] = None
    BY DEF Crash, diskVars, Unset
  <1>2. SourcesKnown'
    BY <1>1 DEF Staging, SourcesKnown, Issued, NoInodes
  <1>3. CallPhases'
    BY <1>1, NoneAssumption DEF CallPhases, PhaseAt, UnlockedPackPcs, LockedPackPcs
  <1>4. IdsOwned'
    BY <1>1 DEF IdsOwned, Distinct, Unpushed, InodesOf
  <1>5. TempsStaged'
    BY <1>1 DEF TempsStaged, Unpushed
  <1> QED BY <1>2, <1>3, <1>4, <1>5 DEF Staging

LEMMA InitStaging == Init => Staging
  <1> SUFFICES ASSUME Init
               PROVE  Staging
    OBVIOUS
  <1>1. /\ pending_files = <<>> /\ pool = {}
        /\ file_metadata_cache = NoInodes
        /\ \A v \in VolumeIds : images[v] = None
        /\ \A t \in Threads : pc[t] = "idle" /\ tasks[t] = <<>> /\ trigger[t] = None
    BY DEF Init, Unset
  <1>2. SourcesKnown
    BY <1>1 DEF SourcesKnown, NoInodes
  <1>3. CallPhases
    BY <1>1, NoneAssumption DEF CallPhases, PhaseAt, UnlockedPackPcs, LockedPackPcs
  <1>4. IdsOwned
    BY <1>1 DEF IdsOwned, Distinct, Unpushed, InodesOf
  <1>5. TempsStaged
    BY <1>1 DEF TempsStaged, Unpushed
  <1> QED BY <1>2, <1>3, <1>4, <1>5 DEF Staging

LEMMA StutterStaging == Staging /\ UNCHANGED vars => Staging'
  <1> SUFFICES ASSUME Staging, UNCHANGED vars
               PROVE  Staging'
    OBVIOUS
  <1> USE DEF vars, memVars, diskVars, lockVars, poolVars, addVars, packVars, readVars
  <1>1. SourcesKnown' /\ CallPhases'
    BY DEF Staging, SourcesKnown, Issued, CallPhases, PhaseAt, JoinPc
  <1>2. IdsOwned'
    <2>1. \A i : Seen(i)' <=> Seen(i)
      BY DEF Seen, InodesOf
    <2>2. \A t \in Threads : /\ tasks'[t] = tasks[t]
                             /\ InodesOf(tasks[t])' = InodesOf(tasks[t])
                             /\ Unpushed(t)' = Unpushed(t)
      BY DEF InodesOf, Unpushed
    <2>3. \A task \in pool' : task.kind = "compress" => CompressOwned(task)'
      BY <2>1, <2>2 DEF Staging, IdsOwned, CompressOwned
    <2>4. \A t \in Threads : \A k \in Unpushed(t)' : ~Seen(tasks[t][k].inode_id)'
      BY <2>1, <2>2 DEF Staging, IdsOwned, Seen, InodesOf
    <2> QED BY <2>2, <2>3, <2>4 DEF Staging, IdsOwned, Distinct, InodesOf
  <1>3. TempsStaged'
    BY DEF Staging, TempsStaged, Staged, Unpushed, BeingCompressed
  <1> QED BY <1>1, <1>2, <1>3 DEF Staging

LEMMA ThreadStaging ==
    ASSUME NEW t \in Threads, Inv, FreshIds, Staging, Call(t) \/ Step(t)
    PROVE  Staging'
  BY SourcesStep, CallPhasesStep, IdsStep, TempsStagedStep DEF Staging

LEMMA NextStaging == FreshIds /\ Inv /\ Staging /\ [Next]_vars => Staging'
  <1> SUFFICES ASSUME FreshIds, Inv, Staging, [Next]_vars
               PROVE  Staging'
    OBVIOUS
  <1>1. CASE \E t \in Threads : Call(t) \/ Step(t)
    BY <1>1, ThreadStaging
  <1>2. CASE Worker
    BY <1>2, WorkerStaging DEF Worker
  <1>3. CASE Crash
    BY <1>3, CrashStaging
  <1>4. CASE Stop \/ UNCHANGED vars
    BY <1>4, StutterStaging DEF Stop
  <1> QED BY <1>1, <1>2, <1>3, <1>4 DEF Next

LEMMA StagingInvariance ==
    ASSUME FreshIds
    PROVE  Spec => []Staging
  <1>1. Init => Staging
    BY InitStaging
  <1>2. Inv /\ Staging /\ [Next]_vars => Staging'
    BY NextStaging
  <1> QED BY <1>1, <1>2, Invariance, PTL DEF Spec

\* If the generator repeats no id, the compressed bytes of every pending file are in
\* its temp file whenever the file is pending: no other call, no pool task left behind
\* by a call that returned early and no clean-up of a pack overwrites or deletes them.
THEOREM PendingFilesStaged ==
    ASSUME FreshIds
    PROVE  Spec => []PendingStaged
  <1>1. Staging => PendingStaged
    BY DEF Staging, TempsStaged, Staged, IdsOwned, Distinct, PendingStaged
  <1> QED BY <1>1, StagingInvariance, PTL

-----------------------------------------------------------------------------
(* Conditions of some later theorems: one caller, no fault. *)

SingleCaller == \A t, u \in Threads : t = u

\* With no fault allowed no file operation fails.
LEMMA NoFaultStep ==
    ASSUME NEW t \in Threads, MaxFaults = 0, Inv, Staging, failed = {}
    PROVE  /\ ~Fault
           /\ ~WriteHeaderFails(t) /\ ~WriteMetaFails(t) /\ ~ReadTempsFails(t)
           /\ ~JoinWritesFails(t) /\ ~JoinCompressFails(t)
  <1>1. ~Fault
    BY DEF Fault, Inv, TypeOK, HistoryType
  <1>2. \A k \in DOMAIN pending_files : TempPresent(pending_files[k])
    <2>1. ASSUME NEW k \in DOMAIN pending_files
          PROVE  TempPresent(pending_files[k])
      <3>1. pending_files[k] \in FileRecord
        BY DEF Inv, TypeOK, MemoryType
      <3>2. pending_files[k].path # None
        BY <3>1, IdsAssumption DEF FileRecord
      <3> QED BY <3>2 DEF Staging, TempsStaged, Staged, TempPresent
    <2> QED BY <2>1
  <1>3. ~FutureFails(t)
    BY DEF FutureFails
  <1> QED BY <1>1, <1>2, <1>3 DEF WriteHeaderFails, WriteMetaFails, ReadTempsFails,
             JoinWritesFails, JoinCompressFails

LEMMA FailedStep ==
    ASSUME NEW t \in Threads, failed = {}, Call(t) \/ Step(t)
    PROVE  failed' = {}
  <1>1. CASE Call(t)
    BY <1>1 DEF Call, CallAdd, CallBatch, CallPack, CallMount, CallRead, Unmount, poolVars
  <1>2. CASE CollectStep(t)
    BY <1>2 DEF CollectStep, CompressFile, CompressFileFails, JoinCompress,
                JoinCompressFails, CheckRoom, PushFile, PushTooLarge, DropFutures, poolVars
  <1>3. CASE PackStep(t)
    BY <1>3 DEF PackStep, LockPack, NothingToPack, PlanVolume, PlaceFile, WriteHeader,
                WriteHeaderFails, WriteMeta, WriteMetaFails, ReadTemps, ReadTempsFails,
                JoinWrites, JoinWritesFails, FinishPack, DropFutures, poolVars
  <1>4. CASE MountReadStep(t)
    BY <1>4 DEF MountReadStep, MountRecord, MountRecordFails, FinishMount, ReadImage,
                ReadImageFails, FillOutput, FillOutputFails, poolVars
  <1> QED BY <1>1, <1>2, <1>3, <1>4 DEF Step

LEMMA FailedNext ==
    ASSUME MaxFaults = 0, Inv, failed = {}, [Next]_vars
    PROVE  failed' = {}
  <1>1. CASE \E t \in Threads : Call(t) \/ Step(t)
    BY <1>1, FailedStep
  <1>2. CASE Worker
    <2>1. ~Fault
      BY DEF Fault, Inv, TypeOK, HistoryType
    <2> QED BY <1>2, <2>1 DEF Worker, RunTask, RunCompress, RunCompressFails, RunWrite,
                              RunWriteFails, TaskFails
  <1>3. CASE Crash \/ Stop \/ UNCHANGED vars
    BY <1>3 DEF Crash, Stop, vars, poolVars
  <1> QED BY <1>1, <1>2, <1>3 DEF Next

LEMMA NoneFails ==
    ASSUME MaxFaults = 0
    PROVE  Spec => [](failed = {})
  <1> DEFINE Clean == failed = {}
  <1>1. Init => Clean
    BY DEF Init
  <1>2. Inv /\ Clean /\ [Next]_vars => Clean'
    BY FailedNext
  <1> HIDE DEF Clean
  <1>3. Spec => []Clean
    BY <1>1, <1>2, Invariance, PTL DEF Spec
  <1> QED BY <1>3 DEF Clean
=============================================================================
