---------------------------- MODULE VolumeManager ----------------------------
(***************************************************************************)
(* The whole VolumeManager: several caller threads, the thread pool, the   *)
(* two mutexes, the disk, failing file operations and process crashes.     *)
(***************************************************************************)
EXTENDS CollectFiles, PackVolume, MountRead, SequencesExt

NoInodes == [i \in InodeIds |-> None]

\* A thread's locals outside calls.
Unset == [t \in Threads |-> None]

\* The constructor: nothing pending, nothing cached, nothing mounted, an empty disk.
Init ==
    /\ pending_files = <<>>
    /\ pending_size = 0
    /\ file_metadata_cache = NoInodes
    /\ mounted_volumes = {}
    /\ pack_mutex = None /\ state_mutex = None
    /\ pool = {} /\ failed = {}
    /\ pc = [t \in Threads |-> "idle"]
    /\ tasks = [t \in Threads |-> <<>>]
    /\ index = [t \in Threads |-> 1]
    /\ trigger = Unset /\ volume_meta = Unset
    /\ metadata = Unset /\ content = Unset
    /\ temp_files = NoInodes /\ output_files = NoInodes
    /\ images = [v \in VolumeIds |-> None]
    /\ source = NoInodes /\ sealed = {}
    /\ accepted = {} /\ delivered = Unset
    /\ calls = 0 /\ faults = 0 /\ crashes = 0

\* The process dies between two steps and a new VolumeManager is constructed: only
\* the disk stays.  The answers of the old process bind nobody any more.  (To die
\* within a write is to die after a write that failed part way.)
Crash ==
    /\ crashes < MaxCrashes
    /\ crashes' = crashes + 1
    /\ pending_files' = <<>>
    /\ pending_size' = 0
    /\ file_metadata_cache' = NoInodes
    /\ mounted_volumes' = {}
    /\ pack_mutex' = None /\ state_mutex' = None
    /\ pool' = {} /\ failed' = {}
    /\ pc' = [t \in Threads |-> "idle"]
    /\ tasks' = [t \in Threads |-> <<>>]
    /\ index' = [t \in Threads |-> 1]
    /\ trigger' = Unset /\ volume_meta' = Unset
    /\ metadata' = Unset /\ content' = Unset
    /\ accepted' = {} /\ delivered' = Unset
    /\ UNCHANGED <<diskVars, source, sealed, calls, faults>>

Call(t) ==
    \/ CallAdd(t)
    \/ CallBatch(t)
    \/ CallPack(t)
    \/ CallMount(t)
    \/ CallRead(t)
    \/ Unmount(t)

\* A thread inside a call makes its next step.
Step(t) == CollectStep(t) \/ PackStep(t) \/ MountReadStep(t)

\* A worker finishes a task; the order of the queue is given up.
RunTask(task) ==
    \/ RunCompress(task)
    \/ RunCompressFails(task)
    \/ RunWrite(task)
    \/ RunWriteFails(task)

Worker == \E task \in pool : RunTask(task)

\* Nobody is inside a call and no task is left: the callers may stop for good.
Quiet == /\ \A t \in Threads : pc[t] = "idle"
         /\ pool = {}
Stop == Quiet /\ UNCHANGED vars

Next == \/ \E t \in Threads : Call(t) \/ Step(t)
        \/ Worker
        \/ Crash
        \/ Stop

Spec == Init /\ [][Next]_vars

\* A thread inside a call and the workers keep running; callers need not call.
\* Weak fairness is enough for the mutexes because calls are bounded.
Fairness == /\ \A t \in Threads : WF_vars(Step(t))
            /\ WF_vars(Worker)

FairSpec == Spec /\ Fairness

-----------------------------------------------------------------------------
FileContents == Paths \cup {None, Torn}

MemoryType ==
    /\ pending_files \in Seq(FileRecord)
    /\ pending_size \in Nat
    /\ file_metadata_cache \in [InodeIds -> FileRecord \cup {None}]
    /\ mounted_volumes \in SUBSET VolumeIds

DiskType ==
    /\ temp_files \in [InodeIds -> FileContents]
    /\ images \in [VolumeIds -> Image \cup {None}]
    /\ output_files \in [InodeIds -> FileContents]

SyncType ==
    /\ pack_mutex \in Threads \cup {None}
    /\ state_mutex \in Threads \cup {None}
    /\ pool \in SUBSET (CompressTask \cup WriteTask)
    /\ failed \in SUBSET (Threads \X Nat)

LocalsType ==
    /\ pc \in [Threads -> Pcs]
    /\ tasks \in [Threads -> Seq(FileTask)]
    /\ index \in [Threads -> Nat \ {0}]
    /\ trigger \in [Threads -> Triggers \cup {None}]
    /\ volume_meta \in [Threads -> VolumeRecord \cup {None}]
    /\ metadata \in [Threads -> FileRecord \cup {None}]
    /\ content \in [Threads -> FileContents]

HistoryType ==
    /\ source \in [InodeIds -> Paths \cup {None}]
    /\ sealed \in SUBSET VolumeIds
    /\ accepted \in SUBSET InodeIds
    /\ delivered \in [Threads -> FileRecord \cup {None}]
    /\ calls \in Nat /\ faults \in Nat /\ crashes \in Nat

\* Every variable has its type.
TypeOK == MemoryType /\ DiskType /\ SyncType /\ LocalsType /\ HistoryType

InPack(t) == pc[t] \in LockedPackPcs \cup {"lock_state"}
InState(t) == \/ pc[t] \in LockedPackPcs
              \/ pc[t] = "push" /\ index[t] > 1

\* A mutex is held exactly by a thread whose program counter is in the code it
\* protects; whoever packs holds both, so no two packs and no append overlap.
LockOwnership ==
    \A t \in Threads :
        /\ pack_mutex = t <=> InPack(t)
        /\ state_mutex = t <=> InState(t)

LocalsReadyAt(t) ==
    /\ pc[t] \in AddPcs \/ trigger[t] = "AutoOverflow" => tasks[t] # <<>>
    /\ pc[t] = "push" => index[t] <= Len(tasks[t])
    /\ pc[t] \in {"place", "header", "metas"} => index[t] <= Len(pending_files)
    /\ pc[t] \notin {"push", "place", "metas", "mount"} => index[t] = 1
    /\ pc[t] \in LockedPackPcs \cup {"mount"} => volume_meta[t] # None
    /\ pc[t] \in {"metas", "read_temps", "join_writes", "finish", "mount"} =>
          images[volume_meta[t].volume_id] # None
    /\ pc[t] \in {"read_image", "fill_output"} =>
          /\ metadata[t] # None
          /\ metadata[t].volume_id \in VolumeIds
          /\ images[metadata[t].volume_id] # None
    /\ pc[t] = "fill_output" => content[t] # None

\* The locals a step reads were set by the steps before it, the loops stay within
\* their sequences, which only the holder of the lock can change, and the image a
\* thread works on is on disk.
LocalsReady == \A t \in Threads : LocalsReadyAt(t)

\* The image file of a mounted volume or of a write task is on disk, and a header
\* carries the id its file is named after.
ImagesPresent ==
    /\ \A v \in mounted_volumes : images[v] # None
    /\ \A task \in pool : task.kind = "write" => images[task.volume_id] # None
    /\ \A v \in VolumeIds : (images[v] # None /\ images[v].header # Torn) =>
                               images[v].header.volume_id = v

\* A pending file is still in its temp file, under an inode id of its own, at every
\* moment another step could read, overwrite or delete that temp file.
PendingStaged ==
    /\ \A k \in DOMAIN pending_files :
          temp_files[pending_files[k].inode_id] = pending_files[k].path
    /\ \A j, k \in DOMAIN pending_files :
          j # k => pending_files[j].inode_id # pending_files[k].inode_id

Add(size, file) == size + CompressedSize[file.path]

\* pending_size_ is the sum over pending_files_, whatever was packed or
\* added half-way through a batch.
SizeAccounted == pending_size = FoldLeft(Add, 0, pending_files)

\* The image of v has its header, all its metadata records and, for the inode i,
\* a record that leads to the content i was added with.
StoredIn(i, v) ==
    /\ images[v] # None
    /\ images[v].header # Torn
    /\ Len(images[v].metas) = images[v].header.file_count
    /\ \E k \in DOMAIN images[v].metas :
          /\ images[v].metas[k].inode_id = i
          /\ Frames(images[v].metas[k]) = {source[i]}

Stored(i) == \E v \in VolumeIds : StoredIn(i, v)

\* A file whose add returned SUCCESS is pending or in a complete image on disk: no
\* failed pack, concurrent append or cleared list loses it.
AcceptedKept ==
    \A i \in accepted : i \in InodesOf(pending_files) \/ Stored(i)

\* The byte ranges the records of an image give to its files do not overlap, lie
\* after the metadata area and inside the user data area.
ExtentsDisjoint ==
    \A v \in VolumeIds :
       (images[v] # None /\ images[v].header # Torn) =>
          LET header == images[v].header
              metas == images[v].metas
              Start(k) == metas[k].offset_in_volume
              End(k) == Start(k) + CompressedSize[metas[k].path]
          IN \A k \in DOMAIN metas :
                /\ Start(k) >= HeaderLen + RecordLen * header.file_count
                /\ End(k) <= header.user_data_offset + header.user_data_size
                /\ \A j \in DOMAIN metas : j < k => End(j) <= Start(k)

\* The inodes ReadAllInodesAndDirectories lists for the volume v.
ListedFiles(v) ==
    {i \in InodeIds : /\ file_metadata_cache[i] # None
                      /\ file_metadata_cache[i].volume_id = v}

\* What the cache says of an inode placed in a volume, and so every line of a listing
\* and every place a read looks at, is a record of that volume's image on disk:
\* failed packs, half-done mounts, unmounts and leftover images never part the two.
CachedOnDisk ==
    \A v \in VolumeIds : \A i \in ListedFiles(v) :
        /\ images[v] # None
        /\ file_metadata_cache[i] \in {images[v].metas[k] : k \in DOMAIN images[v].metas}

\* The output file of the last good ReadFile of t has the content the inode was added with.
RightOutput(t) ==
    output_files[delivered[t].inode_id] = source[delivered[t].inode_id]

\* What the last good ReadFile of a thread delivered from a volume whose pack succeeded
\* is, and stays, the content the inode was added with, although reads, packs, unmounts
\* and mounts of damaged images go on without a common lock.
DeliveredIntact ==
    \A t \in Threads :
       (delivered[t] # None /\ delivered[t].volume_id \in sealed) => RightOutput(t)

\* ReadFile returns SUCCESS only with the content of the file, whatever image it is in.
DeliveredRight == \A t \in Threads : delivered[t] # None => RightOutput(t)

\* The pending files leave the list only by a pack that has them all in one
\* complete, mounted image, or with the process.
PackAtomic ==
    [][pending_files # <<>> /\ pending_files' = <<>> =>
         \/ crashes' # crashes
         \/ \E v \in mounted_volumes' \ mounted_volumes :
               \A i \in InodesOf(pending_files) : StoredIn(i, v)']_vars

\* No step takes a stored file out of its image: not a later pack, a write task
\* that outlives its call, an unmount or a crash.
StoredForever ==
    [][\A i \in InodeIds, v \in VolumeIds : StoredIn(i, v) => StoredIn(i, v)']_vars

\* The pending files fit into one volume.
PendingFits == pending_size <= VolumeSize

\* When no call is in progress no pack is overdue: an add never leaves the list at or
\* above the threshold for later calls to find.
NoPackOverdue == Quiet => ~ShouldPackVolume

\* A pack begun because a limit was reached finds files to pack.
PackHasWork ==
    \A t \in Threads :
       pc[t] = "lock_state" /\ pending_files = <<>> => trigger[t] = "Manual"

\* Every record of a mounted volume is in the cache: its files can be read.
MountedCached ==
    \A v \in mounted_volumes : \A k \in DOMAIN images[v].metas :
       LET i == images[v].metas[k].inode_id
       IN file_metadata_cache[i] # None /\ file_metadata_cache[i].volume_id = v

\* A volume that was packed without an error passes the validation of a mount.
PackedRemountable ==
    \A v \in mounted_volumes : ValidateVolumeMetadata(images[v].header)

\* Every call returns.
CallsReturn == \A t \in Threads : pc[t] # "idle" ~> pc[t] = "idle"
=============================================================================
