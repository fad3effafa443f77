----------------------------- MODULE VolumeState -----------------------------
(***************************************************************************)
(* The state of one VolumeManager: its members, the files it keeps on      *)
(* disk, its two mutexes, its thread pool and the local variables of the   *)
(* calls in progress.  The modules CollectFiles, PackVolume and MountRead  *)
(* give the steps of the operations; VolumeManager composes them.          *)
(*                                                                         *)
(* Data is abstracted to what the properties tell apart.  A path stands    *)
(* for a source file with its content, its name and the size of its zstd   *)
(* frame (the same path always has the same content); the content of a     *)
(* file or of a byte range is the path it was compressed from, or Torn if  *)
(* a write of it failed part way.  What a read decompresses from a torn    *)
(* range is Torn as well: some other bytes.                                *)
(***************************************************************************)
EXTENDS Integers, Sequences, FiniteSets

CONSTANTS
    Threads,         \* the caller's threads
    Paths,           \* source files
    InodeIds,        \* inode ids the generator can return
    VolumeIds,       \* volume ids the generator can return
    None,            \* INVALID_VOLUME_ID, an absent file, a free mutex
    Torn             \* the content of a file whose write failed part way, and what
                     \* a read may make of it

CONSTANTS
    CompressedSize,  \* [Paths -> Nat]: size of the zstd frame; 0 iff the file is empty
    HeaderLen,       \* size of the volume header (56)
    RecordLen,       \* size of one serialized FileMetadata (v2: 51 + two strings)
    VolumeSize,      \* volume_size_
    ThresholdNum,    \* size_threshold_ is ThresholdNum / ThresholdDen
    ThresholdDen,
    FreshIds,        \* whether GenerateUniqueId never repeats a value
    SeparateReads    \* whether callers leave an inode alone that another one reads or
                     \* whose output file another one still uses

\* Bounds of the model; none of them is in the program.
CONSTANTS
    Ops,             \* [Threads -> SUBSET OpNames]: the operations a thread may call
    MaxBatch,        \* files in one AddFilesToCollect call
    MaxCalls,        \* calls begun by all threads together
    MaxFaults,       \* file operations that fail
    MaxCrashes       \* process crashes

OpNames == {"add", "batch", "pack", "mount", "unmount", "read"}

ASSUME IdsAssumption ==
    /\ None \notin Threads \cup Paths \cup InodeIds \cup VolumeIds
    /\ Torn \notin Paths
    /\ Torn # None

ASSUME SizesAssumption ==
    /\ CompressedSize \in [Paths -> Nat]
    /\ HeaderLen \in Nat
    /\ RecordLen \in Nat
    /\ VolumeSize \in Nat \ {0}

\* The constructor replaces a threshold outside (0, 1] by 0.9.
ASSUME ThresholdAssumption ==
    /\ ThresholdNum \in Nat \ {0}
    /\ ThresholdDen \in Nat \ {0}
    /\ ThresholdNum <= ThresholdDen

ASSUME BoundsAssumption ==
    /\ FreshIds \in BOOLEAN
    /\ SeparateReads \in BOOLEAN
    /\ Ops \in [Threads -> SUBSET OpNames]
    /\ MaxBatch \in Nat
    /\ MaxCalls \in Nat
    /\ MaxFaults \in Nat
    /\ MaxCrashes \in Nat

VARIABLES
    pending_files,        \* the files to be packed, in order
    pending_size,         \* sum of their compressed sizes, kept incrementally
    file_metadata_cache,  \* metadata of the known inodes
    mounted_volumes       \* ids of the mounted volumes

VARIABLES
    temp_files,           \* temp_<inode>.zst: compressed files not packed yet
    images,               \* volume_<id>.vimg
    output_files          \* file_<inode>_<name>: what ReadFile writes

VARIABLES
    pack_mutex,           \* the holder of pack_mutex_, or None
    state_mutex,          \* the holder of state_mutex_, or None
    pool,                 \* tasks in the thread pool that have not finished
    failed                \* futures <<thread, index>> that hold an error code

VARIABLES
    pc,                   \* where a thread is
    tasks,                \* locals of AddFile(s)ToCollect: the files of the call
    index,                \* the loop variable of the loop a thread is in
    trigger,              \* the argument of PackVolumeInternal
    volume_meta,          \* the local volume_meta of a pack or of a mount
    metadata,             \* ReadFile's copy of the fields it needs
    content               \* ReadFile's decompressed content

\* History: what the calls were asked for and what they answered.
VARIABLES
    source,               \* the path each inode id was issued for
    sealed,               \* the volumes whose pack succeeded
    accepted,             \* inodes whose add returned SUCCESS to a living process
    delivered,            \* the record a thread's last call read, if it was a good ReadFile
    calls, faults, crashes

memVars == <<pending_files, pending_size, file_metadata_cache, mounted_volumes>>
diskVars == <<temp_files, images, output_files>>
lockVars == <<pack_mutex, state_mutex>>
poolVars == <<pool, failed>>
addVars == <<tasks, trigger>>
packVars == <<volume_meta, index>>
readVars == <<metadata, content>>
answers == <<accepted, delivered>>
counters == <<calls, faults, crashes>>
vars == <<memVars, diskVars, lockVars, poolVars, pc, addVars, packVars, readVars,
          source, sealed, answers, counters>>

-----------------------------------------------------------------------------
\* FileMetadata: the fields the operations read after the file was added.
FileRecord == [inode_id : InodeIds, path : Paths,
               volume_id : VolumeIds \cup {None}, offset_in_volume : Nat]

\* VolumeMetadata, the header of an image; there is no directory area.
VolumeRecord == [volume_id : VolumeIds, file_count : Nat,
                 user_data_offset : Nat, user_data_size : Nat]

\* A byte range of the user data area that one AsyncWriteAt wrote.
Extent == [offset : Nat, size : Nat, content : Paths \cup {Torn}]

Image == [header : VolumeRecord \cup {Torn}, metas : Seq(FileRecord),
          data : SUBSET Extent]

\* A queued or running pool task.  owner is None once the call that holds the
\* future has returned: nobody will look at the result.
CompressTask == [kind : {"compress"}, owner : Threads \cup {None}, k : Nat,
                 inode_id : InodeIds, path : Paths]
WriteTask == [kind : {"write"}, owner : Threads \cup {None}, k : Nat,
              volume_id : VolumeIds, extent : Extent]

Triggers == {"Manual", "AutoThreshold", "AutoOverflow"}

\* None stands for an absent value of every kind.
ASSUME NoneAssumption ==
    /\ None \notin Triggers
    /\ None \notin FileRecord
    /\ None \notin VolumeRecord
    /\ None \notin Image

\* Torn in the place of a header is no header.
ASSUME TornAssumption == Torn \notin VolumeRecord

AddPcs == {"compress", "pool_compress", "check", "push"}
UnlockedPackPcs == {"lock_pack", "lock_state"}
LockedPackPcs == {"place", "header", "metas", "read_temps", "join_writes", "finish"}
MountReadPcs == {"mount", "read_image", "fill_output"}
Pcs == {"idle"} \cup AddPcs \cup UnlockedPackPcs \cup LockedPackPcs \cup MountReadPcs

-----------------------------------------------------------------------------
\* "failed" outcomes share one budget.
Fault == /\ faults < MaxFaults
         /\ faults' = faults + 1
NoFault == UNCHANGED faults

\* A call begins; every other begin is a loop of the caller's thread.
Begin(t, op) == /\ pc[t] = "idle"
                /\ op \in Ops[t]
                /\ calls < MaxCalls
                /\ calls' = calls + 1
                /\ delivered' = [delivered EXCEPT ![t] = None]

FileTask == [inode_id : InodeIds, path : Paths]

InodesOf(s) == {s[k].inode_id : k \in DOMAIN s}

Goto(t, label) == pc' = [pc EXCEPT ![t] = label]

\* A call of thread t returns code: its locals die, and the answer is
\* recorded for the inodes the call was adding.
Return(t, code) ==
    /\ Goto(t, "idle")
    /\ tasks' = [tasks EXCEPT ![t] = <<>>]
    /\ index' = [index EXCEPT ![t] = 1]
    /\ trigger' = [trigger EXCEPT ![t] = None]
    /\ volume_meta' = [volume_meta EXCEPT ![t] = None]
    /\ metadata' = [metadata EXCEPT ![t] = None]
    /\ content' = [content EXCEPT ![t] = None]
    /\ accepted' = IF code = "SUCCESS" THEN accepted \cup InodesOf(tasks[t])
                                       ELSE accepted

\* The futures of thread t go out of scope; their tasks run to the end.
DropFutures(t) ==
    /\ pool' = {IF task.owner = t THEN [task EXCEPT !.owner = None] ELSE task : task \in pool}
    /\ failed' = {f \in failed : f[1] # t}

\* The futures of t in order: get() of the first that failed returns once all
\* before it are done.
FutureFails(t) ==
    \E f \in failed : /\ f[1] = t
                      /\ \A task \in pool : task.owner = t => task.k > f[2]

\* Mutant: the error codes of the futures are not looked at.
FuturesDoneIgnoringErrors(t) == \A task \in pool : task.owner # t

\* Mutant: only failed futures are waited for.
FuturesDoneWithoutJoin(t) == \A f \in failed : f[1] # t

FuturesDone(t) ==
    /\ \A task \in pool : task.owner # t
    /\ \A f \in failed : f[1] # t

\* A pool task ends; its future, if someone still holds it, has an error.
TaskFails(task) ==
    /\ Fault
    /\ pool' = pool \ {task}
    /\ failed' = IF task.owner = None THEN failed
                                      ELSE failed \cup {<<task.owner, task.k>>}
=============================================================================
