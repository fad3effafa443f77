# TLA+ verification of VolumeManager

VolumeManager collects files, compresses them with zstd, packs the pending ones into
volume images (`.vimg`), and mounts, unmounts and reads such images. One object may be
used by several threads; the heavy work runs in its thread pool. This directory holds a
TLA+ model of it, TLC configurations that check the model on small instances, and proofs
of its invariants, of its thread pool, of the bytes of its images and of the refinement of the
abstract store for all instances. `src/` below is the repository.

## 1. Inventory

| Component | State | Operations | Interacts with |
|---|---|---|---|
| Packing: `PackVolumeInternal`, reached through `PackVolume`, `FlushPendingFiles` and the two adds | `pending_files_`, `pending_size_`, `pack_mutex_` | plan, place, write header and records, read temp files, write data, delete temps, mount, clear | takes `pack_mutex_` then `state_mutex_` for its whole length; pool tasks for reads and writes; cache and mounted set; reporter |
| Collecting: `AddFileToCollect`, `AddFilesToCollect` | pending list, cache, temp files | draw ids, compress, check room, maybe pack, append, maybe pack | `state_mutex_` in three separate sections; pool tasks (batch only); packing |
| Mounting: `MountVolume`, `UnmountVolume` | `mounted_volumes_`, `file_metadata_cache_` | validate, cache records one by one, insert; erase | `state_mutex_` per record; the search for the id takes no lock |
| Reading: `ReadFile` | output files | look up, read, decompress, write | `state_mutex_` for the lookup only; I/O outside it |
| Listing: `ReadAllInodesAndDirectories` | a text file | format the cache | `state_mutex_` |
| Thread pool | task queue, stop flag, workers | `Enqueue`, worker loop, destructor | futures held by packs and batches |
| File I/O | files, directories | read/write all, read/write at an offset, delete; writes make missing directories | called by callers and workers |
| Serializer | none | (de)serialize headers and records, validate | pack and mount |
| Compression | none | zstd, legacy zlib coder | adds, pool, reads |
| Utilities, error codes, reporter interface | a static random generator | ids, paths, stat; messages; `OnPackFinished` | all |

What is hard in this code, and what makes each part correct:

* **Concurrency.** An add releases `state_mutex_` between its room check, the pack it asks
  for and its append. A pack enqueues writes and joins them under both mutexes, but leaves at
  the first error while later writes still run. A mount takes the lock once per record, a
  read copies metadata and then works without a lock.
  *Correct if* no added file is lost or stored wrongly, a pack is all or nothing, the byte
  ranges of an image do not overlap, and a good read delivers what was added.
* **Failure.** Any file operation may fail, a failed write may leave a torn file or range,
  and every operation has many early returns. *Correct if* the pending files stay staged for
  the next pack, sizes stay exact, and mutexes are released.
* **Crash.** The process may die between any two steps; temp files and images stay.
  *Correct if* a stored file stays stored and reads from volumes whose pack succeeded stay right.
  A partial image can be mounted, and a read of a frame that was not written to its end may return
  other bytes with SUCCESS, since frames carry no checksum (`torn_frame`).
* **Waiting.** Calls wait for mutexes and futures, workers for tasks, the destructor for
  workers. *Correct if* every call returns, no wakeup is lost, every task runs once and the
  pool closes after its last task.
* **Bytes.** System calls transfer less than asked for or are interrupted, several threads
  write one image and make one directory, another mounts the image meanwhile; offsets have
  32 bits. *Correct if* an image is exactly what its records say, and a mount of any prefix
  of its writes caches only what was packed.

`PROJECT.json` lists each hazard at its source line with the properties that watch it.

## 2. Modules

| Module | Models | Built on |
|---|---|---|
| `VolumeState` | constants, variables, records, calls and returns, futures | — |
| `CollectFiles` | `AddFileToCollect`, `AddFilesToCollect`, their pool tasks, `ShouldPackVolume` | `VolumeState` |
| `PackVolume` | `PackVolumeInternal` and its pool tasks | `VolumeState` |
| `MountRead` | `MountVolume`, `UnmountVolume`, `ReadFile` | `VolumeState` |
| `VolumeManager` | all of them from several threads, workers, crashes; the properties | the three above |
| `VolumeStore` | abstract: what callers are promised | — |
| `StoreRefinement` | the mapping from `VolumeManager` to `VolumeStore` | `VolumeManager` |
| `TaskPool` | abstract: the pool of unordered tasks that `VolumeState` assumes | — |
| `ThreadPool` | queue, mutex, condition variable, workers, futures, destructor; the mapping to `TaskPool` | — |
| `ImageFormat` | bytes of an image: serializer, layout of a pack, parsing and validation of a mount | — |
| `FileIO` | `async_file_io` and `CreateDirectories` at the grain of system calls | — |
| `ImageFile` | one image written by a pack and its tasks, mounted and read meanwhile | `ImageFormat`, `FileIO` |
| `MCVolumeManager`, `MCThreadPool`, `MCImageFile` | instances for TLC | |
| `VolumeManagerProofs` | theorems: types, locks, locals, images on disk | `VolumeManager` |
| `StagingProofs` | theorems: who owns an inode id and its temp file | `VolumeManagerProofs` |
| `ImageProofs` | theorems: the layout of images and the writes into them | `StagingProofs` |
| `ContentProofs` | theorems: cache, packs, what stays stored | `ImageProofs` |
| `StoreProofs` | theorems: reads; `VolumeManager` implements `VolumeStore` | `ContentProofs`, `StoreRefinement` |
| `SizeProofs` | theorems: the running size and the limits | `StagingProofs` |
| `ThreadPoolProofs` | theorems about the pool | `ThreadPool` |
| `ImageFileProofs` | theorems about the bytes of an image: written, mounted, read | `ImageFile` |

The system is described at three grains. `VolumeManager` has every operation, lock and
failure, with a file operation as one step and the pool as a set. `ThreadPool` opens the
pool; `ImageFile` opens the file operations and the image. Each says for the grain above
what may be taken as one step there.

### State

The first variables are the members of `VolumeManager` under their names. `temp_files`,
`images` and `output_files` are the three kinds of files in `temp_dir_`. The mutexes are
their holders. `pool` is the set of tasks that have not finished, `failed` the futures that
hold an error; the tasks of a call that returned early lose their owner and still run. `pc`
says where each thread is; `tasks`, `index`, `trigger`, `volume_meta`, `metadata` and
`content` are the locals of its call. The remaining variables are history: what each inode id
was issued for, which volumes' packs succeeded (`sealed`), which adds were answered with what,
what the last good read of a thread was.

### Steps

A step is what happens between two points at which other threads, workers or a crash may
interfere: taking a mutex, one file operation, one iteration of a loop with file operations or
with the lock, one `get()`. A section under `state_mutex_` without file operations is one step.
Two kinds of steps are larger than that, and safely so: the pool's reads of the temp files are
joined before anything depends on them and read files that only their own pack deletes; and in
`CompressFile` the read, the compression and the write of the temp file are one step because
nobody else uses the file of an inode id that is not pending yet.

`Frames` is the content of the whole frame at a file's offset, if there is one. `Decompressed`
is what a read may get: a whole frame gives its content; of a frame that is there in part
(`FrameTorn`: its write failed part way or still runs in the pool, and bytes behind it keep
`pread` from meeting the end of the file) `ZSTD_decompress` may report an error or make other
bytes, which the model calls `Torn`; where nothing of the frame was written, zeros or the end of
the file are refused. `ValidateVolumeMetadata` keeps the only test that a header written by this
code can fail. `GenerateInodeId` and `GenerateVolumeId` draw from the ids that pass the check
the code makes (not cached, not mounted); with `FreshIds` they also never repeat. The ids
combine a clock with 32 random bits, so all runs set `FreshIds`; section 4 says which theorems
need it.

A search of `mounted_volumes_` without the lock (volume_manager.cpp:592) is a data race with
the two inserts; it may miss a volume that is in the map (`InsertingVolume`). `VolumeIds`
that name an image of a pack in progress are not given to `MountVolume`: callers learn a path
when the pack returns. Partial images of failed packs and of crashed processes can be mounted.

### The pool

In `ThreadPool` a critical section of `queue_mutex_` is one step, `notify_one` and
`notify_all` are steps of their own because they come after the unlock, and a caller stands
for one round of `Enqueue` and `get` of an operation: the compressions of a batch, the reads
or the writes of a pack. A worker may wake for no reason. `Stop` is the destructor of the
manager after its last call returned: `thread_pool_` is the last member and goes first. The
`throw` of `Enqueue` on a stopped pool is therefore out of reach.

`ImplementsTaskPool` maps it to `TaskPool`, where a call submits all its tasks at once, tasks
end in any order, and a call returns after all of them or at the first error with later
tasks still running. A task counts as submitted from the `Call` on and until its future is
set. That is the pool `VolumeState` has in `pool` and `failed`, and the fairness of
`TaskPool!FairSpec` is the one `VolumeManager` assumes of workers: both are consequences of
`ThreadPool` here and not assumptions.

### The bytes

A byte of `ImageFormat` is a triple: which field, of which file, which byte of the field. An
image can be compared with the one it should be, byte by byte, and a field that is not where a
reader looks for it is seen. Lengths are constants, small in the runs: 2 for the header (56),
2 for the fixed part (51; one less in version 1), 1 for the length of a string (4). 32-bit
fields are numbers modulo `Word`.

`FileIO` has one step per system call: `stat` and `mkdir` of each directory level, `open`
with or without truncation, `fstat`, each round of `pread` and `pwrite`, which transfers any
number of bytes up to what is left, fails, is interrupted or, for writes, transfers nothing.
`ImageFile` runs a batch and a pack over it and lets another thread mount and read at any
moment. A mount parses from a stream whose reads are buffered, so a record is read in one step.
`"garbled"` is the outcome of a mount that takes bytes for what they are not; `MountExact`
says it does not happen. An image of version 1 is there from the start in one kind of
initial state, since no code writes one.

### The store

`VolumeStore` has what a caller can see: which content an inode was issued for, what was
collected, what was answered with success, what each volume keeps, which volumes' packs
succeeded (`whole`), what is mounted, what the last good read gave and from which volume. A read
from a whole volume gives the content of the inode (`Read`), one from any other volume that or
damaged content (`ReadDamaged`). `StoreRefinement` reads it off `VolumeManager`: a volume keeps
an inode when its image has a whole header, all its records and a record that leads to the right
content. Packing, with its header, records, pool reads, pool writes, deletions, failures and
left-over tasks, is `Write` steps that only ever let a volume keep more, and one `Seal`.

### Abstractions

A path is a source file with fixed content, name and compressed size. Header length, record
length and volume size are small numbers; in `VolumeManager` they have no width, widths are
in `ImageFormat`. The early returns that change nothing are guards. A crash loses no completed
write; one within a write is a write that failed part way and then a crash.

## 3. Runs

| Run | Expect | Question | Bounds |
|---|---|---|---|
| `add_pack` | pass | Are files lost, sizes wrong, ranges overlapping, packs partial, when one thread adds batches and flushes and another adds files, one of them too large for any volume? | 2 threads, 3 inodes, 4 volumes, 4 calls, 1 fault |
| `all_ops` | pass | Does the system implement the abstract store with all operations, do reads from volumes whose pack succeeded deliver what was added, does the cache agree with the images, do the parts of the proofs' invariant hold? | 2 threads that both read, 2 inodes, 3 volumes, 6 calls, 1 fault, 1 crash; a volume of 8 and threshold 1/2 |
| `sequential` | pass | Do the promises that concurrent callers break hold for one caller, and is a pack never overdue? | 1 thread, 3 inodes, 6 calls, threshold 3/4 |
| `returns` | pass | Does every call return? | 2 threads, all operations, 4 calls, 1 fault |
| `thread_pool` | pass | Does every task run once, is no wakeup lost, does the pool close, is it the pool the other modules assume? | 2 workers, 2 callers, 3 tasks each |
| `image_file` | pass | Are images written, mounted and read exactly, whatever system calls do? | 2 or 3 files, one empty; path of 2 levels; 1 error, 2 short transfers, 1 interrupted or empty one |
| `overfill`, `empty_pack`, `half_mounted` | violation | Three promises that two callers break | 2 threads, no faults |
| `torn_frame` | violation | What does a read of the image of a failed pack return? | 1 thread, 2 inodes, 3 calls, 1 fault |
| `too_large_to_mount` | violation | Can every packed volume be mounted again? | 1 thread, no faults |
| `offset_wrap` | violation | What happens beyond the 32-bit offsets? | `Word` 20 for a volume of 30, no faults |

Two threads suffice for the races of this code: each is between one call and one other that
changes the list, the cache or the mounted set; the pool adds its own interleavings. Two
files reach every boundary of the sizes in use: with `VolumeSize = 4` two small files (2)
fill a volume exactly, a small and a large one (3) overflow it or reach the threshold 3/4
exactly, `whole` (4) reaches it at once and `huge` (9) never fits. `VolumeSize = 8` with a
threshold of 1/2 leaves room for two files in an image that a mount still accepts: `all_ops`
reads two inodes of one volume at once and torn frames with bytes behind them, and in
`empty_pack` both adds reach the threshold without an overflow. Four to six calls are enough
to add, pack, unmount, mount and read again, or to add twice, fail a pack and pack again; one
fault anywhere reaches every error return. Ids are symmetric. The liveness run uses no symmetry.
`HeaderLen` is 1 in `all_ops`, `returns` and `sequential`, so that images pass the size check of
a mount, and in `too_large_to_mount`, where one small file passes it and two, which fill the
volume to the limit, do not. `returns` and `add_pack` need no mountable images of two files and
keep `VolumeSize = 4`.

In `thread_pool` a caller has more tasks than there are workers, so that tasks queue up while
workers sleep and wake, and a call that fails at its first future leaves tasks queued
when the pool is stopped. In `image_file` lists of two and three files with an empty
one first, last and not at all, names and data of different lengths and two short transfers reach
every boundary of the layout; a second short transfer may follow in the same call or in that
of another thread. Each budget is of the whole behaviour.

What the violations show is under `findings` in `PROJECT.json`:
`PendingFits` (room check and append are separate), `PackHasWork` (two adds that both reached
the threshold pack; the second finds nothing and returns `INVALID_PARAMETER` although the first
has packed its file),
`PackedRemountable` (header and metadata are not counted against the limit),
`MountedCached` (unlocked double mount),
`DeliveredRight` (a torn frame of a failed pack's image read with SUCCESS), `WrittenThrough`
under `offset_wrap` (the second file over the header and the start of the records, with SUCCESS).
`sequential` checks `PendingFits`, `PackHasWork` and `MountedCached` where the code keeps
them, as `image_file` does with `WrittenThrough` and `all_ops` with reads from volumes whose pack
succeeded (`DeliveredIntact`), so that two runs together show which condition breaks the promise.

In all runs `SeparateReads` is set: both threads of `all_ops` read, but no thread reads an inode
that another reads or whose output file another was given by its last call. The output path
of a read depends on the inode only, so a second reader of the same inode truncates the file the
first was given; nothing in the code prevents it.

### Fairness

`returns` assumes weak fairness of each thread inside a call and of the workers: the
scheduler runs every runnable thread, and a worker thread takes queued tasks. Nothing is
assumed of callers or crashes. Weak fairness suffices for the mutexes, although
`std::mutex` is not fair, because the number of calls is bounded: a waiting thread cannot be
overtaken for ever. That workers keep taking tasks is `ImplementsTaskPool`; that file
operations return is `IoReturns`.

`thread_pool` assumes weak fairness of each caller inside a call, of each worker and of the
owner once it destroys the pool. A `get` whose future is not set, a worker that sleeps and a
`join` of a running worker are not enabled: nobody is assumed to be woken. `image_file`
assumes weak fairness of the pack and of each thread inside a file operation. Interrupted
calls and writes of no bytes are bounded by `MaxStalls`; with no bound on them
the loops of `ReadExact` and `WriteExact` need not end.

`CHECK_DEADLOCK` is on in every run; `Stop` and `Rest` allow stuttering only when no thread is
inside a call and no task is left, so a deadlock of the program is a deadlock of the model.

### Mutants

Each property of a passing run has a mutant in `PROJECT.json`: a definition marked `Mutant`
that changes one mapped definition as a plausible bug would, and makes TLC report the
property.

## 4. Proofs

A theorem holds for any number of threads, paths and ids, any sizes, batch size and budgets of
calls, faults and crashes, under the hypotheses it states. Those of `VolumeManager`:

| Theorem | States | Hypotheses |
|---|---|---|
| `TypeCorrect`, `LocksOwned`, `StepsReady`, `ImagesOnDisk` | `TypeOK`, `LockOwnership`, `LocalsReady`, `ImagesPresent` | — |
| `SizeCorrect` | `SizeAccounted` | — |
| `PendingFilesStaged` | `PendingStaged` | `FreshIds` |
| `ExtentsApart` | `ExtentsDisjoint` | `FreshIds` |
| `CacheOnDisk`, `AcceptedNotLost` | `CachedOnDisk`, `AcceptedKept` | `FreshIds` |
| `StoredKept`, `PacksAtomic` | `StoredForever`, `PackAtomic` | `FreshIds` |
| `ReadsIntact` | `DeliveredIntact` | `FreshIds`, `SeparateReads` |
| `RefinesStore` | `ImplementsStore` | `FreshIds`, `SeparateReads` |
| `PendingWithinVolume`, `LimitsFindFiles` | `PendingFits`, `PackHasWork` | `SingleCaller`, `NoBatch` |
| `MountedReadable` | `MountedCached` | `FreshIds`, `SingleCaller`, `MaxFaults = 0` |
| `PacksOnTime` | `NoPackOverdue` | `FreshIds`, `FilesFit`, `MaxFaults = 0` |

The hypotheses are where the code gives no more:

* `FreshIds`: ids are a clock and 32 random bits, checked only against the cache and the mounted
  set, which forget at an unmount or a restart. A repeated inode id overwrites a temp file, a
  repeated volume id an image; only the generator keeps them apart.
* `SeparateReads`: any number of threads read, but no two use one inode: the output path depends
  on the inode only. The repository's concurrent test reads each inode from one thread of its own
  (`src/test/e2e_test.cpp:614-663`).
* `SingleCaller`: `overfill`, `empty_pack` and `half_mounted` show each promise broken by two.
* `NoBatch`: a batch compares each file with the volume alone and asks for a pack at its end.
* `MaxFaults = 0`: after a pack that failed the list stays at the threshold until the next call,
  and a mount that failed half-way has taken its first inodes from another volume.
* `FilesFit` (every compressed file fits into a volume): an add of a file that does not fit
  returns before it packs, also when the batch before it has filled the list.

They rest on the assumptions of `VolumeState`: `None` differs from the values it is mixed with,
`Torn` from paths and headers, sizes are natural numbers. The proofs are in layers, each an
inductive invariant on top of the ones below.

**`Inv == TypeOK /\ LockOwnership /\ LocalsReady /\ ImagesPresent`** (`VolumeManagerProofs`).
No conjunct is inductive alone. `TypeOK` needs `LocalsReady`: `PlaceFile` indexes the
pending list with a local, and the element has a type only if the index is in range.
`LocalsReady` needs `LockOwnership`: the index stays in range only because the other threads
cannot change the list meanwhile (`PendingStable`). `LockOwnership` needs `LocalsReady`:
in the append loop the mutex is held from the second iteration on, so the loop variable must be
1 when the loop is entered. `LocalsReady` also needs `ImagesPresent` when a mount or a read
starts, and `TypeOK` needs it when a worker writes into an image. There is one lemma per
conjunct that goes through the actions, and `NextInv` combines them.

**`Staging`** (`StagingProofs`) says who may touch a temp file. Every id in use was issued for a
source (`SourcesKnown`); a call in a phase has the files of that phase and a task belongs to a
call that waits for it (`CallPhases`); no id is in two
calls or twice in a list, and one that a call has not pushed yet is neither pending nor in an
image (`IdsOwned`); pending files, and the files of a call past its
compression, are in their temp files (`TempsStaged`). `PendingStaged` alone is not inductive: a
compression task or the deletions of another pack could hit the file.

**`Layout`** (`ImageProofs`) ties an image to its pack: the pending files up to the index are
placed one after the other (`PlannedAt`), header and records of the image are those of the
locked list (`ImagedAt`), an image has at most as many records as its header says, in order and
apart (`ImageSound`), and a write task, also one that outlived its call, writes the temp
file's bytes of a record of that image (`WriteSound`). So a late write cannot disturb another
file. `ImageGrows` is the action property: no step takes records or frames out of an image.

**`Contents`** (`ContentProofs`) is about what callers rely on: a mount copies records of the
image it has validated (`MountsSound`), a cached place is a record on disk (`CacheSound`), a
read has copied such a record and has its content or `Torn` (`ReadAt`), an accepted file is
pending or stored (`KeptSound`). `CacheOnDisk` is about agreement only: a record that a failed
mount or pack has cached stays cached, whether or not its volume is mounted. `CacheFull`, for
one caller without faults, adds that each inode is in one image and that pending, placed and
mounted files are cached.

**`Reading`, `PackFilled`** (`StoreProofs`) are what the refinement needs beyond these. A sealed
volume has every record its header promises and a whole frame for each (`SealedComplete`), so a
read from it cannot meet a torn one; `ContentProofs` alone leaves `Torn` possible. A pack seals
a volume that nobody reads or has read from (`PackUnread`), or a damaged read made before would
become one from a sealed volume. No two threads use an inode (`ReadersApart`), so what a good
read has delivered stays (`ReaderAt`, `DeliveredAt`). A pack under the locks has something to
pack. `RefinesStore` maps the begin of an add to `Issue`, the append to `Collect`, every step that writes into an image to `Write`, `FinishPack` to `Seal`, the end of a
read to `Read` or `ReadDamaged`, the end of a mount to `Mount`; all steps of a thread, of the
pool and a crash are either such a step or a stutter.

**`Summed`, `Room`, `Attended`** (`SizeProofs`). `pending_size` is compared with a fold, and no
induction rule can be used here; that a fold over a list one longer adds the last file is shown by a
least counterexample (`LeastPlace`), and `Summed` keeps the partial sums as a witness. `Room`
adds what the check before the append has established when the append runs. `Attended` says that
whenever the threshold is reached some thread is on its way to a pack: nobody is overlooked
between the separate critical sections of append, test and pack.

`ThreadPoolProofs` proves, for any number of workers, callers and tasks:

* `PoolTypeCorrect`: `Spec => []TypeOK`
* `TasksRunOnce`: `Spec => []EachTaskOnce`
* `MembersSafe`: `Spec => []MembersOutliveTasks`
* `NoLostWakeup`: `Spec => []NoneSleepsOnWork`
* `RefinesTaskPool`: `Spec => Pool!Spec`

They assume finite sets of workers and callers, at least one worker (the constructor
sees to it) and at least one task per call. The inductive invariant is

    Inv == TypeOK /\ Phases /\ EachTaskOnce

`Phases` ties the program counters to the rest: a caller that gets its futures has enqueued
all its tasks, a worker runs exactly when it has a task, a worker that left saw the pool
stopped and the queue empty, and a stopped pool has no caller inside a call. `EachTaskOnce`
is what makes `Phases` inductive for a caller (a future it got does not change again), and
`Phases` is what makes `EachTaskOnce` inductive (an enqueued task was not enqueued before).
`MembersOutliveTasks` follows: when all workers have left no task is queued or running.

`NoneSleepsOnWork` is inductive next to `Inv`, by counting: `Enqueue` adds a task and a
notification that is due; `NotifyOne` turns the notification into an awake worker or finds
nobody asleep; `Take` removes a task with its worker; `Wait` and `Leave` see an empty
queue. The steps that change a set by one element use `Counts`, from the cardinality
theorems of the library.

`RefinesTaskPool` maps `Call` to `Submit`, `RunTask` to `Finish`, the last `Get` to `Join`,
`GetFails` to `JoinFails` and `JoinWorkers` to `Close`; every other step stutters. The
fairness half of `ImplementsTaskPool` is model-checked.

`ImageFileProofs` proves, for any list of files, any lengths, any width of the fields, and any
number of errors, short transfers and interrupted calls:

| Theorem | States | Hypotheses |
|---|---|---|
| `ImageTypes`, `OnlyErrorsFail` | `TypeOK`, `NoSpuriousFailure` | — |
| `MountFindsRecords` | `MountExact` | `FieldsFit` |
| `PackWritesImage` | `WrittenThrough` | `FieldsFit` |
| `ReadsOwnBytes` | `ReadOwnBytes` | `FieldsFit` |

`FieldsFit` says that the number of files and the length of the image are below `Word`. The code
does not check it; `offset_wrap` is `WrittenThrough` broken without it, and `image_file` is an
instance that satisfies it. They assume what `ImageFile` does of its constants: no two files
of a list are the same, threads and tasks are different, `Absent` is not the content of a file
and `Hole` is not a byte of a field.

**`Inv`** needs no hypothesis. `Rounds` says for each stage of a pack which call the task of a
file is in or has ended (`CompressJob`, `ReadJob`, `PlaceJob`) and how far it is: a temp file of
a task in `pwrite` is exactly the first `total` bytes of its data, a task that reads has exactly
its first `total` bytes, and a call whose code is neither `"none"` nor `"SUCCESS"` has met an
error of a system call. `PackerAt` and `ReaderAt` say the same of the thread that packs and the
one that reads. `ImageAt` says when there is an image and that all cells in it are of files of
the list. `NoSpuriousFailure` is one of its parts and not inductive without the others: a temp
file must be whole when it is read, or `ReadExact` would meet its end and return `IO_ERROR`.
`StepEffect` and `StepCase` list once what a system call can do, and the lemmas about each kind
of call use them.

**`ImageInv`**, under `FieldsFit`, compares the image with `Reference`. `ImageRight`: each byte
is the one of `Reference` or, only behind the records, a gap. `HeadWritten`: until the records
are written the image ends where the current write has come to, which is why there is no gap
before the user data. `DataWritten`: of each task the first `total` bytes of its range are in
place; it survives the writes of the others because what they write is also right, and not
because the ranges are disjoint. `Finished`: the image of a pack that returned SUCCESS is
`Reference`. `MountAt`: the stream of a mount is at the end of the last record it cached, so the
next one is either found or not there yet. `ReadBytes`: the buffer of a read holds bytes of its
file, and gaps only if the image was not finished when the read began.

The layout is a concatenation of all records and all data (`FlattenSeq`, a recursive
function). `FlattenIsPieces` shows what it is for every list without an induction rule, by
a smallest place where the claim would fail; `ImageLaid` derives where each record and
each file lies, and `PlaceExact` that the 32-bit offset of a file is that place.

Only model-checked: `CallsReturn`, `Closes`, `IoReturns` and the fairness of `TaskPool`, which are
liveness and need `ENABLED`. Every invariant of a passing run has a theorem.

## 5. Plan

1. Shorter proofs: the five files of proofs about `VolumeManager` share frame conditions that
   could be stated once per action.
2. The legacy zlib coder of version 1 images as a module of its own, if it is kept.

## 6. Not modelled

* The reporter's `OnPackFinished`: client code, called under both mutexes at the end of a
  pack. The repository has no reporter that calls the manager.
* `SetBasePath` and `SetPackReporter`: unsynchronised assignments, for set-up.
* Argument checks that return before any change, the text of a listing, error messages.
* The legacy zlib coder, which only reads of version 1 images reach, and the helpers of
  `compression_utils` and `utils` that no operation calls.
* What zstd does inside a frame: which torn frames it refuses and what bytes it makes of the
  others. Both outcomes are in the model for every torn frame, with one value for other bytes.
* Bytes of a torn frame that happen to be the right ones: a read of it gives `Torn` or fails.
* Temp files nobody needs: that of a file a batch refuses, or whose batch fails, is never deleted,
  although the comment at `volume_manager.cpp:475` leaves it to the pack. The model has these files,
  no property is about them.
* Values inside the fixed part of a record and the header (one field each): both sides
  copy them by the same list, in the byte order of the machine.
* Several managers sharing one `temp_dir_`, and a machine that loses completed writes.
