------------------------------ MODULE ImageFile ------------------------------
(***************************************************************************)
(* The life of one image, byte by byte: pool tasks compress the files of a *)
(* batch into temp files, a pack writes header and records, has pool tasks *)
(* read the temp files and then write the user data, and deletes the temp  *)
(* files; meanwhile another thread mounts the image, finished or not, and  *)
(* reads its files.  An image of version 1 was left by an older program.   *)
(*                                                                         *)
(* Locks and ids are those of VolumeManager, where one file operation is   *)
(* one step; here it is as many system calls as it takes.  A process that  *)
(* dies is one that takes no further step.                                 *)
(***************************************************************************)
EXTENDS ImageFormat, FileIO

CONSTANTS
    PendingLists,  \* lists of files to pack
    Image,         \* the name of the image; a temp file is named by its file
    Packer,        \* the thread that packs
    Reader         \* the thread that mounts and reads

\* A pool task is named by the file it is about.
ASSUME ProcsAssumption ==
    /\ Procs = Files \cup {Packer, Reader}
    /\ Packer \notin Files /\ Reader \notin Files /\ Packer # Reader
ASSUME NamesAssumption == Names = Files \cup {Image} /\ Image \notin Files

\* Pending files have ids of their own.
ASSUME ListsAssumption ==
    \A l \in PendingLists : l \in Seq(Files) /\ IsInjective(l)

\* A byte nobody wrote belongs to no field, and no bytes are not a file.
ASSUME BytesAssumption == Hole = <<"hole", NoFile, 0>> /\ Absent \notin Seq(Cells)

VARIABLES
    files,         \* pending_files_
    version,       \* of the image
    pack,          \* where the batch and the pack are
    written,       \* records written so far
    mount,         \* where MountVolume is
    pos,           \* the position of its stream
    cached,        \* the files whose records it has cached
    reading,       \* the file that ReadFile looks for, or NoFile
    settled        \* whether the image was finished when it began

packVars == <<files, version, pack, written>>
mountVars == <<mount, pos, cached>>
readVars == <<reading, settled>>
vars == <<ioVars, packVars, mountVars, readVars>>

InFiles(p) == \E k \in DOMAIN files : files[k] = p
Place(f) == OffsetInVolume(files, version, CHOOSE k \in DOMAIN files : files[k] = f)

Init ==
    /\ FileIOInit
    /\ files \in PendingLists
    /\ \/ /\ version = CURRENT_VERSION
          /\ pack = "start"
          /\ disk = [n \in Names |-> Absent]
       \/ /\ version = 1
          /\ pack = "none"
          /\ directories = Depth
          /\ disk = [n \in Names |-> IF n = Image THEN ReferenceImage(files, 1) ELSE Absent]
    /\ written = 0
    /\ mount = "idle" /\ pos = 0 /\ cached = <<>>
    /\ reading = NoFile /\ settled = FALSE

-----------------------------------------------------------------------------
\* All pool tasks of a round are in the pool; Work(f) is what the task of f does.
Spawn(Work(_)) == io' = [p \in Procs |-> IF InFiles(p) THEN Work(p) ELSE io[p]]

\* The futures of a round, in order.
AllSucceeded == \A k \in DOMAIN files : ~Busy(files[k]) /\ io[files[k]].code = "SUCCESS"
FirstFails ==
    \E k \in DOMAIN files :
       /\ ~Busy(files[k]) /\ io[files[k]].code # "SUCCESS"
       /\ \A j \in 1..(k - 1) : ~Busy(files[j])

Stage(label) == pack' = label /\ UNCHANGED <<files, version>>

\* CompressDataZstd made the data of a file, which nothing else looks into.
CompressFiles ==
    /\ pack = "start"
    /\ Spawn(LAMBDA f : AsyncWriteAll(f, EncodeData(f)))
    /\ Stage("compress")
    /\ UNCHANGED <<directories, disk, budgets, written>>

WriteHeader ==
    /\ pack = "compress"
    /\ AllSucceeded
    /\ io' = [io EXCEPT ![Packer] = AsyncWriteAll(Image, EncodeHeader)]
    /\ Stage("metas")
    /\ UNCHANGED <<directories, disk, budgets, written>>

PackerReady == ~Busy(Packer) /\ io[Packer].code = "SUCCESS"

\* metadata_write_offset: 64 bits wide.
WriteMeta ==
    /\ pack = "metas"
    /\ PackerReady
    /\ written < Len(files)
    /\ io' = [io EXCEPT ![Packer] =
                 AsyncWriteAt(Image,
                              HeaderLen + Len(Records(SubSeq(files, 1, written), version)),
                              SerializeFileMetadata(files[written + 1], version))]
    /\ written' = written + 1
    /\ Stage("metas")
    /\ UNCHANGED <<directories, disk, budgets>>

ReadTemps ==
    /\ pack = "metas"
    /\ PackerReady
    /\ written = Len(files)
    /\ Spawn(AsyncReadAll)
    /\ Stage("read_temps")
    /\ UNCHANGED <<directories, disk, budgets, written>>

\* What was read from the temp files goes to the places of the files.
WriteData ==
    /\ pack = "read_temps"
    /\ AllSucceeded
    /\ Spawn(LAMBDA f : AsyncWriteAt(Image, Place(f), io[f].buffer))
    /\ Stage("write_data")
    /\ UNCHANGED <<directories, disk, budgets, written>>

FinishPack ==
    /\ pack = "write_data"
    /\ AllSucceeded
    /\ disk' = [n \in Names |-> IF InFiles(n) THEN Absent ELSE disk[n]]
    /\ Stage("SUCCESS")
    /\ UNCHANGED <<directories, io, budgets, written>>

\* The first error is returned; other tasks of the round go on.
PackFails ==
    /\ \/ pack \in {"compress", "read_temps", "write_data"} /\ FirstFails
       \/ pack = "metas" /\ ~Busy(Packer) /\ io[Packer].code # "SUCCESS"
    /\ Stage("ERROR")
    /\ UNCHANGED <<ioVars, written>>

PackStep ==
    /\ \/ CompressFiles \/ WriteHeader \/ WriteMeta
       \/ ReadTemps \/ WriteData \/ FinishPack \/ PackFails
    /\ UNCHANGED <<mountVars, readVars>>

-----------------------------------------------------------------------------
CallMount ==
    /\ mount = "idle"
    /\ disk[Image] # Absent
    /\ mount' = "header"
    /\ UNCHANGED <<pos, cached>>

\* "garbled" stands for whatever comes of bytes that are not what they are taken for.
MountHeader ==
    /\ mount = "header"
    /\ LET code == ParseHeader(disk[Image])
           meta == VolumeMetadata(files, version)
       IN \/ /\ code = "header"
             /\ ValidateVolumeMetadata(meta)
             /\ mount' = "records"
             /\ pos' = meta.metadata_offset
          \/ /\ code = "short" \/ (code = "header" /\ ~ValidateVolumeMetadata(meta))
             /\ mount' = "ERROR"
             /\ UNCHANGED pos
          \/ /\ code = "garbled"
             /\ mount' = "garbled"
             /\ UNCHANGED pos
    /\ UNCHANGED cached

\* One iteration; the stream has the record in its buffer.
MountRecord ==
    /\ mount = "records"
    /\ Len(cached) < VolumeMetadata(files, version).file_count
    /\ LET record == ParseRecord(disk[Image], pos, version)
       IN \/ /\ record.code = "record"
             /\ cached' = Append(cached, record.file)
             /\ pos' = record.end
             /\ UNCHANGED mount
          \/ /\ record.code # "record"
             /\ mount' = IF record.code = "short" THEN "ERROR" ELSE "garbled"
             /\ UNCHANGED <<pos, cached>>

FinishMount ==
    /\ mount = "records"
    /\ Len(cached) = VolumeMetadata(files, version).file_count
    /\ mount' = "SUCCESS"
    /\ UNCHANGED <<pos, cached>>

MountStep ==
    /\ CallMount \/ MountHeader \/ MountRecord \/ FinishMount
    /\ UNCHANGED <<ioVars, packVars, readVars>>

\* The volume is mounted, by the pack or by the mount, and the file is in the cache.
Readable(f) == \/ pack = "SUCCESS" /\ InFiles(f)
               \/ mount = "SUCCESS" /\ \E k \in DOMAIN cached : cached[k] = f

\* ReadFile up to the decompression.
CallRead ==
    /\ reading = NoFile
    /\ \E f \in Files :
          /\ Readable(f)
          /\ reading' = f
          /\ io' = [io EXCEPT ![Reader] = AsyncReadAt(Image, Place(f), DataLen[f])]
    /\ settled' = (pack \in {"SUCCESS", "none"})
    /\ UNCHANGED <<directories, disk, budgets, packVars, mountVars>>

IoStep(p) == FileIOStep(p) /\ UNCHANGED <<packVars, mountVars, readVars>>

\* Nobody need mount or read.
Rest ==
    /\ \A p \in Procs : ~Busy(p)
    /\ pack \in {"none", "SUCCESS", "ERROR"}
    /\ UNCHANGED vars

Next ==
    \/ PackStep \/ MountStep \/ CallRead
    \/ \E p \in Procs : IoStep(p)
    \/ Rest

Spec == Init /\ [][Next]_vars

\* Threads inside a function keep running.
FairSpec == /\ Spec
            /\ WF_vars(PackStep)
            /\ \A p \in Procs : WF_vars(IoStep(p))

-----------------------------------------------------------------------------
\* Every variable has its type; no function transfers more than it was asked to.
TypeOK ==
    /\ directories \in 0..Depth
    /\ disk \in [Names -> Seq(Cells) \cup {Absent}]
    /\ io \in [Procs -> Calls(Cells)]
    /\ \A p \in Procs : io[p].total <= io[p].size
    /\ errors \in 0..MaxErrors /\ shorts \in 0..MaxShorts /\ stalls \in 0..MaxStalls
    /\ files \in PendingLists /\ version \in 1..CURRENT_VERSION
    /\ pack \in {"start", "compress", "metas", "read_temps", "write_data",
                  "SUCCESS", "ERROR", "none"}
    /\ written \in 0..Len(files)
    /\ mount \in {"idle", "header", "records", "SUCCESS", "ERROR", "garbled"}
    /\ pos \in Nat /\ cached \in Seq(Files)
    /\ reading \in Files \cup {NoFile} /\ settled \in BOOLEAN

\* Whenever MountVolume looks at an image, half written or left by a failed pack, of
\* this version or the last, it caches records that were packed, in their order, and
\* it succeeds only with all of them.
MountExact ==
    /\ mount # "garbled"
    /\ IsPrefix(cached, files)
    /\ mount = "SUCCESS" => cached = files

\* A pack that returns SUCCESS has made the image it was to make, byte for byte,
\* through short writes, interrupted calls and other threads' writes.
WrittenThrough ==
    pack = "SUCCESS" => disk[Image] = ReferenceImage(files, CURRENT_VERSION)

\* A read of a file that returns SUCCESS has the bytes of that file; in an image that was
\* not finished some of them may be missing, but never those of another file or of a record.
ReadOwnBytes ==
    (reading # NoFile /\ io[Reader].code = "SUCCESS") =>
       /\ Len(io[Reader].buffer) = DataLen[reading]
       /\ \A k \in 1..DataLen[reading] :
             \/ io[Reader].buffer[k] = EncodeData(reading)[k]
             \/ ~settled /\ io[Reader].buffer[k] = Hole

\* A batch or a pack fails only if a system call did: not because two threads make one
\* directory, a call is interrupted or short, or a file is empty.
NoSpuriousFailure == pack = "ERROR" => errors > 0

\* Every file operation returns.
IoReturns == \A p \in Procs : Busy(p) ~> ~Busy(p)
=============================================================================
