-------------------------------- MODULE FileIO --------------------------------
(***************************************************************************)
(* async_file_io and the directory helpers of utils, at the grain of       *)
(* system calls: several threads read and write files of one directory,    *)
(* make it if it is missing, retry interrupted calls and go on after short *)
(* ones.                                                                   *)
(***************************************************************************)
EXTENDS Integers, SequencesExt, FiniteSetsExt

CONSTANTS
    Procs,        \* threads that do I/O
    Names,        \* names of files in the directory
    Depth,        \* components of the directory's path
    Hole,         \* a byte nobody wrote
    Absent        \* there is no such file

\* Bounds of the model.
CONSTANTS
    MaxErrors,    \* system calls that fail
    MaxShorts,    \* reads and writes that transfer less than asked for
    MaxStalls     \* EINTR, and writes that transfer nothing

ASSUME BoundsAssumption ==
    /\ Depth \in Nat \ {0}
    /\ MaxErrors \in Nat /\ MaxShorts \in Nat /\ MaxStalls \in Nat

VARIABLES
    directories,  \* how many components of the path exist
    disk,         \* the bytes of each file, or Absent
    io,           \* the function each thread is in
    errors, shorts, stalls

budgets == <<errors, shorts, stalls>>
ioVars == <<directories, disk, io, budgets>>

\* at: the next system call; level: the directory CreateDirectories is at; buffer: the
\* bytes to write or those read so far; total: bytes transferred; code: the result.
Idle(code) ==
    [at |-> "none", name |-> CHOOSE n \in Names : TRUE, level |-> 0, truncate |-> FALSE,
     offset |-> 0, buffer |-> <<>>, size |-> 0, total |-> 0, code |-> code]

WriteAts == {"exists", "mkdir", "open_write", "pwrite"}
ReadAts == {"open_at", "open_all", "fstat", "pread"}

Calls(Byte) ==
    [at : WriteAts \cup ReadAts \cup {"none"}, name : Names, level : 0..Depth,
     truncate : BOOLEAN, offset : Nat, buffer : Seq(Byte), size : Nat, total : Nat,
     code : {"none", "SUCCESS", "IO_ERROR", "FILE_NOT_FOUND"}]

Busy(p) == io[p].at # "none"

FileIOInit ==
    /\ directories \in 0..Depth
    /\ io = [p \in Procs |-> Idle("none")]
    /\ errors = 0 /\ shorts = 0 /\ stalls = 0

\* The functions, as what a thread enters.
AsyncWriteAll(n, bytes) ==
    [Idle("none") EXCEPT !.at = "exists", !.name = n, !.level = Depth, !.truncate = TRUE,
                         !.buffer = bytes, !.size = Len(bytes)]
AsyncWriteAt(n, offset, bytes) ==
    [AsyncWriteAll(n, bytes) EXCEPT !.truncate = FALSE, !.offset = offset]
AsyncReadAt(n, offset, size) ==
    [Idle("none") EXCEPT !.at = "open_at", !.name = n, !.offset = offset, !.size = size]
AsyncReadAll(n) ==
    [Idle("none") EXCEPT !.at = "open_all", !.name = n]

File(p) == disk[io[p].name]
Write(p, bytes) == disk' = [disk EXCEPT ![io[p].name] = bytes]

Goto(p, at, level) == io' = [io EXCEPT ![p].at = at, ![p].level = level]
Ends(p, code) == io' = [io EXCEPT ![p].at = "none", ![p].code = code]

Error == /\ errors < MaxErrors
         /\ errors' = errors + 1
         /\ UNCHANGED <<shorts, stalls>>

-----------------------------------------------------------------------------
\* CreateDirectories: up to the first component that exists, then down again.
Exists(p) ==
    /\ io[p].at = "exists"
    /\ \/ directories >= io[p].level
          /\ IF io[p].level = Depth THEN Goto(p, "open_write", 0)
                                    ELSE Goto(p, "mkdir", io[p].level + 1)
       \/ directories < io[p].level
          /\ IF io[p].level > 1 THEN Goto(p, "exists", io[p].level - 1)
                                ELSE Goto(p, "mkdir", 1)
    /\ UNCHANGED <<directories, disk, budgets>>

Made(p) == IF io[p].level = Depth THEN Goto(p, "open_write", 0)
                                  ELSE Goto(p, "mkdir", io[p].level + 1)

\* Mutant: a directory another thread made first is an error.
MkdirOnly(p) ==
    \/ directories < io[p].level /\ directories' = io[p].level /\ Made(p)
    \/ directories >= io[p].level /\ UNCHANGED directories /\ Ends(p, "IO_ERROR")

\* CreateDirectory: EEXIST is a success.
Mkdir(p) ==
    \/ directories < io[p].level /\ directories' = io[p].level /\ Made(p)
    \/ directories >= io[p].level /\ UNCHANGED directories /\ Made(p)

CreateDirectory(p) ==
    /\ io[p].at = "mkdir"
    /\ Mkdir(p)
    /\ UNCHANGED <<disk, budgets>>

OpenWrite(p) ==
    /\ io[p].at = "open_write"
    /\ Write(p, IF io[p].truncate \/ File(p) = Absent THEN <<>> ELSE File(p))
    /\ IF io[p].size = 0 THEN Ends(p, "SUCCESS") ELSE Goto(p, "pwrite", 0)
    /\ UNCHANGED <<directories, budgets>>

OpenRead(p) ==
    /\ io[p].at \in {"open_at", "open_all"}
    /\ IF File(p) = Absent THEN Ends(p, "FILE_NOT_FOUND")
       ELSE IF io[p].at = "open_all" THEN Goto(p, "fstat", 0)
       ELSE IF io[p].size = 0 THEN Ends(p, "SUCCESS")
       ELSE Goto(p, "pread", 0)
    /\ UNCHANGED <<directories, disk, budgets>>

\* AsyncReadAll reads as many bytes as the file has now.
Fstat(p) ==
    /\ io[p].at = "fstat"
    /\ IF File(p) = <<>> THEN Ends(p, "SUCCESS")
       ELSE io' = [io EXCEPT ![p].at = "pread", ![p].size = Len(File(p))]
    /\ UNCHANGED <<directories, disk, budgets>>

-----------------------------------------------------------------------------
\* bytes written at pos into old, the gap before them filled with holes.
Overwritten(old, pos, bytes) ==
    [k \in 1..Max({Len(old), pos + Len(bytes)}) |->
        IF k > pos /\ k <= pos + Len(bytes) THEN bytes[k - pos]
        ELSE IF k <= Len(old) THEN old[k]
        ELSE Hole]

\* A call transfers n bytes of those that are left; fewer than available is a short call.
Transfers(n, available) ==
    /\ n \in 1..available
    /\ \/ n = available /\ UNCHANGED budgets
       \/ n < available /\ shorts < MaxShorts /\ shorts' = shorts + 1
          /\ UNCHANGED <<errors, stalls>>

\* Mutant: whatever a call transferred was all.
DoneAtOnce(p, total) == TRUE

Done(p, total) == total = io[p].size

\* Mutant: total is not added up.
AdvancedNot(p, n) == io[p].total

\* Mutant: off by one.
AdvancedPast(p, n) == io[p].total + n + 1

Advanced(p, n) == io[p].total + n

\* Mutant: every read starts at the offset again.
ReadPosAgain(p) == io[p].offset

ReadPos(p) == io[p].offset + io[p].total

Progress(p, n, buffer) ==
    LET total == Advanced(p, n)
        ends == Done(p, total)
    IN io' = [io EXCEPT ![p].total = total, ![p].buffer = buffer,
                        ![p].at = IF ends THEN "none" ELSE @,
                        ![p].code = IF ends THEN "SUCCESS" ELSE @]

\* One round of WriteExact.
Pwrite(p) ==
    /\ io[p].at = "pwrite"
    /\ \E n \in 1..io[p].size :
          /\ Transfers(n, io[p].size - io[p].total)
          /\ Write(p, Overwritten(File(p), io[p].offset + io[p].total,
                                SubSeq(io[p].buffer, io[p].total + 1, io[p].total + n)))
          /\ Progress(p, n, io[p].buffer)
    /\ UNCHANGED directories

\* One round of ReadExact; the kernel gives what the file has.
Pread(p) ==
    /\ io[p].at = "pread"
    /\ LET pos == ReadPos(p)
           left == Min({io[p].size - io[p].total, Len(File(p)) - pos})
       IN \E n \in 1..io[p].size :
             /\ Transfers(n, left)
             /\ Progress(p, n, SubSeq(io[p].buffer, 1, io[p].total)
                                  \o SubSeq(File(p), pos + 1, pos + n))
    /\ UNCHANGED <<directories, disk>>

\* pread returns 0.
EndOfFile(p) ==
    /\ io[p].at = "pread"
    /\ ReadPos(p) >= Len(File(p))
    /\ Ends(p, "IO_ERROR")
    /\ UNCHANGED <<directories, disk, budgets>>

\* EINTR, or pwrite returns 0: the loop goes round again.
Stall(p) ==
    /\ io[p].at \in {"pread", "pwrite"}
    /\ stalls < MaxStalls
    /\ stalls' = stalls + 1
    /\ UNCHANGED <<directories, disk, io, errors, shorts>>

\* A system call fails.
CallFails(p) ==
    /\ io[p].at \in {"mkdir", "open_write", "open_at", "open_all", "fstat", "pread", "pwrite"}
    /\ Error
    /\ Ends(p, IF io[p].at \in {"open_at", "open_all"} THEN "FILE_NOT_FOUND" ELSE "IO_ERROR")
    /\ UNCHANGED <<directories, disk>>

FileIOStep(p) ==
    \/ Exists(p) \/ CreateDirectory(p)
    \/ OpenWrite(p) \/ OpenRead(p) \/ Fstat(p)
    \/ Pwrite(p) \/ Pread(p) \/ EndOfFile(p)
    \/ Stall(p) \/ CallFails(p)
=============================================================================
