------------------------------ MODULE SizeProofs ------------------------------
(***************************************************************************)
(* Part 6 of the theorems about VolumeManager: the running size of the     *)
(* pending files and the limits it is compared with.                       *)
(*                                                                         *)
(* The sum is a fold, a recursive function.  What it computes is shown     *)
(* without an induction rule: the places where a claim about it fails      *)
(* would have a least one (LeastPlace).                                    *)
(***************************************************************************)
EXTENDS StagingProofs, FiniteSetTheorems

\* Of the finite sets 1 .. m for m in a set of numbers one is smallest.
LEMMA LeastPlace ==
    ASSUME NEW T \in SUBSET Nat, T # {}
    PROVE  \E m \in T : \A l \in T : m <= l
  <1> DEFINE R == StrictSubsetOrdering(Nat)
             Segments == {1 .. m : m \in T}
  <1>1. IsWellFoundedOn(R, FiniteSubsetsOf(Nat))
    BY FS_StrictSubsetOrderingWellFounded
  <1>2. Segments \subseteq FiniteSubsetsOf(Nat)
    <2>1. ASSUME NEW m \in T
          PROVE  IsFiniteSet(1 .. m) /\ 1 .. m \subseteq Nat
      BY FS_Interval
    <2> QED BY <2>1 DEF FiniteSubsetsOf
  <1>3. Segments # {}
    OBVIOUS
  <1>4. \E x \in Segments : \A y \in Segments : ~(<<y, x>> \in R)
    <2> HIDE DEF R, Segments
    <2> QED BY <1>1, <1>2, <1>3, WFMin
  <1>5. PICK m \in T : \A l \in T : ~(<<1 .. l, 1 .. m>> \in R)
    BY <1>4
  <1>6. ASSUME NEW l \in T, l < m
        PROVE  FALSE
    <2>1. l \in Nat /\ m \in Nat
      OBVIOUS
    <2>2. m \in 1 .. m /\ m \notin 1 .. l
      BY <1>6, <2>1
    <2>3. 1 .. l \subseteq 1 .. m
      BY <1>6, <2>1
    <2>4. 1 .. l \in SUBSET Nat /\ 1 .. m \in SUBSET Nat /\ 1 .. l # 1 .. m
      BY <2>1, <2>2
    <2> QED BY <1>5, <2>3, <2>4 DEF StrictSubsetOrdering
  <1> QED BY <1>5, <1>6

\* The fold's recursive function: the sum over a set of places, the last one last.
Sums(g, s, n) ==
    g = [x \in SUBSET (1 .. n) |->
            IF x = {} THEN 0 ELSE g[x \ {Max(x)}] + CompressedSize[s[Max(x)].path]]

LEMMA FoldUnfolds ==
    ASSUME NEW s \in Seq(FileRecord)
    PROVE  FoldLeft(Add, 0, s) = (CHOOSE g : Sums(g, s, Len(s)))[1 .. Len(s)]
  <1>1. DOMAIN s = 1 .. Len(s)
    OBVIOUS
  <1>2. FoldLeft(Add, 0, s) =
          (CHOOSE g : g = [x \in SUBSET DOMAIN s |->
              IF x = {} THEN 0 ELSE g[x \ {Max(x)}] + CompressedSize[s[Max(x)].path]])[DOMAIN s]
    BY DEF FoldLeft, MapThenFoldSet, Add
  <1> QED BY <1>1, <1>2 DEF Sums

LEMMA MaxLast ==
    ASSUME NEW n \in Nat, NEW x \in SUBSET (1 .. n), n \in x
    PROVE  Max(x) = n
  <1>1. \A m \in x : n >= m
    OBVIOUS
  <1>2. ASSUME NEW k \in x, \A m \in x : k >= m
        PROVE  k = n
    BY <1>1, <1>2
  <1> QED BY <1>1, <1>2 DEF Max

LEMMA MaxIn ==
    ASSUME NEW n \in Nat, NEW x \in SUBSET (1 .. n), x # {}
    PROVE  Max(x) \in x
  <1> DEFINE bounds == {m \in Nat : \A k \in x : k <= m}
  <1>1. PICK m \in bounds : \A l \in bounds : m <= l
    <2>1. bounds \in SUBSET Nat /\ n \in bounds
      OBVIOUS
    <2> QED BY <2>1, LeastPlace
  <1>2. m \in x
    <2> SUFFICES ASSUME m \notin x
                 PROVE  FALSE
      OBVIOUS
    <2>1. \A k \in x : k <= m - 1
      BY <1>1
    <2>2. m - 1 \in Nat
      <3>1. PICK k \in x : k \in 1 .. n
        OBVIOUS
      <3>2. k <= m /\ m \in Nat
        BY <1>1
      <3> QED BY <3>1, <3>2
    <2>3. m - 1 \in bounds
      BY <2>1, <2>2
    <2> QED BY <1>1, <2>3
  <1>3. \A k \in x : m >= k
    BY <1>1
  <1> QED BY <1>2, <1>3 DEF Max

\* The recursive function exists.
LEMMA SumsExist ==
    ASSUME NEW s \in Seq(FileRecord), NEW n \in 0 .. Len(s)
    PROVE  \E g : Sums(g, s, n)
  <1> DEFINE Bad == {m \in 0 .. Len(s) : ~\E g : Sums(g, s, m)}
  <1> SUFFICES ASSUME Bad # {}
               PROVE  FALSE
    OBVIOUS
  <1>1. PICK m \in Bad : \A l \in Bad : m <= l
    <2>1. Bad \in SUBSET Nat
      OBVIOUS
    <2> HIDE DEF Bad
    <2> QED BY <2>1, LeastPlace
  <1>2. CASE m = 0
    <2> DEFINE g == [x \in SUBSET (1 .. 0) |-> 0]
    <2>1. SUBSET (1 .. 0) = {{}}
      OBVIOUS
    <2>2. Sums(g, s, 0)
      BY <2>1 DEF Sums
    <2> QED BY <1>1, <1>2, <2>2
  <1>3. CASE m # 0
    <2>1. m \in Nat \ {0} /\ m - 1 \in 0 .. Len(s)
      BY <1>3
    <2>2. PICK h : Sums(h, s, m - 1)
      BY <1>1, <2>1
    <2> DEFINE last == CompressedSize[s[m].path]
               g == [x \in SUBSET (1 .. m) |-> IF m \in x THEN h[x \ {m}] + last ELSE h[x]]
    <2>3. ASSUME NEW x \in SUBSET (1 .. m)
          PROVE  g[x] = IF x = {} THEN 0
                        ELSE g[x \ {Max(x)}] + CompressedSize[s[Max(x)].path]
      <3>1. CASE m \in x
        <4>1. Max(x) = m /\ m \notin x \ {m} /\ x \ {m} \in SUBSET (1 .. m)
          BY <2>1, <3>1, MaxLast
        <4>2. g[x \ {m}] = h[x \ {m}]
          BY <4>1
        <4> QED BY <3>1, <4>1, <4>2
      <3>2. CASE m \notin x
        <4>1. x \in SUBSET (1 .. (m - 1))
          BY <2>1, <3>2
        <4>2. g[x] = h[x]
          BY <3>2
        <4>3. h[x] = IF x = {} THEN 0 ELSE h[x \ {Max(x)}] + CompressedSize[s[Max(x)].path]
          BY <2>2, <4>1 DEF Sums
        <4>4. g[x \ {Max(x)}] = h[x \ {Max(x)}]
          BY <3>2
        <4> QED BY <4>2, <4>3, <4>4
      <3> QED BY <3>1, <3>2
    <2>4. Sums(g, s, m)
      <3>1. g = [x \in SUBSET (1 .. m) |-> g[x]]
        OBVIOUS
      <3> HIDE DEF g
      <3> QED BY <2>3, <3>1 DEF Sums
    <2> QED BY <1>1, <2>4
  <1> QED BY <1>2, <1>3

\* Partial sums with the right first one and the right steps are those of the fold.
LEMMA FoldIsSum ==
    ASSUME NEW s \in Seq(FileRecord), NEW sums \in [0 .. Len(s) -> Nat], sums[0] = 0,
           \A k \in 1 .. Len(s) : sums[k] = sums[k - 1] + CompressedSize[s[k].path]
    PROVE  FoldLeft(Add, 0, s) = sums[Len(s)]
  <1> DEFINE n == Len(s)
  <1>0. n \in Nat
    OBVIOUS
  <1>1. PICK g : g = (CHOOSE h : Sums(h, s, n))
    OBVIOUS
  <1>2. Sums(g, s, n)
    <2>1. \E h : Sums(h, s, n)
      BY SumsExist
    <2> QED BY <1>1, <2>1
  <1> DEFINE Bad == {m \in 0 .. n : g[1 .. m] # sums[m]}
  <1>3. Bad = {}
    <2> SUFFICES ASSUME Bad # {}
                 PROVE  FALSE
      OBVIOUS
    <2>1. PICK m \in Bad : \A l \in Bad : m <= l
      <3>1. Bad \in SUBSET Nat
        OBVIOUS
      <3> HIDE DEF Bad
      <3> QED BY <3>1, LeastPlace
    <2>2. m \in 0 .. n /\ 1 .. m \in SUBSET (1 .. n)
      OBVIOUS
    <2>3. CASE m = 0
      <3>1. 1 .. m = {}
        BY <2>3
      <3>2. g[{}] = 0
        BY <1>2, <2>2, <3>1 DEF Sums
      <3> QED BY <2>1, <2>3, <3>1, <3>2
    <2>4. CASE m # 0
      <3>1. m - 1 \in 0 .. n /\ m - 1 \notin Bad
        BY <2>1, <2>2, <2>4
      <3>2. g[1 .. (m - 1)] = sums[m - 1]
        BY <3>1
      <3>3. PICK x : x = 1 .. m
        OBVIOUS
      <3>4. m \in Nat \ {0} /\ x \in SUBSET (1 .. n) /\ m \in x
        BY <2>2, <2>4, <3>3
      <3>5. x \ {m} = 1 .. (m - 1)
        BY <3>3, <3>4
      <3>6. Max(x) = m
        BY <3>3, <3>4, MaxLast
      <3>7. g[x] = g[x \ {m}] + CompressedSize[s[m].path]
        <4>1. g[x] = g[x \ {Max(x)}] + CompressedSize[s[Max(x)].path]
          BY <1>2, <3>4 DEF Sums
        <4> QED BY <3>6, <4>1
      <3>8. m \in 1 .. n
        BY <2>2, <2>4
      <3> QED BY <2>1, <3>2, <3>3, <3>5, <3>7, <3>8
    <2> QED BY <2>3, <2>4
  <1>4. g[1 .. n] = sums[n]
    <2>1. n \in 0 .. n
      BY <1>0
    <2> QED BY <1>3, <2>1
  <1> QED BY <1>1, <1>4, FoldUnfolds

-----------------------------------------------------------------------------
(* The running size is the sum. *)

PartialSums(sums, files) ==
    /\ sums \in [0 .. Len(files) -> Nat]
    /\ sums[0] = 0
    /\ \A k \in 1 .. Len(files) : sums[k] = sums[k - 1] + CompressedSize[files[k].path]

\* pending_size_ is the last of the partial sums.
Summed == \E sums : /\ PartialSums(sums, pending_files)
                    /\ sums[Len(pending_files)] = pending_size

\* Only an append and the end of a pack change the size.
LEMMA SizeStep ==
    ASSUME NEW t \in Threads, Inv, Call(t) \/ Step(t), ~PushFile(t), ~FinishPack(t)
    PROVE  UNCHANGED pending_size
  <1>1. CASE Call(t)
    BY <1>1 DEF Call, CallAdd, CallBatch, CallPack, CallMount, CallRead, Unmount, memVars
  <1>2. CASE CollectStep(t)
    BY <1>2 DEF CollectStep, CompressFile, CompressFileFails, JoinCompress,
                JoinCompressFails, CheckRoom, PushTooLarge, memVars
  <1>3. CASE PackStep(t)
    BY <1>3 DEF PackStep, LockPack, NothingToPack, PlanVolume, PlaceFile, WriteHeader,
                WriteHeaderFails, WriteMeta, WriteMetaFails, ReadTemps, ReadTempsFails,
                JoinWrites, JoinWritesFails, PackFails, memVars
  <1>4. CASE MountReadStep(t)
    BY <1>4 DEF MountReadStep, MountRecord, MountRecordFails, FinishMount, ReadImage,
                ReadImageFails, FillOutput, FillOutputFails, memVars
  <1> QED BY <1>1, <1>2, <1>3, <1>4 DEF Step

\* A file appended adds its size.
LEMMA SummedPush ==
    ASSUME NEW t \in Threads, Inv, Summed, PushFile(t)
    PROVE  Summed'
  <1> DEFINE n == Len(pending_files)
             task == tasks[t][index[t]]
             file == [inode_id |-> task.inode_id, path |-> task.path,
                      volume_id |-> None, offset_in_volume |-> 0]
             size == CompressedSize[task.path]
  <1>1. PICK sums : PartialSums(sums, pending_files) /\ sums[n] = pending_size
    BY DEF Summed
  <1>2. /\ file \in FileRecord /\ task \in FileTask
        /\ pending_files' = Append(pending_files, file)
        /\ pending_size' = pending_size + size
    <2>1. pending_size' = pending_size + size
      BY DEF PushFile, Size
    <2> QED BY <2>1, PushEffect
  <1>3. pending_files \in Seq(FileRecord) /\ n \in Nat /\ size \in Nat /\ pending_size \in Nat
    BY <1>2, SizesAssumption DEF Inv, TypeOK, MemoryType, FileTask
  <1> DEFINE more == [k \in 0 .. (n + 1) |-> IF k = n + 1 THEN pending_size + size ELSE sums[k]]
  <1>4. file.path = task.path
    OBVIOUS
  <1> HIDE DEF file, n
  <1>5. /\ Len(pending_files') = n + 1
        /\ pending_files'[n + 1] = file
        /\ \A k \in 1 .. n : pending_files'[k] = pending_files[k]
    BY <1>2, <1>3 DEF n
  <1>6. sums \in [0 .. n -> Nat] /\ sums[0] = 0
    BY <1>1 DEF PartialSums, n
  <1>7. more \in [0 .. (n + 1) -> Nat] /\ more[0] = 0 /\ more[n + 1] = pending_size'
    <2>1. pending_size + size \in Nat /\ n + 1 \in 0 .. (n + 1) /\ 0 \in 0 .. n /\ n + 1 # 0
      BY <1>3
    <2>2. \A k \in 0 .. (n + 1) : k # n + 1 => k \in 0 .. n
      BY <1>3
    <2>3. \A k \in 0 .. (n + 1) :
             (IF k = n + 1 THEN pending_size + size ELSE sums[k]) \in Nat
      BY <1>6, <2>1, <2>2
    <2>4. more \in [0 .. (n + 1) -> Nat]
      BY <2>3
    <2>5. more[n + 1] = pending_size + size /\ more[0] = sums[0]
      BY <1>3, <2>1
    <2> HIDE DEF more
    <2> QED BY <1>2, <1>6, <2>4, <2>5
  <1>8. ASSUME NEW k \in 1 .. (n + 1)
        PROVE  more[k] = more[k - 1] + CompressedSize[pending_files'[k].path]
    <2>1. CASE k = n + 1
      <3>1. more[k] = pending_size + size /\ more[k - 1] = sums[n]
        BY <1>3, <2>1
      <3> QED BY <1>1, <1>4, <1>5, <2>1, <3>1
    <2>2. CASE k # n + 1
      <3>1. k \in 1 .. n /\ more[k] = sums[k] /\ more[k - 1] = sums[k - 1]
        BY <1>3, <2>2
      <3>2. sums[k] = sums[k - 1] + CompressedSize[pending_files[k].path]
        BY <1>1, <3>1 DEF PartialSums, n
      <3> QED BY <1>5, <3>1, <3>2
    <2> QED BY <2>1, <2>2
  <1> HIDE DEF more
  <1>9. PartialSums(more, pending_files')
    BY <1>5, <1>7, <1>8 DEF PartialSums
  <1> QED BY <1>5, <1>7, <1>9 DEF Summed, PartialSums

\* An emptied list sums to 0.
LEMMA SummedEmpty ==
    ASSUME pending_files' = <<>>, pending_size' = 0
    PROVE  Summed'
  <1> DEFINE zero == [k \in 0 .. 0 |-> 0]
  <1>1. zero \in [0 .. 0 -> Nat] /\ zero[0] = 0
    OBVIOUS
  <1>2. Len(pending_files') = 0
    OBVIOUS
  <1> HIDE DEF zero
  <1>3. PartialSums(zero, pending_files')
    BY <1>1, <1>2 DEF PartialSums
  <1> QED BY <1>1, <1>2, <1>3 DEF Summed, PartialSums

LEMMA SummedThread ==
    ASSUME NEW t \in Threads, Inv, Inv', Summed, Call(t) \/ Step(t)
    PROVE  Summed'
  <1>0. pending_files \in Seq(FileRecord) /\ pending_files' \in Seq(FileRecord)
    BY DEF Inv, TypeOK, MemoryType
  <1>1. CASE PushFile(t)
    BY <1>1, SummedPush
  <1>2. CASE FinishPack(t)
    <2>1. pending_files' = <<>> /\ pending_size' = 0
      BY <1>2 DEF FinishPack, ClearPending
    <2> QED BY <2>1, SummedEmpty
  <1>3. CASE ~PushFile(t) /\ ~FinishPack(t)
    <2>1. UNCHANGED pending_size
      BY <1>3, SizeStep
    <2>2. /\ DOMAIN pending_files' = DOMAIN pending_files
          /\ \A k \in DOMAIN pending_files : pending_files'[k].path = pending_files[k].path
      BY <1>3, PendingStep
    <2>3. Len(pending_files') = Len(pending_files)
      BY <1>0, <2>2
    <2>4. PICK sums : PartialSums(sums, pending_files) /\ sums[Len(pending_files)] = pending_size
      BY DEF Summed
    <2>5. PartialSums(sums, pending_files')
      <3>1. DOMAIN pending_files = 1 .. Len(pending_files)
        BY <1>0
      <3>2. /\ sums \in [0 .. Len(pending_files) -> Nat] /\ sums[0] = 0
            /\ \A k \in 1 .. Len(pending_files) :
                  sums[k] = sums[k - 1] + CompressedSize[pending_files[k].path]
        BY <2>4 DEF PartialSums
      <3>3. \A k \in 1 .. Len(pending_files) : pending_files'[k].path = pending_files[k].path
        BY <2>2, <3>1
      <3>4. \A k \in 1 .. Len(pending_files) :
               sums[k] = sums[k - 1] + CompressedSize[pending_files'[k].path]
        BY <3>2, <3>3
      <3> QED BY <2>3, <3>2, <3>4 DEF PartialSums
    <2> QED BY <2>1, <2>3, <2>4, <2>5 DEF Summed, PartialSums
  <1> QED BY <1>1, <1>2, <1>3

LEMMA SummedInit == Init => Summed
  <1>1. PartialSums([k \in 0 .. 0 |-> 0], <<>>)
    BY DEF PartialSums
  <1> QED BY <1>1 DEF Init, Summed

LEMMA SummedNext ==
    ASSUME Inv, Inv', Summed, [Next]_vars
    PROVE  Summed'
  <1>1. CASE \E t \in Threads : Call(t) \/ Step(t)
    BY <1>1, SummedThread
  <1>2. CASE Worker
    <2>1. UNCHANGED <<pending_files, pending_size>>
      BY <1>2 DEF Worker, RunTask, RunCompress, RunCompressFails, RunWrite, RunWriteFails,
                  memVars
    <2> QED BY <2>1 DEF Summed, PartialSums
  <1>3. CASE Crash
    <2>1. pending_files' = <<>> /\ pending_size' = 0
      BY <1>3 DEF Crash
    <2> QED BY <2>1, SummedEmpty
  <1>4. CASE Stop \/ UNCHANGED vars
    BY <1>4 DEF Stop, vars, memVars, Summed, PartialSums
  <1> QED BY <1>1, <1>2, <1>3, <1>4 DEF Next

LEMMA SummedInvariance == Spec => [](Inv /\ Summed)
  <1>1. Inv /\ Summed /\ [Next]_vars => Summed'
    BY NextInv, SummedNext
  <1> QED BY <1>1, SummedInit, Invariance, PTL DEF Spec

\* pending_size_, which the overflow and threshold tests use and which is kept by
\* increments, is the sum over pending_files_ after every step of every interleaving,
\* with ids repeated or not.
THEOREM SizeCorrect == Spec => []SizeAccounted
  <1>1. Inv /\ Summed => SizeAccounted
    <2> SUFFICES ASSUME Inv, Summed
                 PROVE  SizeAccounted
      OBVIOUS
    <2>1. PICK sums : PartialSums(sums, pending_files) /\ sums[Len(pending_files)] = pending_size
      BY DEF Summed
    <2>2. pending_files \in Seq(FileRecord)
      BY DEF Inv, TypeOK, MemoryType
    <2> QED BY <2>1, <2>2, FoldIsSum DEF PartialSums, SizeAccounted
  <1> QED BY <1>1, SummedInvariance, PTL

-----------------------------------------------------------------------------
(* A single caller that adds one file at a time never overfills a volume, and a pack it *)
(* begins because of a limit has files.                                                 *)

NoBatch == \A t \in Threads : "batch" \notin Ops[t]

OneFile(t) == DOMAIN tasks[t] \subseteq {1} /\ pc[t] # "pool_compress"

\* A file past the check fits into the volume, alone and with the pending files; what
\* made a limit ask for a pack is still pending when the pack begins.
RoomAt(t) ==
    /\ pc[t] \in {"check", "push"} \/ trigger[t] = "AutoOverflow" =>
          Size(tasks[t][1]) <= VolumeSize
    /\ pc[t] = "push" => pending_size + Size(tasks[t][1]) <= VolumeSize
    /\ pc[t] \in UnlockedPackPcs /\ trigger[t] # "Manual" => pending_files # <<>>

Room == /\ PendingFits
        /\ \A t \in Threads : PhaseAt(t) /\ OneFile(t) /\ RoomAt(t)

\* No call has a second file.
LEMMA OneFileStep ==
    ASSUME NEW t \in Threads, Inv, NoBatch, OneFile(t), Call(t) \/ Step(t)
    PROVE  OneFile(t)'
  <1> USE DEF Inv, TypeOK, LocalsType, OneFile, Goto
  <1>1. CASE CallAdd(t)
    <2>1. PICK file : tasks' = [tasks EXCEPT ![t] = <<file>>]
      BY <1>1 DEF CallAdd
    <2> QED BY <1>1, <2>1 DEF CallAdd
  <1>2. ASSUME NEW code, Return(t, code)
        PROVE  OneFile(t)'
    BY <1>2 DEF Return
  <1>3. CASE Call(t) /\ ~CallAdd(t)
    BY <1>3 DEF NoBatch, Call, CallBatch, CallPack, CallMount, CallRead, Unmount, Begin, addVars
  <1>4. CASE CollectStep(t) /\ ~\E code : Return(t, code)
    BY <1>4 DEF CollectStep, CompressFile, CompressFileFails, JoinCompress,
                JoinCompressFails, CheckRoom, PushFile, PushTooLarge, addVars
  <1>5. CASE (\/ LockPack(t) \/ PlanVolume(t) \/ PlaceFile(t) \/ WriteHeader(t)
              \/ WriteMeta(t) \/ ReadTemps(t) \/ JoinWrites(t))
    BY <1>5 DEF LockPack, PlanVolume, PlaceFile, WriteHeader, WriteMeta, ReadTemps,
                JoinWrites, NextFile, addVars
  <1>6. CASE FinishPack(t) /\ ~\E code : Return(t, code)
    BY <1>6 DEF FinishPack
  <1>7. CASE MountRecord(t) \/ ReadImage(t)
    BY <1>7 DEF MountRecord, ReadImage, addVars
  <1>8. CASE \/ NothingToPack(t) \/ WriteHeaderFails(t) \/ WriteMetaFails(t)
             \/ ReadTempsFails(t) \/ JoinWritesFails(t) \/ MountRecordFails(t)
             \/ FinishMount(t) \/ ReadImageFails(t) \/ FillOutput(t) \/ FillOutputFails(t)
    BY <1>2, <1>8 DEF NothingToPack, WriteHeaderFails, WriteMetaFails, ReadTempsFails,
       JoinWritesFails, PackFails, MountRecordFails, FinishMount, ReadImageFails, FillOutput,
       FillOutputFails
  <1> QED BY <1>1, <1>2, <1>3, <1>4, <1>5, <1>6, <1>7, <1>8
          DEF Step, PackStep, MountReadStep

\* A running size that is not 0 is that of some file.
LEMMA SizePending ==
    ASSUME Inv, Summed, pending_files = <<>>
    PROVE  pending_size = 0
  BY DEF Summed, PartialSums

LEMMA FitsStep ==
    ASSUME NEW t \in Threads, Inv, OneFile(t), RoomAt(t), PendingFits, Call(t) \/ Step(t)
    PROVE  PendingFits'
  <1>1. CASE PushFile(t)
    <2>1. index[t] = 1
      BY <1>1, PushEffect DEF OneFile
    <2> QED BY <1>1, <2>1 DEF PushFile, RoomAt, PendingFits
  <1>2. CASE FinishPack(t)
    BY <1>2, SizesAssumption DEF FinishPack, ClearPending, PendingFits
  <1>3. CASE ~PushFile(t) /\ ~FinishPack(t)
    BY <1>3, SizeStep DEF PendingFits
  <1> QED BY <1>1, <1>2, <1>3

LEMMA RoomAtStep ==
    ASSUME NEW t \in Threads, Inv, Summed, PhaseAt(t), OneFile(t), RoomAt(t), Call(t) \/ Step(t)
    PROVE  RoomAt(t)'
  <1> USE NoneAssumption
      DEF Inv, TypeOK, LocalsType, RoomAt, Goto, Triggers, UnlockedPackPcs, Size
  <1>0. pending_size \in Nat /\ pending_files \in Seq(FileRecord)
    BY DEF MemoryType
  <1>1. ASSUME NEW code, Return(t, code)
        PROVE  RoomAt(t)'
    BY <1>1 DEF Return
  <1>2. CASE Call(t)
    BY <1>2 DEF PhaseAt, LockedPackPcs, Call, CallAdd, CallBatch, CallPack, CallMount, CallRead,
                Unmount, Begin, addVars
  <1>3. CASE CompressFile(t) /\ ~\E code : Return(t, code)
    <2>1. tasks[t] \in Seq(FileTask) /\ 1 \in DOMAIN tasks[t]
      BY <1>3 DEF CompressFile, PhaseAt
    <2>2. tasks[t][1] \in FileTask
      BY <2>1
    <2>3. CompressedSize[tasks[t][1].path] \in Nat
      BY <2>2, SizesAssumption DEF FileTask
    <2>4. ~(CompressedSize[tasks[t][1].path] > VolumeSize)
      BY <1>3 DEF CompressFile
    <2>5. CompressedSize[tasks[t][1].path] <= VolumeSize
      BY <2>3, <2>4, SizesAssumption
    <2>6. pc'[t] = "check" /\ UNCHANGED <<tasks, trigger>>
      BY <1>3 DEF CompressFile, addVars
    <2> QED BY <2>5, <2>6, <1>3 DEF CompressFile, PhaseAt, LockedPackPcs
  <1>4. CASE JoinCompress(t)
    BY <1>4 DEF OneFile, JoinCompress
  <1>5. CASE CheckRoom(t)
    <2>1. tasks[t] \in Seq(FileTask) /\ DOMAIN tasks[t] = {1}
      BY <1>5 DEF OneFile, CheckRoom, LocalsReady, LocalsReadyAt, AddPcs
    <2>2. tasks[t][1] \in FileTask
      BY <2>1
    <2>3. Size(tasks[t][1]) \in Nat /\ Size(tasks[t][1]) <= VolumeSize
      BY <1>5, <2>2, SizesAssumption DEF CheckRoom, FileTask
    <2>4. UNCHANGED <<pending_files, pending_size, tasks>>
      BY <1>5 DEF CheckRoom, memVars
    <2>5. CASE WouldOverflow(tasks[t][1])
      <3>1. pending_files # <<>>
        <4>1. pending_size + Size(tasks[t][1]) > VolumeSize
          BY <2>5 DEF WouldOverflow
        <4>2. pending_size # 0
          BY <1>0, <2>3, <4>1, SizesAssumption
        <4> QED BY <4>2, SizePending
      <3>2. pc'[t] = "lock_pack"
        <4>1. pc' = [pc EXCEPT ![t] = "lock_pack"]
          <5>1. \E k \in DOMAIN tasks[t] : WouldOverflow(tasks[t][k])
            BY <2>1, <2>5
          <5> QED BY <1>5, <5>1 DEF CheckRoom
        <4>2. pc \in [Threads -> Pcs]
          BY DEF LocalsType
        <4> QED BY <4>1, <4>2
      <3> QED BY <2>3, <2>4, <3>1, <3>2
    <2>6. CASE ~WouldOverflow(tasks[t][1])
      <3>1. pending_size + Size(tasks[t][1]) <= VolumeSize
        BY <1>0, <2>3, <2>6, SizesAssumption DEF WouldOverflow
      <3>2. pc'[t] = "push"
        BY <1>5, <2>1, <2>6 DEF CheckRoom
      <3> QED BY <2>3, <2>4, <3>1, <3>2
    <2> QED BY <2>5, <2>6
  <1>6. CASE PushFile(t) /\ ~\E code : Return(t, code)
    <2>0. /\ index[t] \in DOMAIN tasks[t]
          /\ Len(pending_files) + 1 \in DOMAIN pending_files'
      BY <1>6, PushEffect
    <2>1. index[t] = 1 /\ Len(tasks[t]) = 1
      <3>1. tasks[t] \in Seq(FileTask) /\ DOMAIN tasks[t] \subseteq {1}
        BY DEF OneFile
      <3>2. Len(tasks[t]) \in Nat /\ DOMAIN tasks[t] = 1 .. Len(tasks[t])
        BY <3>1
      <3>3. Len(tasks[t]) \in DOMAIN tasks[t]
        BY <2>0, <3>2
      <3> QED BY <2>0, <3>1, <3>3
    <2>2. pending_files' # <<>>
      BY <2>0
    <2>3. pc'[t] = "lock_pack" /\ trigger'[t] = "AutoThreshold"
      BY <1>6, <2>1 DEF PushFile
    <2> QED BY <2>2, <2>3
  <1>7. CASE LockPack(t)
    BY <1>7 DEF LockPack, memVars, addVars
  <1>8. CASE PlanVolume(t) \/ PlaceFile(t)
    BY <1>8 DEF PlanVolume, PlaceFile, NextFile, addVars
  <1>9. CASE WriteHeader(t) \/ WriteMeta(t) \/ ReadTemps(t) \/ JoinWrites(t)
    BY <1>9 DEF WriteHeader, WriteMeta, ReadTemps, JoinWrites, NextFile, addVars
  <1>10. CASE FinishPack(t) /\ ~\E code : Return(t, code)
    <2>1. trigger[t] = "AutoOverflow" /\ trigger'[t] = None /\ pc'[t] = "push"
          /\ pending_size' = 0 /\ tasks' = tasks
      BY <1>10 DEF FinishPack, ClearPending
    <2>2. tasks[t][1] \in FileTask
      <3>1. 1 \in DOMAIN tasks[t]
        BY <2>1 DEF OneFile, LocalsReady, LocalsReadyAt
      <3> QED BY <3>1
    <2>3. CompressedSize[tasks[t][1].path] \in Nat
      BY <2>2, SizesAssumption DEF FileTask
    <2> QED BY <2>1, <2>3
  <1>11. CASE MountRecord(t) \/ ReadImage(t)
    BY <1>11 DEF MountRecord, ReadImage, addVars, PhaseAt, LockedPackPcs
  <1>12. CASE \/ CompressFileFails(t) \/ JoinCompressFails(t) \/ PushTooLarge(t)
              \/ NothingToPack(t) \/ WriteHeaderFails(t) \/ WriteMetaFails(t)
              \/ ReadTempsFails(t) \/ JoinWritesFails(t) \/ MountRecordFails(t)
              \/ FinishMount(t) \/ ReadImageFails(t) \/ FillOutput(t) \/ FillOutputFails(t)
    BY <1>1, <1>12 DEF CompressFileFails, JoinCompressFails, PushTooLarge, NothingToPack,
       WriteHeaderFails, WriteMetaFails, ReadTempsFails, JoinWritesFails, PackFails,
       MountRecordFails, FinishMount, ReadImageFails, FillOutput, FillOutputFails
  <1> QED BY <1>1, <1>2, <1>3, <1>4, <1>5, <1>6, <1>7, <1>8, <1>9, <1>10, <1>11, <1>12
          DEF Step, CollectStep, PackStep, MountReadStep

LEMMA RoomInit == Init => Room
  <1> SUFFICES ASSUME Init
               PROVE  Room
    OBVIOUS
  <1> USE NoneAssumption, SizesAssumption DEF Init, Unset
  <1>1. PendingFits
    BY DEF PendingFits
  <1>2. ASSUME NEW t \in Threads
        PROVE  PhaseAt(t) /\ OneFile(t) /\ RoomAt(t)
    BY DEF PhaseAt, OneFile, RoomAt, Triggers, UnlockedPackPcs, LockedPackPcs, MountReadPcs
  <1> QED BY <1>1, <1>2 DEF Room

LEMMA RoomNext ==
    ASSUME SingleCaller, NoBatch, Inv, Summed, Room, [Next]_vars
    PROVE  Room'
  <1>1. CASE \E t \in Threads : Call(t) \/ Step(t)
    <2>1. PICK t \in Threads : Call(t) \/ Step(t)
      BY <1>1
    <2>2. PhaseAt(t)' /\ OneFile(t)' /\ RoomAt(t)' /\ PendingFits'
      BY <2>1, PhaseStep, OneFileStep, RoomAtStep, FitsStep DEF Room
    <2> QED BY <2>2 DEF Room, SingleCaller
  <1>2. CASE Worker
    <2>1. UNCHANGED <<pending_files, pending_size, pc, tasks, trigger>>
      BY <1>2 DEF Worker, RunTask, RunCompress, RunCompressFails, RunWrite, RunWriteFails,
                  memVars, addVars
    <2> QED BY <2>1 DEF Room, PendingFits, PhaseAt, OneFile, RoomAt
  <1>3. CASE Crash
    <2> USE <1>3, NoneAssumption, SizesAssumption DEF Crash, Unset
    <2>1. PendingFits'
      BY DEF PendingFits
    <2>2. ASSUME NEW t \in Threads
          PROVE  (PhaseAt(t) /\ OneFile(t) /\ RoomAt(t))'
      BY DEF PhaseAt, OneFile, RoomAt, Triggers, UnlockedPackPcs, LockedPackPcs, MountReadPcs
    <2> QED BY <2>1, <2>2 DEF Room
  <1>4. CASE Stop \/ UNCHANGED vars
    BY <1>4 DEF Stop, vars, memVars, addVars, Room, PendingFits, PhaseAt, OneFile, RoomAt
  <1> QED BY <1>1, <1>2, <1>3, <1>4 DEF Next

LEMMA RoomInvariance ==
    ASSUME SingleCaller, NoBatch
    PROVE  Spec => []Room
  <1>1. Inv /\ Summed /\ Room /\ [Next]_vars => Room'
    BY RoomNext
  <1> QED BY <1>1, RoomInit, SummedInvariance, PTL DEF Spec

\* With one caller that adds file by file the pending files fit into one volume, whatever
\* fails and however often the process dies: the check before the append and the pack it
\* asks for are enough.  Two callers, or one with a batch, overfill it.
THEOREM PendingWithinVolume ==
    ASSUME SingleCaller, NoBatch
    PROVE  Spec => []PendingFits
  <1>1. Room => PendingFits
    BY DEF Room
  <1> QED BY <1>1, RoomInvariance, PTL

\* Under the same conditions a pack begun because the volume would overflow or the
\* threshold was reached finds files: AddFileToCollect never fails with INVALID_PARAMETER
\* because of the pack inside it.
THEOREM LimitsFindFiles ==
    ASSUME SingleCaller, NoBatch
    PROVE  Spec => []PackHasWork
  <1>1. Room => PackHasWork
    BY DEF Room, RoomAt, PackHasWork, UnlockedPackPcs
  <1> QED BY <1>1, RoomInvariance, PTL

-----------------------------------------------------------------------------
(* No pack is overdue between calls. *)

FilesFit == \A p \in Paths : CompressedSize[p] <= VolumeSize

\* The thread will pack before its call returns, or is in the middle of a batch and will
\* look at the threshold at its end.
WillPack(t) == trigger[t] # None \/ (pc[t] = "push" /\ index[t] > 1)

\* Whoever brings the list to the threshold, or leaves it there half-way through a batch,
\* has not returned.
Attended == ShouldPackVolume => \E t \in Threads : WillPack(t)

\* A thread that will pack goes on to, until the list is empty.
LEMMA WillPackStep ==
    ASSUME NEW t \in Threads, MaxFaults = 0, FilesFit, Inv, Staging, failed = {},
           pending_files # <<>>, WillPack(t), Call(t) \/ Step(t),
           ~PushFile(t), ~FinishPack(t)
    PROVE  WillPack(t)'
  <1> USE NoneAssumption DEF Inv, TypeOK, LocalsType, WillPack, Goto, Triggers
  <1>0. PhaseAt(t)
    BY DEF Staging, CallPhases
  <1>1. CASE trigger[t] # None
    <2>1. pc[t] \in UnlockedPackPcs \cup LockedPackPcs
      BY <1>0, <1>1 DEF PhaseAt
    <2>2. LockPack(t) \/ PlanVolume(t) \/ PlaceFile(t) \/ WriteHeader(t) \/ WriteMeta(t)
          \/ ReadTemps(t) \/ JoinWrites(t) \/ NothingToPack(t)
      <3>1. ~Call(t)
        BY <2>1 DEF UnlockedPackPcs, LockedPackPcs, Call, CallAdd, CallBatch, CallPack,
                    CallMount, CallRead, Unmount, Begin
      <3>2. ~CollectStep(t)
        BY <2>1 DEF UnlockedPackPcs, LockedPackPcs, CollectStep, CompressFile,
                    CompressFileFails, JoinCompress, JoinCompressFails, CheckRoom, PushFile,
                    PushTooLarge
      <3>3. ~MountReadStep(t)
        BY <2>1 DEF UnlockedPackPcs, LockedPackPcs, MountReadStep, MountRecord,
                    MountRecordFails, FinishMount, ReadImage, ReadImageFails, FillOutput,
                    FillOutputFails
      <3> QED BY <3>1, <3>2, <3>3, NoFaultStep DEF Step, PackStep
    <2>3. ~NothingToPack(t)
      BY DEF NothingToPack
    <2>4. trigger' = trigger
      BY <2>2, <2>3 DEF LockPack, PlanVolume, PlaceFile, WriteHeader, WriteMeta, ReadTemps,
                        JoinWrites, addVars
    <2> QED BY <1>1, <2>4
  <1>2. CASE pc[t] = "push" /\ index[t] > 1
    <2>1. PushTooLarge(t)
      <3>1. ~Call(t)
        BY <1>2 DEF Call, CallAdd, CallBatch, CallPack, CallMount, CallRead, Unmount, Begin
      <3>2. ~PackStep(t)
        BY <1>2 DEF PackStep, LockPack, NothingToPack, PlanVolume, PlaceFile, WriteHeader,
                    WriteHeaderFails, WriteMeta, WriteMetaFails, ReadTemps, ReadTempsFails,
                    JoinWrites, JoinWritesFails, FinishPack
      <3>3. ~MountReadStep(t)
        BY <1>2 DEF MountReadStep, MountRecord, MountRecordFails, FinishMount, ReadImage,
                    ReadImageFails, FillOutput, FillOutputFails
      <3>4. CollectStep(t)
        BY <3>1, <3>2, <3>3 DEF Step
      <3> QED BY <1>2, <3>4 DEF CollectStep, CompressFile, CompressFileFails, JoinCompress,
                                JoinCompressFails, CheckRoom
    <2>2. tasks[t] \in Seq(FileTask) /\ index[t] \in DOMAIN tasks[t]
      BY <1>2 DEF LocalsReady, LocalsReadyAt
    <2>3. tasks[t][index[t]] \in FileTask
      BY <2>2
    <2>4. CompressedSize[tasks[t][index[t]].path] \in Nat
      BY <2>3, SizesAssumption DEF FileTask
    <2>5. CompressedSize[tasks[t][index[t]].path] <= VolumeSize
      BY <2>3 DEF FilesFit, FileTask
    <2> QED BY <2>1, <2>4, <2>5, SizesAssumption DEF PushTooLarge, Size
  <1> QED BY <1>1, <1>2

LEMMA AttendedThread ==
    ASSUME NEW t \in Threads, MaxFaults = 0, FilesFit, Inv, Staging, failed = {}, Attended,
           Call(t) \/ Step(t), ShouldPackVolume'
    PROVE  \E u \in Threads : WillPack(u)'
  <1>1. CASE PushFile(t)
    <2> USE <1>1, NoneAssumption DEF Inv, TypeOK, LocalsType, Goto, Triggers, WillPack
    <2>1. CASE index[t] < Len(tasks[t])
      <3>1. pc'[t] = "push" /\ index'[t] = index[t] + 1
        BY <2>1 DEF PushFile
      <3>2. index[t] \in Nat \ {0}
        OBVIOUS
      <3> QED BY <3>1, <3>2
    <2>2. CASE ~(index[t] < Len(tasks[t]))
      <3>1. trigger' = [trigger EXCEPT ![t] = "AutoThreshold"]
        BY <2>2 DEF PushFile, OverThreshold, ShouldPackVolume
      <3> QED BY <3>1
    <2> QED BY <2>1, <2>2
  <1>2. CASE FinishPack(t)
    BY <1>2 DEF FinishPack, ClearPending, ShouldPackVolume
  <1>3. CASE ~PushFile(t) /\ ~FinishPack(t)
    <2>1. pending_size' = pending_size
      BY <1>3, SizeStep
    <2>2. pending_files # <<>>
      <3>1. pending_files' \in Seq(FileRecord) /\ pending_files' # <<>>
        BY MemoryStep DEF MemoryType, ShouldPackVolume
      <3>2. 1 \in DOMAIN pending_files'
        BY <3>1
      <3> QED BY <1>3, <3>2, PendingStep
    <2>3. ShouldPackVolume
      BY <2>1, <2>2 DEF ShouldPackVolume
    <2>4. PICK u \in Threads : WillPack(u)
      BY <2>3 DEF Attended
    <2>5. CASE u = t
      BY <1>3, <2>2, <2>4, <2>5, WillPackStep DEF Attended
    <2>6. CASE u # t
      <3>1. LocalsOf(u)' = LocalsOf(u)
        BY <2>6, OthersStep DEF Inv, TypeOK
      <3> QED BY <2>4, <3>1 DEF LocalsOf, WillPack
    <2> QED BY <2>5, <2>6
  <1> QED BY <1>1, <1>2, <1>3

LEMMA AttendedNext ==
    ASSUME MaxFaults = 0, FilesFit, Inv, Staging, failed = {}, Attended, [Next]_vars
    PROVE  Attended'
  <1>1. CASE \E t \in Threads : Call(t) \/ Step(t)
    BY <1>1, AttendedThread DEF Attended
  <1>2. CASE Worker
    <2>1. UNCHANGED <<pending_files, pending_size, pc, index, trigger>>
      BY <1>2 DEF Worker, RunTask, RunCompress, RunCompressFails, RunWrite, RunWriteFails,
                  memVars, addVars, packVars
    <2> QED BY <2>1 DEF Attended, ShouldPackVolume, WillPack
  <1>3. CASE Crash
    BY <1>3 DEF Crash, Attended, ShouldPackVolume
  <1>4. CASE Stop \/ UNCHANGED vars
    BY <1>4 DEF Stop, vars, memVars, addVars, packVars, Attended,
                ShouldPackVolume, WillPack
  <1> QED BY <1>1, <1>2, <1>3, <1>4 DEF Next

\* Without faults, and if every file fits into a volume, no call of any interleaving of
\* adds, batches and packs leaves the list at or above the threshold for a later call to
\* find, although the threshold test and the pack it asks for are separate critical
\* sections.
THEOREM PacksOnTime ==
    ASSUME FreshIds, FilesFit, MaxFaults = 0
    PROVE  Spec => []NoPackOverdue
  <1>1. Init => Attended
    BY DEF Init, Attended, ShouldPackVolume
  <1>2. Inv /\ Staging /\ failed = {} /\ Attended /\ [Next]_vars => Attended'
    BY AttendedNext
  <1>3. Staging /\ Attended => NoPackOverdue
    BY DEF Staging, CallPhases, PhaseAt, Attended, WillPack, NoPackOverdue, Quiet,
           UnlockedPackPcs, LockedPackPcs
  <1> QED BY <1>1, <1>2, <1>3, Invariance, StagingInvariance, NoneFails, PTL DEF Spec
=============================================================================
