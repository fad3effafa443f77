--------------------------- MODULE MCVolumeManager ---------------------------
(***************************************************************************)
(* Instances of VolumeManager for TLC.                                     *)
(***************************************************************************)
EXTENDS StoreRefinement

CONSTANTS t1, t2, empty, small, large, whole, huge

\* With VolumeSize = 4 two small files fill a volume, a small and a large one
\* overflow it; with VolumeSize = 8 two small ones are half of it; huge fits into none.
MCSizes ==
    [p \in Paths |-> CASE p = empty -> 0
                       [] p = small -> 2
                       [] p = large -> 3
                       [] p = whole -> 4
                       [] p = huge -> 9]

\* Ids are only compared and drawn.
IdSymmetry == Permutations(InodeIds) \cup Permutations(VolumeIds)

\* Two threads collect, one of them in batches, which it also flushes.
AddAndPack == [t \in Threads |-> IF t = t1 THEN {"batch", "pack"} ELSE {"add"}]

\* Every operation, calls of two threads interleaved; both read.
AllOps == [t \in Threads |-> IF t = t1 THEN {"batch", "mount", "read"}
                                       ELSE {"add", "pack", "unmount", "read"}]

\* A single caller.
Sequential == [t \in Threads |-> {"add", "pack", "mount", "unmount", "read"}]
Adds == [t \in Threads |-> {"add"}]

\* A caller that reads what a failed pack left.
Salvage == [t \in Threads |-> {"batch", "mount", "read"}]

\* Two threads mount and unmount the same volume.
TwoMounters == [t \in Threads |-> IF t = t1 THEN {"add", "pack", "mount"}
                                           ELSE {"mount", "unmount"}]
=============================================================================
