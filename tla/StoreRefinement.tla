--------------------------- MODULE StoreRefinement ---------------------------
(***************************************************************************)
(* VolumeManager implements VolumeStore.                                   *)
(*                                                                         *)
(*   PushFile                  -> Collect                                  *)
(*   WriteMeta, RunWrite       -> Write, or nothing while the image is not *)
(*                                complete enough to keep the file         *)
(*   FinishPack                -> Seal                                     *)
(*   FinishMount, Unmount      -> Mount, Unmount                           *)
(*   FillOutput                -> Read, or ReadDamaged of a torn frame     *)
(*   CallAdd, CallBatch        -> Issue; the other calls -> Begin          *)
(*   Crash                     -> Restart                                  *)
(* Every other step is invisible.                                          *)
(***************************************************************************)
EXTENDS VolumeManager

collectedMap == InodesOf(pending_files)
keptMap == [v \in VolumeIds |-> {i \in InodeIds : StoredIn(i, v)}]
givenMap ==
    [t \in Threads |->
        IF delivered[t] = None THEN None
        ELSE <<delivered[t].inode_id, delivered[t].volume_id,
               output_files[delivered[t].inode_id]>>]

Store == INSTANCE VolumeStore WITH
    Inodes <- InodeIds, Volumes <- VolumeIds, Contents <- Paths, Callers <- Threads,
    Damaged <- Torn, origin <- source, collected <- collectedMap, acked <- accepted,
    kept <- keptMap, whole <- sealed, mounted <- mounted_volumes, given <- givenMap

\* Whatever calls, faults, pool tasks and crashes do, callers see a store: files
\* are collected once, a successful pack moves all of them into one new volume, no
\* volume loses a file, and a good read from a volume whose pack succeeded gives the
\* content the file was added with.
ImplementsStore == Store!Spec
=============================================================================
