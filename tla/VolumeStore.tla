----------------------------- MODULE VolumeStore -----------------------------
(***************************************************************************)
(* What a VolumeManager promises its callers, without locks, pools, temp   *)
(* files or image formats.  A file that was collected waits until one      *)
(* volume keeps everything that waits; what a volume keeps it keeps for    *)
(* good, mounted or not, and across a restart.  A pack that fails may      *)
(* leave a volume that keeps a part of what was waiting.  A read from a    *)
(* volume whose pack succeeded gives the content the inode was issued for; *)
(* from any other volume it may give damaged content instead.              *)
(***************************************************************************)
CONSTANTS Inodes, Volumes, Contents, Callers, None, Damaged

VARIABLES
    origin,     \* the content an inode was issued for, or None
    collected,  \* inodes that wait for the next pack
    acked,      \* inodes whose add was answered with success
    kept,       \* the inodes whose content a volume keeps
    whole,      \* volumes whose pack succeeded
    mounted,    \* volumes that can be read
    given       \* the inode, volume and content of a caller's last call, if a good read

storeVars == <<origin, collected, acked, kept, whole, mounted, given>>

KeptAnywhere == UNION {kept[v] : v \in Volumes}

Init ==
    /\ origin = [i \in Inodes |-> None]
    /\ collected = {}
    /\ acked = {}
    /\ kept = [v \in Volumes |-> {}]
    /\ whole = {}
    /\ mounted = {}
    /\ given = [c \in Callers |-> None]

\* The result of the last call of c is forgotten: it makes another.
Forget(c) == given' = [given EXCEPT ![c] = None]

\* An add begins: its files get inodes nobody had before.
Issue(c) ==
    /\ \E S \in SUBSET {i \in Inodes : origin[i] = None} :
          \E f \in [S -> Contents] :
             origin' = [i \in Inodes |-> IF i \in S THEN f[i] ELSE origin[i]]
    /\ Forget(c)
    /\ UNCHANGED <<collected, acked, kept, whole, mounted>>

\* A success is answered only for what waits or is kept by now.
Answer == /\ acked \subseteq acked'
          /\ acked' \subseteq acked \cup collected' \cup KeptAnywhere

Collect(i) ==
    /\ origin[i] # None
    /\ i \notin collected \cup KeptAnywhere
    /\ collected' = collected \cup {i}
    /\ Answer
    /\ UNCHANGED <<origin, kept, whole, mounted, given>>

\* A pack writes: what a volume keeps grows, by nothing but what was collected.
Write(v) ==
    /\ \E S \in SUBSET (collected \cup KeptAnywhere) :
          kept' = [kept EXCEPT ![v] = @ \cup S]
    /\ UNCHANGED <<origin, collected, acked, whole, mounted, given>>

\* A pack succeeds: everything that waited is in one new volume.
Seal(v) ==
    /\ collected # {}
    /\ collected \subseteq kept[v]
    /\ v \notin whole \cup mounted
    /\ whole' = whole \cup {v}
    /\ mounted' = mounted \cup {v}
    /\ collected' = {}
    /\ Answer
    /\ UNCHANGED <<origin, kept, given>>

Mount(v) ==
    /\ mounted' = mounted \cup {v}
    /\ UNCHANGED <<origin, collected, acked, kept, whole, given>>

Unmount(c, v) ==
    /\ mounted' = mounted \ {v}
    /\ Forget(c)
    /\ UNCHANGED <<origin, collected, acked, kept, whole>>

Read(c, v, i) ==
    /\ i \in kept[v]
    /\ given' = [given EXCEPT ![c] = <<i, v, origin[i]>>]
    /\ UNCHANGED <<origin, collected, acked, kept, whole, mounted>>

\* A volume that a failed pack left may give bytes that no file ever had.
ReadDamaged(c, v, i) ==
    /\ origin[i] # None
    /\ v \notin whole
    /\ given' = [given EXCEPT ![c] = <<i, v, Damaged>>]
    /\ UNCHANGED <<origin, collected, acked, kept, whole, mounted>>

\* Any other call begins.
Begin(c) == Forget(c) /\ UNCHANGED <<origin, collected, acked, kept, whole, mounted>>

\* Only the volumes survive.
Restart ==
    /\ collected' = {}
    /\ acked' = {}
    /\ mounted' = {}
    /\ given' = [c \in Callers |-> None]
    /\ UNCHANGED <<origin, kept, whole>>

Next ==
    \/ \E c \in Callers : Issue(c) \/ Begin(c)
    \/ \E i \in Inodes : Collect(i)
    \/ \E v \in Volumes : Write(v) \/ Seal(v) \/ Mount(v)
    \/ \E c \in Callers, v \in Volumes : Unmount(c, v)
    \/ \E c \in Callers, v \in Volumes, i \in Inodes :
          Read(c, v, i) \/ ReadDamaged(c, v, i)
    \/ Restart

Spec == Init /\ [][Next]_storeVars
=============================================================================
