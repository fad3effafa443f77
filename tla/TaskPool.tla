------------------------------- MODULE TaskPool -------------------------------
(***************************************************************************)
(* What callers rely on of a thread pool, and what VolumeState assumes of  *)
(* it with its variables pool and failed: a call submits its tasks, every  *)
(* submitted task ends in some order, with or without an error, and the    *)
(* call returns when all of them ended well, or at the first future that   *)
(* holds an error.  A pool is closed only when it has nothing to do.       *)
(***************************************************************************)
EXTENDS Integers

CONSTANTS Callers, NumTasks

VARIABLES
    pool,      \* submitted tasks that have not ended
    failed,    \* tasks that ended with an error
    call,      \* where a call is
    closed     \* the pool is gone

poolVars == <<pool, failed, call, closed>>

Tasks == Callers \X (1..NumTasks)
TasksOf(c) == {task \in Tasks : task[1] = c}

Init ==
    /\ pool = {}
    /\ failed = {}
    /\ call = [c \in Callers |-> "idle"]
    /\ closed = FALSE

Submit(c) ==
    /\ call[c] = "idle"
    /\ ~closed
    /\ call' = [call EXCEPT ![c] = "waiting"]
    /\ pool' = pool \cup TasksOf(c)
    /\ UNCHANGED <<failed, closed>>

Finish(task) ==
    /\ task \in pool
    /\ pool' = pool \ {task}
    /\ failed' \in {failed, failed \cup {task}}
    /\ UNCHANGED <<call, closed>>

Join(c) ==
    /\ call[c] = "waiting"
    /\ TasksOf(c) \cap (pool \cup failed) = {}
    /\ call' = [call EXCEPT ![c] = "SUCCESS"]
    /\ UNCHANGED <<pool, failed, closed>>

\* The tasks after the first one that failed may still be in the pool.
JoinFails(c) ==
    /\ call[c] = "waiting"
    /\ \E task \in failed \cap TasksOf(c) :
          \A other \in pool \cap TasksOf(c) : other[2] > task[2]
    /\ call' = [call EXCEPT ![c] = "ERROR"]
    /\ UNCHANGED <<pool, failed, closed>>

Close ==
    /\ pool = {}
    /\ \A c \in Callers : call[c] # "waiting"
    /\ closed' = TRUE
    /\ UNCHANGED <<pool, failed, call>>

Worker == \E task \in Tasks : Finish(task)

Next ==
    \/ \E c \in Callers : Submit(c) \/ Join(c) \/ JoinFails(c)
    \/ Worker
    \/ Close

Spec == Init /\ [][Next]_poolVars

\* The fairness VolumeManager assumes of its pool and of a call that waits.
FairSpec ==
    /\ Spec
    /\ WF_poolVars(Worker)
    /\ \A c \in Callers : WF_poolVars(Join(c) \/ JoinFails(c))
=============================================================================
