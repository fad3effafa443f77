------------------------------ MODULE ThreadPool ------------------------------
(***************************************************************************)
(* ThreadPool: workers that share a queue under queue_mutex_, sleep on     *)
(* condition_ while there is nothing to do and leave once the pool is      *)
(* stopped and the queue is empty; the calls that enqueue tasks and get    *)
(* their futures in order; and the destructor.                             *)
(*                                                                         *)
(* A caller stands for one round of Enqueue and get of an operation of     *)
(* VolumeManager: the compressions of a batch, the reads or the writes of  *)
(* a pack.  A critical section of queue_mutex_ is one step.  notify_one    *)
(* and notify_all are called after the lock was released, and are steps of *)
(* their own.                                                              *)
(***************************************************************************)
EXTENDS Integers, Sequences, FiniteSets

CONSTANTS
    Workers,     \* workers_
    Callers,
    NumTasks,    \* tasks a caller enqueues
    None         \* no task

\* Zero threads asked for, and hardware_concurrency() unknown: four workers.
ASSUME WorkersAssumption == Workers # {} /\ IsFiniteSet(Workers)
ASSUME CallersAssumption == IsFiniteSet(Callers)
ASSUME TasksAssumption == /\ NumTasks \in Nat \ {0}
                          /\ None \notin Callers \X (1..NumTasks)

VARIABLES
    tasks_,      \* the queue
    stop_,
    worker,      \* where a worker is
    current,     \* the task a worker has taken
    future,      \* what the future of a task holds
    caller,      \* where a caller is
    sent,        \* tasks a caller has enqueued
    got,         \* futures a caller has got
    lifetime     \* of the VolumeManager that owns the pool

queueVars == <<tasks_, stop_>>
workerVars == <<worker, current>>
callerVars == <<caller, sent, got>>
vars == <<queueVars, workerVars, future, callerVars, lifetime>>

Tasks == Callers \X (1..NumTasks)

Init ==
    /\ tasks_ = <<>>
    /\ stop_ = FALSE
    /\ worker = [w \in Workers |-> "ready"]
    /\ current = [w \in Workers |-> None]
    /\ future = [task \in Tasks |-> "unset"]
    /\ caller = [c \in Callers |-> "idle"]
    /\ sent = [c \in Callers |-> 0]
    /\ got = [c \in Callers |-> 0]
    /\ lifetime = "alive"

-----------------------------------------------------------------------------
\* An operation reaches its first Enqueue; the owner does not call the manager it
\* is destroying.
Call(c) ==
    /\ caller[c] = "idle"
    /\ lifetime = "alive"
    /\ caller' = [caller EXCEPT ![c] = "enqueue"]
    /\ UNCHANGED <<queueVars, workerVars, future, sent, got, lifetime>>

Enqueue(c) ==
    /\ caller[c] = "enqueue"
    /\ ~stop_
    /\ tasks_' = Append(tasks_, <<c, sent[c] + 1>>)
    /\ sent' = [sent EXCEPT ![c] = @ + 1]
    /\ caller' = [caller EXCEPT ![c] = "notify"]
    /\ UNCHANGED <<stop_, workerVars, future, got, lifetime>>

Waiting == {w \in Workers : worker[w] = "waiting"}

\* Mutant: workers are told of a task only if it is the only one.
WakeOneIfFirst ==
    \/ Len(tasks_) = 1 /\ \E w \in Waiting : worker' = [worker EXCEPT ![w] = "ready"]
    \/ (Waiting = {} \/ Len(tasks_) # 1) /\ UNCHANGED worker

WakeOne ==
    \/ \E w \in Waiting : worker' = [worker EXCEPT ![w] = "ready"]
    \/ Waiting = {} /\ UNCHANGED worker

\* Mutant: the loop runs once too often.
MoreOrEqual(c) == sent[c] <= NumTasks

MoreTasks(c) == sent[c] < NumTasks

NotifyOne(c) ==
    /\ caller[c] = "notify"
    /\ WakeOne
    /\ caller' = [caller EXCEPT ![c] = IF MoreTasks(c) THEN "enqueue" ELSE "get"]
    /\ UNCHANGED <<queueVars, current, future, sent, got, lifetime>>

NextFuture(c) == future[<<c, got[c] + 1>>]

Get(c) ==
    /\ caller[c] = "get"
    /\ NextFuture(c) = "ok"
    /\ got' = [got EXCEPT ![c] = @ + 1]
    /\ caller' = [caller EXCEPT ![c] = IF got[c] + 1 < NumTasks THEN "get" ELSE "SUCCESS"]
    /\ UNCHANGED <<queueVars, workerVars, future, sent, lifetime>>

\* The first error is returned; the other futures go out of scope.
GetFails(c) ==
    /\ caller[c] = "get"
    /\ NextFuture(c) = "error"
    /\ caller' = [caller EXCEPT ![c] = "ERROR"]
    /\ UNCHANGED <<queueVars, workerVars, future, sent, got, lifetime>>

-----------------------------------------------------------------------------
\* Mutant: the task stays in the queue.
PopForgotten == UNCHANGED tasks_

Pop == tasks_' = Tail(tasks_)

Take(w) ==
    /\ worker[w] = "ready"
    /\ tasks_ # <<>>
    /\ current' = [current EXCEPT ![w] = Head(tasks_)]
    /\ Pop
    /\ worker' = [worker EXCEPT ![w] = "running"]
    /\ UNCHANGED <<stop_, future, callerVars, lifetime>>

Wait(w) ==
    /\ worker[w] = "ready"
    /\ tasks_ = <<>> /\ ~stop_
    /\ worker' = [worker EXCEPT ![w] = "waiting"]
    /\ UNCHANGED <<queueVars, current, future, callerVars, lifetime>>

\* condition_ may wake a worker for no reason; the predicate is tested again.
SpuriousWakeup(w) ==
    /\ worker[w] = "waiting"
    /\ worker' = [worker EXCEPT ![w] = "ready"]
    /\ UNCHANGED <<queueVars, current, future, callerVars, lifetime>>

\* Mutant: a stopped worker leaves, whatever is queued.
MayLeaveAtStop == stop_

MayLeave == stop_ /\ tasks_ = <<>>

Leave(w) ==
    /\ worker[w] = "ready"
    /\ MayLeave
    /\ worker' = [worker EXCEPT ![w] = "exited"]
    /\ UNCHANGED <<queueVars, current, future, callerVars, lifetime>>

\* The task ends; its packaged_task sets the future, whether or not someone holds it.
RunTask(w) ==
    /\ worker[w] = "running"
    /\ \E result \in {"ok", "error"} : future' = [future EXCEPT ![current[w]] = result]
    /\ current' = [current EXCEPT ![w] = None]
    /\ worker' = [worker EXCEPT ![w] = "ready"]
    /\ UNCHANGED <<queueVars, callerVars, lifetime>>

-----------------------------------------------------------------------------
\* ~VolumeManager, after the last call returned: thread_pool_ is its last member,
\* so the pool is destroyed first.
Stop ==
    /\ lifetime = "alive"
    /\ \A c \in Callers : caller[c] \in {"idle", "SUCCESS", "ERROR"}
    /\ stop_' = TRUE
    /\ lifetime' = "stopped"
    /\ UNCHANGED <<tasks_, workerVars, future, callerVars>>

\* Mutant: one worker is told, and none tells the next.
WakeAllButOne == WakeOne

WakeAll == worker' = [w \in Workers |-> IF w \in Waiting THEN "ready" ELSE worker[w]]

NotifyAll ==
    /\ lifetime = "stopped"
    /\ WakeAll
    /\ lifetime' = "joining"
    /\ UNCHANGED <<queueVars, current, future, callerVars>>

\* Mutant: the workers are left to themselves.
Detached == TRUE

Joined == \A w \in Workers : worker[w] = "exited"

\* The workers are joined; the other members, which the tasks use, are destroyed.
JoinWorkers ==
    /\ lifetime = "joining"
    /\ Joined
    /\ lifetime' = "gone"
    /\ UNCHANGED <<queueVars, workerVars, future, callerVars>>

-----------------------------------------------------------------------------
CallerStep(c) == Enqueue(c) \/ NotifyOne(c) \/ Get(c) \/ GetFails(c)
WorkerStep(w) == Take(w) \/ Wait(w) \/ Leave(w) \/ RunTask(w)
OwnerStep == NotifyAll \/ JoinWorkers

\* Callers need not call and the owner may keep the manager for ever.
Rest ==
    /\ tasks_ = <<>>
    /\ \A c \in Callers : caller[c] \in {"idle", "SUCCESS", "ERROR"}
    /\ \/ lifetime = "alive" /\ Waiting = Workers
       \/ lifetime = "gone"
    /\ UNCHANGED vars

Next ==
    \/ \E c \in Callers : Call(c) \/ CallerStep(c)
    \/ \E w \in Workers : WorkerStep(w) \/ SpuriousWakeup(w)
    \/ Stop \/ OwnerStep
    \/ Rest

Spec == Init /\ [][Next]_vars

\* Every thread that can run does; a get that waits is not enabled.
FairSpec ==
    /\ Spec
    /\ \A c \in Callers : WF_vars(CallerStep(c))
    /\ \A w \in Workers : WF_vars(WorkerStep(w))
    /\ WF_vars(OwnerStep)

-----------------------------------------------------------------------------
\* Every variable has its type.
TypeOK ==
    /\ tasks_ \in Seq(Tasks)
    /\ stop_ \in BOOLEAN
    /\ worker \in [Workers -> {"ready", "waiting", "running", "exited"}]
    /\ current \in [Workers -> Tasks \cup {None}]
    /\ future \in [Tasks -> {"unset", "ok", "error"}]
    /\ caller \in [Callers -> {"idle", "enqueue", "notify", "get", "SUCCESS", "ERROR"}]
    /\ sent \in [Callers -> 0..NumTasks]
    /\ got \in [Callers -> 0..NumTasks]
    /\ lifetime \in {"alive", "stopped", "joining", "gone"}

Queued(task) == \E k \in DOMAIN tasks_ : tasks_[k] = task
Running(task) == \E w \in Workers : current[w] = task
Done(task) == future[task] # "unset"
Enqueued(task) == task[2] <= sent[task[1]]

\* An enqueued task is in the queue, with one worker or done, and in one of these
\* only once: none is lost or run twice, however workers, callers and the
\* destructor interleave.
EachTaskOnce ==
    /\ \A task \in Tasks :
          /\ Enqueued(task) <=> Queued(task) \/ Running(task) \/ Done(task)
          /\ ~(Queued(task) /\ Running(task))
          /\ ~(Queued(task) /\ Done(task))
          /\ ~(Running(task) /\ Done(task))
    /\ \A j, k \in DOMAIN tasks_ : tasks_[j] = tasks_[k] => j = k
    /\ \A v, w \in Workers : current[v] # None /\ current[v] = current[w] => v = w

Awake == {w \in Workers : worker[w] = "ready"}
Notifying == {c \in Callers : caller[c] = "notify"}

\* No wakeup is lost although notify_one comes after the unlock: a worker sleeps only
\* while there is for each queued task another worker about to look at the queue, or
\* a caller about to wake one.
NoneSleepsOnWork ==
    Waiting # {} => Len(tasks_) <= Cardinality(Awake) + Cardinality(Notifying)

\* When the members that tasks use are destroyed every task has ended, also those whose
\* futures were dropped by a call that returned an error.
MembersOutliveTasks ==
    lifetime = "gone" => \A task \in Tasks : Enqueued(task) => Done(task)

\* The destructor returns.
Closes == lifetime = "stopped" ~> lifetime = "gone"

-----------------------------------------------------------------------------
\* The pool as VolumeState has it: tasks count from the moment their call begins to
\* enqueue them, and do not count once their futures are set.
poolMap == {task \in Tasks : caller[task[1]] # "idle" /\ ~Done(task)}
failedMap == {task \in Tasks : future[task] = "error"}
callMap == [c \in Callers |-> IF caller[c] \in {"enqueue", "notify", "get"}
                              THEN "waiting" ELSE caller[c]]

Pool == INSTANCE TaskPool WITH
    pool <- poolMap, failed <- failedMap, call <- callMap, closed <- lifetime = "gone"

\* Queue, condition variable and stop flag give the pool VolumeManager relies on: every
\* task of a call ends, a call returns after its tasks or at their first error.
ImplementsTaskPool == Pool!FairSpec
=============================================================================
