--------------------------- MODULE ThreadPoolProofs ---------------------------
(***************************************************************************)
(* Theorems about ThreadPool for any number of workers, callers and tasks. *)
(*                                                                         *)
(* EachTaskOnce is inductive once it is known which states go together,    *)
(* which Phases says: what a caller has sent and got where it is, that a   *)
(* worker has a task exactly while it runs one, and that workers leave     *)
(* only a stopped pool with an empty queue.                                *)
(***************************************************************************)
EXTENDS ThreadPool, TLAPS, SequenceTheorems, FiniteSetTheorems

Returned == {"idle", "SUCCESS", "ERROR"}

CallerPhase(c) ==
    /\ caller[c] = "idle" => sent[c] = 0
    /\ caller[c] = "enqueue" => sent[c] < NumTasks
    /\ caller[c] = "get" => got[c] < NumTasks
    /\ caller[c] \in {"get", "SUCCESS", "ERROR"} => sent[c] = NumTasks
    /\ \A k \in 1..got[c] : future[<<c, k>>] = "ok"
    /\ caller[c] \in {"idle", "enqueue", "notify"} => got[c] = 0

WorkerPhase(w) ==
    /\ worker[w] = "running" <=> current[w] # None
    /\ worker[w] = "exited" => stop_ /\ tasks_ = <<>>

LifetimePhase ==
    /\ stop_ <=> lifetime # "alive"
    /\ stop_ => \A c \in Callers : caller[c] \in Returned
    /\ lifetime = "gone" => \A w \in Workers : worker[w] = "exited"

Phases ==
    /\ \A c \in Callers : CallerPhase(c)
    /\ \A w \in Workers : WorkerPhase(w)
    /\ LifetimePhase

Inv == TypeOK /\ Phases /\ EachTaskOnce

-----------------------------------------------------------------------------
(* Facts about the queue. *)

\* The queue of tasks without its head.
LEMMA HeadTail ==
    ASSUME NEW S, NEW s \in Seq(S), s # <<>>
    PROVE  /\ Head(s) \in S /\ Head(s) = s[1] /\ 1 \in DOMAIN s
           /\ Tail(s) \in Seq(S)
           /\ \A k \in DOMAIN Tail(s) : k + 1 \in DOMAIN s /\ Tail(s)[k] = s[k + 1]
           /\ \A k \in DOMAIN s : k = 1 \/ (k - 1 \in DOMAIN Tail(s) /\ Tail(s)[k - 1] = s[k])
  <1>1. Len(s) \in Nat \ {0} /\ DOMAIN s = 1..Len(s)
    BY EmptySeq
  <1>2. Head(s) = s[1] /\ Head(s) \in S
    BY <1>1
  <1>3. Tail(s) \in Seq(S) /\ Len(Tail(s)) = Len(s) - 1
        /\ \A k \in 1..(Len(s) - 1) : Tail(s)[k] = s[k + 1]
    BY <1>1, HeadTailProperties
  <1> QED BY <1>1, <1>2, <1>3

\* A sequence with one more element.
LEMMA Appended ==
    ASSUME NEW S, NEW s \in Seq(S), NEW e \in S
    PROVE  /\ Append(s, e) \in Seq(S)
           /\ DOMAIN Append(s, e) = 1..(Len(s) + 1) /\ DOMAIN s = 1..Len(s) /\ Len(s) \in Nat
           /\ \A k \in DOMAIN s : Append(s, e)[k] = s[k]
           /\ Append(s, e)[Len(s) + 1] = e
  OBVIOUS

-----------------------------------------------------------------------------
(* The invariant. *)

LEMMA InitInv == Init => Inv
  <1> SUFFICES ASSUME Init PROVE Inv
    OBVIOUS
  <1> USE TasksAssumption DEF Init
  <1>1. TypeOK
    <2>1. tasks_ \in Seq(Tasks)
      OBVIOUS
    <2>2. 0 \in 0..NumTasks
      OBVIOUS
    <2> QED BY <2>1, <2>2 DEF TypeOK
  <1>2. Phases
    BY DEF Phases, CallerPhase, WorkerPhase, LifetimePhase, Returned
  <1>3. EachTaskOnce
    <2>1. \A task \in Tasks : ~Enqueued(task) /\ ~Queued(task) /\ ~Running(task) /\ ~Done(task)
      BY DEF Enqueued, Queued, Running, Done, Tasks
    <2> QED BY <2>1 DEF EachTaskOnce
  <1> QED BY <1>1, <1>2, <1>3 DEF Inv

LEMMA NextTypeOK == Inv /\ [Next]_vars => TypeOK'
  <1> SUFFICES ASSUME Inv, [Next]_vars PROVE TypeOK'
    OBVIOUS
  <1> USE TasksAssumption DEF Inv, TypeOK
  <1>1. ASSUME NEW c \in Callers, Call(c) PROVE TypeOK'
    BY <1>1 DEF Call, queueVars, workerVars
  <1>2. ASSUME NEW c \in Callers, Enqueue(c) PROVE TypeOK'
    <2>1. <<c, sent[c] + 1>> \in Tasks /\ sent[c] + 1 \in 0..NumTasks
      BY <1>2 DEF Enqueue, Tasks, Phases, CallerPhase
    <2>2. tasks_' \in Seq(Tasks)
      BY <1>2, <2>1, Appended DEF Enqueue
    <2> QED BY <1>2, <2>1, <2>2 DEF Enqueue, workerVars
  <1>3. ASSUME NEW c \in Callers, NotifyOne(c) PROVE TypeOK'
    BY <1>3 DEF NotifyOne, WakeOne, Waiting, MoreTasks, queueVars
  <1>4. ASSUME NEW c \in Callers, Get(c) PROVE TypeOK'
    <2>1. got[c] + 1 \in 0..NumTasks
      BY <1>4 DEF Get, Phases, CallerPhase
    <2> QED BY <1>4, <2>1 DEF Get, queueVars, workerVars
  <1>5. ASSUME NEW c \in Callers, GetFails(c) PROVE TypeOK'
    BY <1>5 DEF GetFails, queueVars, workerVars
  <1>6. ASSUME NEW w \in Workers, Take(w) PROVE TypeOK'
    <2>1. Head(tasks_) \in Tasks /\ Tail(tasks_) \in Seq(Tasks)
      BY <1>6, HeadTail DEF Take
    <2> QED BY <1>6, <2>1 DEF Take, Pop, callerVars
  <1>7. ASSUME NEW w \in Workers, Wait(w) \/ SpuriousWakeup(w) \/ Leave(w) PROVE TypeOK'
    BY <1>7 DEF Wait, SpuriousWakeup, Leave, queueVars, callerVars
  <1>8. ASSUME NEW w \in Workers, RunTask(w) PROVE TypeOK'
    <2>1. current[w] \in Tasks
      BY <1>8 DEF RunTask, Phases, WorkerPhase
    <2> QED BY <1>8, <2>1 DEF RunTask, queueVars, callerVars
  <1>9. CASE Stop \/ NotifyAll \/ JoinWorkers
    BY <1>9 DEF Stop, NotifyAll, JoinWorkers, WakeAll, queueVars, workerVars, callerVars
  <1>10. CASE UNCHANGED vars
    BY <1>10 DEF vars, queueVars, workerVars, callerVars
  <1> QED BY <1>1, <1>2, <1>3, <1>4, <1>5, <1>6, <1>7, <1>8, <1>9, <1>10
          DEF Next, CallerStep, WorkerStep, OwnerStep, Rest

\* The phases of a caller depend on its own variables and on the futures it got, which
\* do not change any more.
LEMMA CallerPhaseKept ==
    ASSUME NEW c \in Callers, CallerPhase(c),
           caller'[c] = caller[c], sent'[c] = sent[c], got'[c] = got[c],
           \A k \in 1..got[c] : future'[<<c, k>>] = future[<<c, k>>]
    PROVE  CallerPhase(c)'
  BY DEF CallerPhase

LEMMA NextCallerPhase ==
    ASSUME Inv, [Next]_vars, NEW d \in Callers
    PROVE  CallerPhase(d)'
  <1>0. CallerPhase(d) /\ TypeOK
    BY DEF Inv, Phases
  <1> USE TasksAssumption, CallerPhaseKept
  <1>1. ASSUME NEW c \in Callers, Call(c) PROVE CallerPhase(d)'
    BY <1>0, <1>1 DEF Call, CallerPhase, TypeOK
  <1>2. ASSUME NEW c \in Callers, Enqueue(c) PROVE CallerPhase(d)'
    BY <1>0, <1>2 DEF Enqueue, CallerPhase, TypeOK
  <1>3. ASSUME NEW c \in Callers, NotifyOne(c) PROVE CallerPhase(d)'
    BY <1>0, <1>3 DEF NotifyOne, MoreTasks, CallerPhase, TypeOK
  <1>4. ASSUME NEW c \in Callers, Get(c) PROVE CallerPhase(d)'
    <2>1. CASE c # d
      BY <1>0, <1>4, <2>1 DEF Get, CallerPhase, TypeOK
    <2>2. CASE c = d
      <3>1. got'[d] = got[d] + 1 /\ got[d] \in Nat /\ sent'[d] = sent[d] /\ future' = future
            /\ sent[d] = NumTasks
        BY <1>0, <1>4, <2>2 DEF Get, TypeOK, CallerPhase
      <3>2. \A k \in 1..got'[d] : future'[<<d, k>>] = "ok"
        <4>1. future[<<d, got[d] + 1>>] = "ok"
          BY <1>4, <2>2 DEF Get, NextFuture
        <4>2. \A k \in 1..got'[d] : k \in 1..got[d] \/ k = got[d] + 1
          BY <3>1
        <4>3. \A k \in 1..got[d] : future[<<d, k>>] = "ok"
          BY <1>0 DEF CallerPhase
        <4> QED BY <3>1, <4>1, <4>2, <4>3
      <3>3. (caller'[d] = "get" /\ got'[d] < NumTasks) \/ caller'[d] = "SUCCESS"
        BY <1>0, <1>4, <2>2 DEF Get, TypeOK
      <3> QED BY <3>1, <3>2, <3>3 DEF CallerPhase
    <2> QED BY <2>1, <2>2
  <1>5. ASSUME NEW c \in Callers, GetFails(c) PROVE CallerPhase(d)'
    BY <1>0, <1>5 DEF GetFails, CallerPhase, TypeOK
  <1>6. ASSUME NEW w \in Workers, Take(w) \/ Wait(w) \/ SpuriousWakeup(w) \/ Leave(w)
        PROVE  CallerPhase(d)'
    BY <1>0, <1>6 DEF Take, Wait, SpuriousWakeup, Leave, callerVars
  <1>7. ASSUME NEW w \in Workers, RunTask(w) PROVE CallerPhase(d)'
    <2>1. future[current[w]] = "unset" /\ current[w] \in Tasks
      <3>1. current[w] \in Tasks
        BY <1>0, <1>7 DEF RunTask, Inv, Phases, WorkerPhase, TypeOK
      <3>2. Running(current[w])
        BY DEF Running
      <3> QED BY <3>1, <3>2 DEF Inv, EachTaskOnce, Done
    <2>2. \A task \in Tasks : task # current[w] => future'[task] = future[task]
      BY <1>0, <1>7 DEF RunTask, TypeOK
    <2>3. \A k \in 1..got[d] : <<d, k>> \in Tasks /\ future[<<d, k>>] = "ok"
      <3>1. got[d] \in 0..NumTasks
        BY <1>0 DEF TypeOK
      <3>2. 1..got[d] \subseteq 1..NumTasks
        BY <3>1
      <3> QED BY <1>0, <3>2 DEF CallerPhase, Tasks
    <2>4. \A k \in 1..got[d] : future'[<<d, k>>] = future[<<d, k>>]
      BY <2>1, <2>2, <2>3
    <2> QED BY <1>0, <1>7, <2>4 DEF RunTask, callerVars
  <1>8. CASE Stop \/ NotifyAll \/ JoinWorkers \/ UNCHANGED vars
    BY <1>0, <1>8 DEF Stop, NotifyAll, JoinWorkers, vars, callerVars
  <1> QED BY <1>1, <1>2, <1>3, <1>4, <1>5, <1>6, <1>7, <1>8
          DEF Next, CallerStep, WorkerStep, OwnerStep, Rest

LEMMA NextWorkerPhase ==
    ASSUME Inv, [Next]_vars, NEW v \in Workers
    PROVE  WorkerPhase(v)'
  <1>0. WorkerPhase(v) /\ LifetimePhase /\ TypeOK
    BY DEF Inv, Phases
  <1> USE TasksAssumption
  <1>1. ASSUME NEW c \in Callers, Call(c) \/ Get(c) \/ GetFails(c) PROVE WorkerPhase(v)'
    BY <1>0, <1>1 DEF Call, Get, GetFails, WorkerPhase, queueVars, workerVars
  <1>2. ASSUME NEW c \in Callers, Enqueue(c) PROVE WorkerPhase(v)'
    BY <1>0, <1>2 DEF Enqueue, WorkerPhase, workerVars
  <1>3. ASSUME NEW c \in Callers, NotifyOne(c) PROVE WorkerPhase(v)'
    <2>1. UNCHANGED <<stop_, tasks_, current>>
      BY <1>3 DEF NotifyOne, queueVars
    <2>2. worker'[v] = worker[v] \/ (worker[v] = "waiting" /\ worker'[v] = "ready")
      BY <1>0, <1>3 DEF NotifyOne, WakeOne, Waiting, TypeOK
    <2> QED BY <1>0, <2>1, <2>2 DEF WorkerPhase
  <1>4. ASSUME NEW w \in Workers, Take(w) PROVE WorkerPhase(v)'
    <2>1. Head(tasks_) \in Tasks
      BY <1>0, <1>4, HeadTail DEF Take, TypeOK
    <2>2. Head(tasks_) # None
      BY <2>1 DEF Tasks
    <2>3. v # w => current'[v] = current[v] /\ worker'[v] = worker[v]
      BY <1>0, <1>4 DEF Take, TypeOK
    <2>4. v = w => current'[v] = Head(tasks_) /\ worker'[v] = "running"
      BY <1>0, <1>4 DEF Take, TypeOK
    <2>5. tasks_ # <<>>
      BY <1>4 DEF Take
    <2> QED BY <1>0, <2>2, <2>3, <2>4, <2>5 DEF WorkerPhase
  <1>5. ASSUME NEW w \in Workers, Wait(w) \/ SpuriousWakeup(w) \/ Leave(w)
        PROVE  WorkerPhase(v)'
    BY <1>0, <1>5 DEF Wait, SpuriousWakeup, Leave, MayLeave, WorkerPhase, TypeOK, queueVars
  <1>6. ASSUME NEW w \in Workers, RunTask(w) PROVE WorkerPhase(v)'
    BY <1>0, <1>6 DEF RunTask, WorkerPhase, TypeOK, queueVars
  <1>7. CASE Stop
    BY <1>0, <1>7 DEF Stop, WorkerPhase, workerVars
  <1>8. CASE NotifyAll
    BY <1>0, <1>8 DEF NotifyAll, WakeAll, Waiting, WorkerPhase, TypeOK, queueVars
  <1>9. CASE JoinWorkers \/ UNCHANGED vars
    BY <1>0, <1>9 DEF JoinWorkers, WorkerPhase, vars, queueVars, workerVars
  <1> QED BY <1>1, <1>2, <1>3, <1>4, <1>5, <1>6, <1>7, <1>8, <1>9
          DEF Next, CallerStep, WorkerStep, OwnerStep, Rest

LEMMA NextLifetimePhase == Inv /\ [Next]_vars => LifetimePhase'
  <1> SUFFICES ASSUME Inv, [Next]_vars PROVE LifetimePhase'
    OBVIOUS
  <1>0. LifetimePhase /\ TypeOK /\ \A w \in Workers : WorkerPhase(w)
    BY DEF Inv, Phases
  <1>1. ASSUME NEW c \in Callers, Call(c) PROVE LifetimePhase'
    BY <1>0, <1>1 DEF Call, LifetimePhase, queueVars, workerVars
  <1>2. ASSUME NEW c \in Callers, CallerStep(c) PROVE LifetimePhase'
    <2>1. ~stop_ /\ lifetime = "alive"
      BY <1>0, <1>2 DEF CallerStep, Enqueue, NotifyOne, Get, GetFails, LifetimePhase, Returned
    <2>2. UNCHANGED <<stop_, lifetime>>
      BY <1>2 DEF CallerStep, Enqueue, NotifyOne, Get, GetFails, queueVars
    <2> QED BY <2>1, <2>2 DEF LifetimePhase
  <1>3. ASSUME NEW w \in Workers, WorkerStep(w) \/ SpuriousWakeup(w) PROVE LifetimePhase'
    <2>1. UNCHANGED <<stop_, lifetime, caller>>
      BY <1>3 DEF WorkerStep, Take, Wait, Leave, RunTask, SpuriousWakeup, queueVars, callerVars
    <2>2. worker[w] # "exited"
      BY <1>3 DEF WorkerStep, Take, Wait, Leave, RunTask, SpuriousWakeup
    <2> QED BY <1>0, <2>1, <2>2 DEF LifetimePhase
  <1>4. CASE Stop
    BY <1>0, <1>4 DEF Stop, LifetimePhase, Returned, workerVars, callerVars
  <1>5. CASE NotifyAll
    BY <1>0, <1>5 DEF NotifyAll, LifetimePhase, queueVars, callerVars
  <1>6. CASE JoinWorkers
    BY <1>0, <1>6 DEF JoinWorkers, Joined, LifetimePhase, queueVars, workerVars, callerVars
  <1>7. CASE UNCHANGED vars
    BY <1>0, <1>7 DEF LifetimePhase, vars, queueVars, workerVars, callerVars
  <1> QED BY <1>1, <1>2, <1>3, <1>4, <1>5, <1>6, <1>7 DEF Next, OwnerStep, Rest

-----------------------------------------------------------------------------
(* Each task once. *)

\* EachTaskOnce looks at the queue, the workers' tasks, the futures and what was sent.
LEMMA OnceKept ==
    ASSUME EachTaskOnce, UNCHANGED <<tasks_, current, future, sent>>
    PROVE  EachTaskOnce'
  BY DEF EachTaskOnce, Enqueued, Queued, Running, Done

LEMMA EnqueueOnce ==
    ASSUME Inv, NEW c \in Callers, Enqueue(c)
    PROVE  EachTaskOnce'
  <1> DEFINE new == <<c, sent[c] + 1>>
  <1>1. new \in Tasks /\ sent[c] \in Nat
    BY TasksAssumption DEF Inv, TypeOK, Phases, CallerPhase, Enqueue, Tasks
  <1>2. ~Queued(new) /\ ~Running(new) /\ ~Done(new)
    BY <1>1 DEF Inv, EachTaskOnce, Enqueued
  <1>3. UNCHANGED <<current, future>> /\ tasks_' = Append(tasks_, new)
    BY DEF Enqueue, workerVars
  <1>4. \A task \in Tasks : Queued(task)' <=> Queued(task) \/ task = new
    <2> HIDE DEF new
    <2>1. /\ DOMAIN tasks_' = 1..(Len(tasks_) + 1) /\ DOMAIN tasks_ = 1..Len(tasks_)
          /\ Len(tasks_) \in Nat
          /\ \A k \in DOMAIN tasks_ : tasks_'[k] = tasks_[k]
          /\ tasks_'[Len(tasks_) + 1] = new
      BY <1>1, <1>3, Appended DEF Inv, TypeOK
    <2>2. \A k \in DOMAIN tasks_' : k \in DOMAIN tasks_ \/ k = Len(tasks_) + 1
      BY <2>1
    <2>3. Len(tasks_) + 1 \in DOMAIN tasks_' /\ DOMAIN tasks_ \subseteq DOMAIN tasks_'
      BY <2>1
    <2> QED BY <2>1, <2>2, <2>3 DEF Queued
  <1>5. \A task \in Tasks : Enqueued(task)' <=> Enqueued(task) \/ task = new
    <2>1. ASSUME NEW task \in Tasks PROVE Enqueued(task)' <=> Enqueued(task) \/ task = new
      <3>1. task = <<task[1], task[2]>> /\ task[1] \in Callers /\ task[2] \in Nat
        BY DEF Tasks
      <3>2. sent'[task[1]] = IF task[1] = c THEN sent[c] + 1 ELSE sent[task[1]]
        BY <3>1 DEF Enqueue, Inv, TypeOK
      <3>3. CASE task[1] = c
        BY <1>1, <3>1, <3>2, <3>3 DEF Enqueued
      <3>4. CASE task[1] # c
        BY <3>1, <3>2, <3>4 DEF Enqueued
      <3> QED BY <3>3, <3>4
    <2> QED BY <2>1
  <1>6. \A task \in Tasks : (Running(task)' <=> Running(task)) /\ (Done(task)' <=> Done(task))
    BY <1>3 DEF Running, Done
  <1>7. \A j, k \in DOMAIN tasks_' : tasks_'[j] = tasks_'[k] => j = k
    <2>1. \A k \in DOMAIN tasks_' : k \in DOMAIN tasks_ \/ k = Len(tasks_) + 1
      BY <1>1, <1>3, Appended DEF Inv, TypeOK
    <2>2. \A k \in DOMAIN tasks_ : tasks_'[k] = tasks_[k] /\ tasks_[k] # new
      BY <1>1, <1>2, <1>3, Appended DEF Inv, TypeOK, Queued
    <2>3. tasks_'[Len(tasks_) + 1] = new
      BY <1>1, <1>3, Appended DEF Inv, TypeOK
    <2> QED BY <2>1, <2>2, <2>3 DEF Inv, EachTaskOnce
  <1>8. \A v, w \in Workers : current'[v] # None /\ current'[v] = current'[w] => v = w
    BY <1>3 DEF Inv, EachTaskOnce
  <1> HIDE DEF new
  <1>9. \A task \in Tasks :
          /\ Enqueued(task)' <=> Queued(task)' \/ Running(task)' \/ Done(task)'
          /\ ~(Queued(task)' /\ Running(task)')
          /\ ~(Queued(task)' /\ Done(task)')
          /\ ~(Running(task)' /\ Done(task)')
    BY <1>2, <1>4, <1>5, <1>6 DEF Inv, EachTaskOnce
  <1> QED BY <1>7, <1>8, <1>9 DEF EachTaskOnce, Tasks

LEMMA TakeOnce ==
    ASSUME Inv, NEW w \in Workers, Take(w)
    PROVE  EachTaskOnce'
  <1> DEFINE taken == Head(tasks_)
  <1>1. /\ taken \in Tasks /\ taken = tasks_[1] /\ 1 \in DOMAIN tasks_
        /\ tasks_' = Tail(tasks_)
        /\ UNCHANGED <<future, sent>>
        /\ current[w] = None
    BY HeadTail DEF Take, Pop, Inv, TypeOK, Phases, WorkerPhase, callerVars
  <1>2. Queued(taken) /\ ~Running(taken) /\ ~Done(taken)
    BY <1>1 DEF Inv, EachTaskOnce, Queued
  <1>3. /\ \A k \in DOMAIN tasks_' : k + 1 \in DOMAIN tasks_ /\ tasks_'[k] = tasks_[k + 1]
        /\ \A k \in DOMAIN tasks_ : k = 1 \/ (k - 1 \in DOMAIN tasks_' /\ tasks_'[k - 1] = tasks_[k])
        /\ DOMAIN tasks_' \subseteq Nat \ {0}
    BY HeadTail DEF Take, Pop, Inv, TypeOK
  <1>4. \A v \in Workers : current'[v] = IF v = w THEN taken ELSE current[v]
    BY DEF Take, Inv, TypeOK
  <1>5. \A task \in Tasks : Queued(task)' <=> Queued(task) /\ task # taken
    <2>1. ASSUME NEW task \in Tasks, Queued(task)' PROVE Queued(task) /\ task # taken
      <3>1. PICK k \in DOMAIN tasks_' : tasks_'[k] = task
        BY <2>1 DEF Queued
      <3>2. k + 1 \in DOMAIN tasks_ /\ tasks_[k + 1] = task /\ k + 1 # 1
        BY <1>3, <3>1
      <3>3. task # taken
        BY <1>1, <3>2 DEF Inv, EachTaskOnce
      <3> QED BY <3>2, <3>3 DEF Queued
    <2>2. ASSUME NEW task \in Tasks, Queued(task), task # taken PROVE Queued(task)'
      <3>1. PICK k \in DOMAIN tasks_ : tasks_[k] = task
        BY <2>2 DEF Queued
      <3>2. k - 1 \in DOMAIN tasks_' /\ tasks_'[k - 1] = task
        BY <1>1, <1>3, <2>2, <3>1
      <3> QED BY <3>2 DEF Queued
    <2> QED BY <2>1, <2>2
  <1>6. \A task \in Tasks : Running(task)' <=> Running(task) \/ task = taken
    <2>1. None \notin Tasks
      BY TasksAssumption DEF Tasks
    <2> QED BY <1>1, <1>4, <2>1 DEF Running
  <1>7. \A task \in Tasks :
          (Enqueued(task)' <=> Enqueued(task)) /\ (Done(task)' <=> Done(task))
    BY <1>1 DEF Enqueued, Done
  <1>8. \A j, k \in DOMAIN tasks_' : tasks_'[j] = tasks_'[k] => j = k
    BY <1>3 DEF Inv, EachTaskOnce
  <1>9. \A u, v \in Workers : current'[u] # None /\ current'[u] = current'[v] => u = v
    BY <1>1, <1>2, <1>4 DEF Inv, EachTaskOnce, Running
  <1> HIDE DEF taken
  <1>10. \A task \in Tasks :
          /\ Enqueued(task)' <=> Queued(task)' \/ Running(task)' \/ Done(task)'
          /\ ~(Queued(task)' /\ Running(task)')
          /\ ~(Queued(task)' /\ Done(task)')
          /\ ~(Running(task)' /\ Done(task)')
    BY <1>2, <1>5, <1>6, <1>7 DEF Inv, EachTaskOnce
  <1> QED BY <1>8, <1>9, <1>10 DEF EachTaskOnce, Tasks

LEMMA RunTaskOnce ==
    ASSUME Inv, NEW w \in Workers, RunTask(w)
    PROVE  EachTaskOnce'
  <1> DEFINE ended == current[w]
  <1>1. ended \in Tasks /\ UNCHANGED <<tasks_, sent>>
    BY DEF RunTask, Inv, TypeOK, Phases, WorkerPhase, queueVars, callerVars
  <1>2. Running(ended) /\ ~Queued(ended) /\ ~Done(ended)
    BY <1>1 DEF Inv, EachTaskOnce, Running
  <1>3. \A v \in Workers : current'[v] = IF v = w THEN None ELSE current[v]
    BY DEF RunTask, Inv, TypeOK
  <1>4. \A task \in Tasks : Running(task)' <=> Running(task) /\ task # ended
    <2>1. None \notin Tasks
      BY TasksAssumption DEF Tasks
    <2>2. \A v \in Workers : v # w => current[v] # ended
      BY <1>1, <2>1 DEF Inv, EachTaskOnce
    <2> QED BY <1>3, <2>1, <2>2 DEF Running
  <1>5. \A task \in Tasks : Done(task)' <=> Done(task) \/ task = ended
    <2>1. PICK result \in {"ok", "error"} : future' = [future EXCEPT ![ended] = result]
      BY DEF RunTask
    <2>2. \A task \in Tasks : future'[task] = IF task = ended THEN result ELSE future[task]
      BY <2>1 DEF Inv, TypeOK
    <2> QED BY <2>2 DEF Done
  <1>6. \A task \in Tasks :
          (Enqueued(task)' <=> Enqueued(task)) /\ (Queued(task)' <=> Queued(task))
    BY <1>1 DEF Enqueued, Queued
  <1>7. \A j, k \in DOMAIN tasks_' : tasks_'[j] = tasks_'[k] => j = k
    BY <1>1 DEF Inv, EachTaskOnce
  <1>8. \A u, v \in Workers : current'[u] # None /\ current'[u] = current'[v] => u = v
    BY <1>3 DEF Inv, EachTaskOnce
  <1> HIDE DEF ended
  <1>9. \A task \in Tasks :
          /\ Enqueued(task)' <=> Queued(task)' \/ Running(task)' \/ Done(task)'
          /\ ~(Queued(task)' /\ Running(task)')
          /\ ~(Queued(task)' /\ Done(task)')
          /\ ~(Running(task)' /\ Done(task)')
    BY <1>2, <1>4, <1>5, <1>6 DEF Inv, EachTaskOnce
  <1> QED BY <1>7, <1>8, <1>9 DEF EachTaskOnce, Tasks

LEMMA NextOnce == Inv /\ [Next]_vars => EachTaskOnce'
  <1> SUFFICES ASSUME Inv, [Next]_vars PROVE EachTaskOnce'
    OBVIOUS
  <1>0. EachTaskOnce
    BY DEF Inv
  <1>1. ASSUME NEW c \in Callers, Call(c) \/ NotifyOne(c) \/ Get(c) \/ GetFails(c)
        PROVE  EachTaskOnce'
    BY <1>0, <1>1, OnceKept DEF Call, NotifyOne, Get, GetFails, queueVars, workerVars
  <1>2. ASSUME NEW c \in Callers, Enqueue(c) PROVE EachTaskOnce'
    BY <1>2, EnqueueOnce
  <1>3. ASSUME NEW w \in Workers, Wait(w) \/ SpuriousWakeup(w) \/ Leave(w)
        PROVE  EachTaskOnce'
    BY <1>0, <1>3, OnceKept DEF Wait, SpuriousWakeup, Leave, queueVars, callerVars
  <1>4. ASSUME NEW w \in Workers, Take(w) PROVE EachTaskOnce'
    BY <1>4, TakeOnce
  <1>5. ASSUME NEW w \in Workers, RunTask(w) PROVE EachTaskOnce'
    BY <1>5, RunTaskOnce
  <1>6. CASE Stop \/ NotifyAll \/ JoinWorkers \/ UNCHANGED vars
    BY <1>0, <1>6, OnceKept
       DEF Stop, NotifyAll, JoinWorkers, vars, queueVars, workerVars, callerVars
  <1> QED BY <1>1, <1>2, <1>3, <1>4, <1>5, <1>6
          DEF Next, CallerStep, WorkerStep, OwnerStep, Rest

LEMMA NextInv == Inv /\ [Next]_vars => Inv'
  BY NextTypeOK, NextCallerPhase, NextWorkerPhase, NextLifetimePhase, NextOnce DEF Inv, Phases

THEOREM Invariant == Spec => []Inv
  BY InitInv, NextInv, PTL DEF Spec

-----------------------------------------------------------------------------
(* Theorems. *)

\* Every variable of the pool keeps its type; the owner of the queue never reads a future
\* past the last or enqueues one too many.
THEOREM PoolTypeCorrect == Spec => []TypeOK
  BY Invariant, PTL DEF Inv

\* Each enqueued task is queued, running or done, and only one of these, for any number
\* of workers and callers: no task is lost or run twice.
THEOREM TasksRunOnce == Spec => []EachTaskOnce
  BY Invariant, PTL DEF Inv

\* After the pool is destroyed no task is left that could use a destroyed member.
THEOREM MembersSafe == Spec => []MembersOutliveTasks
  <1>1. Inv => MembersOutliveTasks
    <2> SUFFICES ASSUME Inv, lifetime = "gone", NEW task \in Tasks, Enqueued(task)
                 PROVE  Done(task)
      BY DEF MembersOutliveTasks
    <2>1. \A w \in Workers : worker[w] = "exited"
      BY DEF Inv, Phases, LifetimePhase
    <2>2. tasks_ = <<>>
      BY <2>1, WorkersAssumption DEF Inv, Phases, WorkerPhase
    <2>3. \A w \in Workers : current[w] = None
      BY <2>1 DEF Inv, Phases, WorkerPhase
    <2>4. None \notin Tasks
      BY TasksAssumption DEF Tasks
    <2>5. ~Queued(task)
      BY <2>2, EmptySeq DEF Queued
    <2>6. ~Running(task)
      BY <2>3, <2>4 DEF Running
    <2> QED BY <2>5, <2>6 DEF Inv, EachTaskOnce
  <1> QED BY <1>1, Invariant, PTL

-----------------------------------------------------------------------------
(* Wakeups.  NoneSleepsOnWork is preserved by every step alone: a push comes *)
(* with a caller that will notify, a notification turns that caller into an  *)
(* awake worker, a pop takes one of each away.                               *)

LEMMA Counts ==
    ASSUME TypeOK
    PROVE  /\ IsFiniteSet(Awake) /\ Cardinality(Awake) \in Nat
           /\ IsFiniteSet(Notifying) /\ Cardinality(Notifying) \in Nat
           /\ Len(tasks_) \in Nat
  <1>1. IsFiniteSet(Awake) /\ IsFiniteSet(Notifying)
    BY WorkersAssumption, CallersAssumption, FS_Subset DEF Awake, Notifying
  <1> QED BY <1>1, FS_CardinalityType DEF TypeOK

\* Nothing queued: nobody sleeps on it.
LEMMA EmptyQueue ==
    ASSUME tasks_' = <<>>
    PROVE  NoneSleepsOnWork'
  <1>1. Len(tasks_') = 0
    OBVIOUS
  <1>2. IsFiniteSet(Awake') /\ IsFiniteSet(Notifying')
    BY WorkersAssumption, CallersAssumption, FS_Subset DEF Awake, Notifying
  <1>3. Cardinality(Awake') \in Nat /\ Cardinality(Notifying') \in Nat
    BY <1>2, FS_CardinalityType
  <1> QED BY <1>1, <1>3 DEF NoneSleepsOnWork

\* More workers are awake, nothing else changed.
LEMMA MoreAwake ==
    ASSUME TypeOK, TypeOK', NoneSleepsOnWork, NEW w \in Workers,
           worker[w] # "ready", worker' = [worker EXCEPT ![w] = "ready"],
           UNCHANGED <<tasks_, caller>>
    PROVE  NoneSleepsOnWork'
  <1>1. Waiting' \subseteq Waiting
    BY DEF Waiting, TypeOK
  <1>2. Awake' = Awake \cup {w} /\ w \notin Awake /\ Notifying' = Notifying
    BY DEF Awake, Notifying, TypeOK
  <1>3. Cardinality(Awake)' = Cardinality(Awake) + 1
    BY <1>2, Counts, FS_AddElement
  <1> QED BY <1>1, <1>2, <1>3, Counts DEF NoneSleepsOnWork

LEMMA EnqueueNotifies ==
    ASSUME TypeOK, TypeOK', NoneSleepsOnWork, NEW c \in Callers, Enqueue(c)
    PROVE  NoneSleepsOnWork'
  <1>1. Waiting' = Waiting /\ Awake' = Awake
    BY DEF Enqueue, workerVars, Waiting, Awake
  <1>2. Notifying' = Notifying \cup {c} /\ c \notin Notifying
    BY DEF Enqueue, Notifying, TypeOK
  <1>3. Cardinality(Notifying)' = Cardinality(Notifying) + 1
    BY <1>2, Counts, FS_AddElement
  <1>4. Len(tasks_') = Len(tasks_) + 1
    BY DEF Enqueue, TypeOK
  <1> QED BY <1>1, <1>3, <1>4, Counts DEF NoneSleepsOnWork

LEMMA NotifyWakes ==
    ASSUME TypeOK, TypeOK', NoneSleepsOnWork, NEW c \in Callers, NotifyOne(c)
    PROVE  NoneSleepsOnWork'
  <1>1. tasks_' = tasks_
    BY DEF NotifyOne, queueVars
  <1>2. CASE Waiting = {} /\ UNCHANGED worker
    BY <1>2 DEF Waiting, NoneSleepsOnWork
  <1>3. ASSUME NEW w \in Waiting, worker' = [worker EXCEPT ![w] = "ready"]
        PROVE  NoneSleepsOnWork'
    <2>1. Awake' = Awake \cup {w} /\ w \notin Awake
      BY <1>3 DEF Awake, Waiting, TypeOK
    <2>2. Notifying' = Notifying \ {c} /\ c \in Notifying
      BY DEF NotifyOne, Notifying, TypeOK
    <2>3. Cardinality(Awake)' = Cardinality(Awake) + 1
      BY <2>1, Counts, FS_AddElement
    <2>4. Cardinality(Notifying)' = Cardinality(Notifying) - 1
      BY <2>2, Counts, FS_RemoveElement
    <2>5. Waiting # {}
      BY <1>3
    <2> QED BY <1>1, <2>3, <2>4, <2>5, Counts DEF NoneSleepsOnWork
  <1> QED BY <1>2, <1>3 DEF NotifyOne, WakeOne

LEMMA TakeCounts ==
    ASSUME TypeOK, TypeOK', NoneSleepsOnWork, NEW w \in Workers, Take(w)
    PROVE  NoneSleepsOnWork'
  <1>1. Waiting' = Waiting /\ Notifying' = Notifying
    BY DEF Take, callerVars, Waiting, Notifying, TypeOK
  <1>2. Awake' = Awake \ {w} /\ w \in Awake
    BY DEF Take, Awake, TypeOK
  <1>3. Cardinality(Awake)' = Cardinality(Awake) - 1
    BY <1>2, Counts, FS_RemoveElement
  <1>4. Len(tasks_') = Len(tasks_) - 1
    BY HeadTailProperties DEF Take, Pop, TypeOK
  <1> QED BY <1>1, <1>3, <1>4, Counts DEF NoneSleepsOnWork

LEMMA NextNoneSleeps == Inv /\ NoneSleepsOnWork /\ [Next]_vars => NoneSleepsOnWork'
  <1> SUFFICES ASSUME Inv, NoneSleepsOnWork, [Next]_vars PROVE NoneSleepsOnWork'
    OBVIOUS
  <1>0. TypeOK /\ TypeOK'
    BY NextTypeOK DEF Inv
  <1>1. ASSUME NEW c \in Callers, Call(c) \/ Get(c) \/ GetFails(c) PROVE NoneSleepsOnWork'
    <2>1. UNCHANGED <<tasks_, worker>>
      BY <1>1 DEF Call, Get, GetFails, queueVars, workerVars
    <2>2. \A d \in Callers : caller'[d] = "notify" <=> caller[d] = "notify"
      BY <1>0, <1>1 DEF Call, Get, GetFails, TypeOK
    <2> QED BY <2>1, <2>2 DEF NoneSleepsOnWork, Waiting, Awake, Notifying
  <1>2. ASSUME NEW c \in Callers, Enqueue(c) \/ NotifyOne(c) PROVE NoneSleepsOnWork'
    BY <1>0, <1>2, EnqueueNotifies, NotifyWakes
  <1>3. ASSUME NEW w \in Workers, Take(w) PROVE NoneSleepsOnWork'
    BY <1>0, <1>3, TakeCounts
  <1>4. ASSUME NEW w \in Workers, Wait(w) \/ Leave(w) PROVE NoneSleepsOnWork'
    <2>1. tasks_' = <<>>
      BY <1>4 DEF Wait, Leave, MayLeave, queueVars
    <2> QED BY <2>1, EmptyQueue
  <1>5. ASSUME NEW w \in Workers, SpuriousWakeup(w) \/ RunTask(w) PROVE NoneSleepsOnWork'
    <2>1. /\ worker[w] # "ready" /\ worker' = [worker EXCEPT ![w] = "ready"]
          /\ UNCHANGED <<tasks_, caller>>
      BY <1>5 DEF SpuriousWakeup, RunTask, queueVars, callerVars
    <2> QED BY <1>0, <2>1, MoreAwake
  <1>6. CASE NotifyAll
    <2>1. Waiting' = {}
      BY <1>0, <1>6 DEF NotifyAll, WakeAll, Waiting, TypeOK
    <2> QED BY <2>1 DEF NoneSleepsOnWork
  <1>7. CASE Stop \/ JoinWorkers \/ UNCHANGED vars
    <2>1. UNCHANGED <<tasks_, worker, caller>>
      BY <1>7 DEF Stop, JoinWorkers, vars, queueVars, workerVars, callerVars
    <2> QED BY <2>1 DEF NoneSleepsOnWork, Waiting, Awake, Notifying
  <1> QED BY <1>1, <1>2, <1>3, <1>4, <1>5, <1>6, <1>7
          DEF Next, CallerStep, WorkerStep, OwnerStep, Rest

\* No wakeup is lost: a worker sleeps only while each queued task has an awake worker or
\* a caller about to wake one, for any numbers of them.
THEOREM NoLostWakeup == Spec => []NoneSleepsOnWork
  <1>1. Init => NoneSleepsOnWork
    BY DEF Init, NoneSleepsOnWork, Waiting
  <1> QED BY <1>1, Invariant, NextNoneSleeps, PTL DEF Spec

-----------------------------------------------------------------------------
(* The pool VolumeManager relies on.  Inv says what Submit, Finish, Join and *)
(* Close need: nothing of an idle caller is done, a running task is not, a   *)
(* caller's futures before got are good, and a returned caller has sent all. *)

LEMMA PoolInit == Init => Pool!Init
  <1> SUFFICES ASSUME Init PROVE Pool!Init
    OBVIOUS
  <1>1. poolMap = {}
    BY DEF Init, poolMap, Tasks
  <1>2. failedMap = {}
    BY DEF Init, failedMap
  <1>3. callMap = [c \in Callers |-> "idle"]
    BY DEF Init, callMap
  <1> QED BY <1>1, <1>2, <1>3 DEF Init, Pool!Init

\* Nothing the abstract pool has changes.
LEMMA PoolStutters ==
    ASSUME UNCHANGED <<poolMap, failedMap, callMap>>, (lifetime = "gone")' = (lifetime = "gone")
    PROVE  UNCHANGED Pool!poolVars
  BY DEF Pool!poolVars

LEMMA FuturesKept ==
    ASSUME UNCHANGED <<future, lifetime>>, TypeOK,
           \A d \in Callers : caller'[d] = "idle" <=> caller[d] = "idle"
    PROVE  UNCHANGED <<poolMap, failedMap>> /\ (lifetime = "gone")' = (lifetime = "gone")
  <1>1. \A task \in Tasks : task[1] \in Callers
    BY DEF Tasks
  <1> QED BY <1>1 DEF poolMap, failedMap, Done

LEMMA CallSubmits ==
    ASSUME Inv, NEW c \in Callers, Call(c)
    PROVE  Pool!Submit(c)
  <1>1. caller[c] = "idle" /\ lifetime = "alive" /\ UNCHANGED <<future, lifetime>>
    BY DEF Call
  <1>2. \A d \in Callers : caller'[d] = IF d = c THEN "enqueue" ELSE caller[d]
    BY DEF Call, Inv, TypeOK
  <1>3. \A task \in Tasks : task[1] \in Callers
    BY DEF Tasks
  <1>4. \A task \in Tasks : task[1] = c => ~Done(task)
    <2> SUFFICES ASSUME NEW task \in Tasks, task[1] = c PROVE ~Done(task)
      OBVIOUS
    <2>1. sent[c] = 0 /\ task[2] \in Nat \ {0}
      BY <1>1 DEF Inv, Phases, CallerPhase, Tasks
    <2>2. ~Enqueued(task)
      BY <2>1 DEF Enqueued
    <2> QED BY <2>2 DEF Inv, EachTaskOnce
  <1>5. poolMap' = poolMap \cup Pool!TasksOf(c)
    <2>1. Pool!TasksOf(c) = {task \in Tasks : task[1] = c}
      BY DEF Pool!TasksOf, Pool!Tasks, Tasks
    <2>2. \A task \in Tasks : Done(task)' = Done(task)
      BY <1>1 DEF Done
    <2>3. \A task \in Tasks : task \in poolMap' <=> task \in poolMap \/ task[1] = c
      BY <1>2, <1>3, <1>4, <2>2 DEF poolMap
    <2>4. poolMap' \subseteq Tasks /\ poolMap \subseteq Tasks
      BY DEF poolMap, Tasks
    <2> QED BY <2>1, <2>3, <2>4
  <1>6. callMap' = [callMap EXCEPT ![c] = "waiting"]
    BY <1>2 DEF callMap
  <1>7. callMap[c] = "idle" /\ failedMap' = failedMap
    BY <1>1 DEF callMap, failedMap, Tasks
  <1> QED BY <1>1, <1>5, <1>6, <1>7 DEF Pool!Submit

LEMMA RunTaskFinishes ==
    ASSUME Inv, NEW w \in Workers, RunTask(w)
    PROVE  Pool!Worker
  <1> DEFINE ended == current[w]
  <1>1. ended \in Tasks /\ UNCHANGED <<caller, sent, lifetime>>
    BY DEF RunTask, Inv, TypeOK, Phases, WorkerPhase, callerVars
  <1>2. Enqueued(ended) /\ ~Done(ended)
    BY <1>1 DEF Inv, EachTaskOnce, Running
  <1>3. caller[ended[1]] # "idle" /\ ended[1] \in Callers
    <2>1. ended[1] \in Callers /\ ended[2] \in Nat \ {0}
      BY <1>1 DEF Tasks
    <2> QED BY <1>2, <2>1 DEF Enqueued, Inv, Phases, CallerPhase
  <1>4. PICK result \in {"ok", "error"} : future' = [future EXCEPT ![ended] = result]
    BY DEF RunTask
  <1>5. \A task \in Tasks : future'[task] = IF task = ended THEN result ELSE future[task]
    BY <1>4 DEF Inv, TypeOK
  <1> HIDE DEF ended
  <1>6. ended \in poolMap /\ poolMap' = poolMap \ {ended}
    BY <1>1, <1>2, <1>3, <1>5 DEF poolMap, Done, Tasks
  <1>7. failedMap' \in {failedMap, failedMap \cup {ended}}
    <2>1. future[ended] # "error"
      BY <1>2 DEF Done
    <2> QED BY <1>1, <1>5, <2>1 DEF failedMap, Tasks
  <1>8. callMap' = callMap
    BY <1>1 DEF callMap
  <1>9. Pool!Finish(ended)
    BY <1>1, <1>6, <1>7, <1>8 DEF Pool!Finish
  <1> QED BY <1>1, <1>9 DEF Pool!Worker, Pool!Tasks, Tasks

LEMMA GetJoins ==
    ASSUME Inv, NEW c \in Callers, Get(c)
    PROVE  Pool!Join(c) \/ UNCHANGED Pool!poolVars
  <1>1. /\ caller[c] = "get" /\ NextFuture(c) = "ok"
        /\ UNCHANGED <<future, lifetime>>
        /\ got[c] \in Nat /\ got[c] < NumTasks
    BY DEF Get, Inv, TypeOK, Phases, CallerPhase
  <1>2. \A d \in Callers : caller'[d] =
           IF d = c THEN (IF got[c] + 1 < NumTasks THEN "get" ELSE "SUCCESS") ELSE caller[d]
    BY DEF Get, Inv, TypeOK
  <1>3. UNCHANGED <<poolMap, failedMap>> /\ (lifetime = "gone")' = (lifetime = "gone")
    BY <1>1, <1>2, FuturesKept DEF Inv
  <1>4. CASE got[c] + 1 < NumTasks
    <2>1. callMap' = callMap
      BY <1>1, <1>2, <1>4 DEF callMap
    <2> QED BY <1>3, <2>1, PoolStutters
  <1>5. CASE got[c] + 1 = NumTasks
    <2>1. callMap[c] = "waiting" /\ callMap' = [callMap EXCEPT ![c] = "SUCCESS"]
      <3>1. ~(got[c] + 1 < NumTasks)
        BY <1>1, <1>5, TasksAssumption
      <3>2. \A d \in Callers : caller'[d] = IF d = c THEN "SUCCESS" ELSE caller[d]
        BY <1>2, <3>1
      <3> QED BY <1>1, <3>2 DEF callMap
    <2>2. \A k \in 1..NumTasks : future[<<c, k>>] = "ok"
      <3>1. \A k \in 1..NumTasks : k \in 1..got[c] \/ k = got[c] + 1
        BY <1>1, <1>5
      <3> QED BY <1>1, <3>1 DEF NextFuture, Inv, Phases, CallerPhase
    <2>3. \A task \in Pool!TasksOf(c) : future[task] = "ok"
      BY <2>2 DEF Pool!TasksOf, Pool!Tasks
    <2>4. Pool!TasksOf(c) \cap (poolMap \cup failedMap) = {}
      BY <2>3 DEF poolMap, failedMap, Done
    <2> QED BY <1>3, <2>1, <2>4 DEF Pool!Join
  <1> QED BY <1>1, <1>4, <1>5, TasksAssumption

LEMMA GetFailsJoins ==
    ASSUME Inv, NEW c \in Callers, GetFails(c)
    PROVE  Pool!JoinFails(c)
  <1> DEFINE first == <<c, got[c] + 1>>
  <1>1. /\ caller[c] = "get" /\ future[first] = "error"
        /\ UNCHANGED <<future, lifetime>>
        /\ got[c] \in Nat /\ got[c] < NumTasks
    BY DEF GetFails, NextFuture, Inv, TypeOK, Phases, CallerPhase
  <1>2. \A d \in Callers : caller'[d] = IF d = c THEN "ERROR" ELSE caller[d]
    BY DEF GetFails, Inv, TypeOK
  <1>3. UNCHANGED <<poolMap, failedMap>> /\ (lifetime = "gone")' = (lifetime = "gone")
    BY <1>1, <1>2, FuturesKept DEF Inv
  <1>4. callMap[c] = "waiting" /\ callMap' = [callMap EXCEPT ![c] = "ERROR"]
    BY <1>1, <1>2 DEF callMap
  <1>5. first \in failedMap \cap Pool!TasksOf(c) /\ first[2] = got[c] + 1
    BY <1>1, TasksAssumption DEF failedMap, Tasks, Pool!TasksOf, Pool!Tasks
  <1>6. \A other \in poolMap \cap Pool!TasksOf(c) : other[2] > first[2]
    <2> SUFFICES ASSUME NEW other \in poolMap, other \in Pool!TasksOf(c)
                 PROVE  other[2] > got[c] + 1
      BY <1>5
    <2>1. other = <<c, other[2]>> /\ other[2] \in 1..NumTasks /\ future[other] = "unset"
      BY DEF Pool!TasksOf, Pool!Tasks, poolMap, Done
    <2>2. other[2] \notin 1..got[c]
      BY <2>1 DEF Inv, Phases, CallerPhase
    <2>3. other[2] # got[c] + 1
      BY <1>1, <2>1
    <2> QED BY <1>1, <2>1, <2>2, <2>3, TasksAssumption
  <1> QED BY <1>3, <1>4, <1>5, <1>6 DEF Pool!JoinFails

LEMMA JoinCloses ==
    ASSUME Inv, JoinWorkers
    PROVE  Pool!Close
  <1>1. UNCHANGED <<future, caller>> /\ (lifetime = "gone")' = TRUE
    BY DEF JoinWorkers, callerVars
  <1>2. \A c \in Callers : caller[c] \in Returned
    BY DEF JoinWorkers, Inv, Phases, LifetimePhase
  <1>3. \A w \in Workers : worker[w] = "exited"
    BY DEF JoinWorkers, Joined
  <1>4. tasks_ = <<>> /\ \A w \in Workers : current[w] = None
    BY <1>3, WorkersAssumption DEF Inv, Phases, WorkerPhase
  <1>5. \A task \in Tasks : caller[task[1]] # "idle" => Done(task)
    <2> SUFFICES ASSUME NEW task \in Tasks, caller[task[1]] # "idle" PROVE Done(task)
      OBVIOUS
    <2>1. task[1] \in Callers /\ task[2] \in 1..NumTasks
      BY DEF Tasks
    <2>2. Enqueued(task)
      BY <1>2, <2>1 DEF Enqueued, Returned, Inv, Phases, CallerPhase
    <2>3. ~Queued(task)
      BY <1>4, EmptySeq DEF Queued
    <2>4. ~Running(task)
      <3>1. None \notin Tasks
        BY TasksAssumption DEF Tasks
      <3> QED BY <1>4, <3>1 DEF Running
    <2> QED BY <2>2, <2>3, <2>4 DEF Inv, EachTaskOnce
  <1>6. poolMap = {} /\ UNCHANGED <<poolMap, failedMap, callMap>>
    BY <1>1, <1>5 DEF poolMap, failedMap, callMap, Done
  <1>7. \A c \in Callers : callMap[c] # "waiting"
    BY <1>2 DEF callMap, Returned
  <1> QED BY <1>1, <1>6, <1>7 DEF Pool!Close

LEMMA PoolNext == Inv /\ [Next]_vars => [Pool!Next]_(Pool!poolVars)
  <1> SUFFICES ASSUME Inv, [Next]_vars PROVE Pool!Next \/ UNCHANGED Pool!poolVars
    OBVIOUS
  <1>1. ASSUME NEW c \in Callers, Call(c) PROVE Pool!Next
    BY <1>1, CallSubmits DEF Pool!Next
  <1>2. ASSUME NEW c \in Callers, Enqueue(c) \/ NotifyOne(c) PROVE UNCHANGED Pool!poolVars
    <2>1. UNCHANGED <<future, lifetime>>
      BY <1>2 DEF Enqueue, NotifyOne
    <2>2. \A d \in Callers : \/ caller'[d] = caller[d]
                             \/ /\ caller[d] \in {"enqueue", "notify"}
                                /\ caller'[d] \in {"enqueue", "notify", "get"}
      BY <1>2 DEF Enqueue, NotifyOne, Inv, TypeOK
    <2>3. \A d \in Callers : caller'[d] = "idle" <=> caller[d] = "idle"
      BY <2>2
    <2>4. callMap' = callMap
      BY <2>2 DEF callMap
    <2> QED BY <2>1, <2>3, <2>4, FuturesKept, PoolStutters DEF Inv
  <1>3. ASSUME NEW c \in Callers, Get(c) PROVE Pool!Next \/ UNCHANGED Pool!poolVars
    BY <1>3, GetJoins DEF Pool!Next
  <1>4. ASSUME NEW c \in Callers, GetFails(c) PROVE Pool!Next
    BY <1>4, GetFailsJoins DEF Pool!Next
  <1>5. ASSUME NEW w \in Workers, Take(w) \/ Wait(w) \/ SpuriousWakeup(w) \/ Leave(w)
        PROVE  UNCHANGED Pool!poolVars
    <2>1. UNCHANGED <<future, caller, lifetime>>
      BY <1>5 DEF Take, Wait, SpuriousWakeup, Leave, callerVars
    <2> QED BY <2>1, FuturesKept, PoolStutters DEF Inv, callMap
  <1>6. ASSUME NEW w \in Workers, RunTask(w) PROVE Pool!Next
    BY <1>6, RunTaskFinishes DEF Pool!Next
  <1>7. CASE Stop \/ NotifyAll
    <2>1. UNCHANGED <<future, caller>> /\ (lifetime = "gone")' = (lifetime = "gone")
      BY <1>7 DEF Stop, NotifyAll, callerVars
    <2> QED BY <2>1, PoolStutters DEF poolMap, failedMap, callMap, Done
  <1>8. CASE JoinWorkers
    BY <1>8, JoinCloses DEF Pool!Next
  <1>9. CASE UNCHANGED vars
    BY <1>9, PoolStutters DEF vars, callerVars, poolMap, failedMap, callMap, Done
  <1> QED BY <1>1, <1>2, <1>3, <1>4, <1>5, <1>6, <1>7, <1>8, <1>9
          DEF Next, CallerStep, WorkerStep, OwnerStep, Rest

\* Every behaviour of the pool is one of the abstract pool: tasks end once, calls return
\* after all their tasks or at their first error, and it is closed only when nothing is
\* left.  (That every task does end is liveness, and model-checked.)
THEOREM RefinesTaskPool == Spec => Pool!Spec
  BY Invariant, PoolInit, PoolNext, PTL DEF Spec, Pool!Spec

=============================================================================
