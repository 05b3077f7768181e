-------------------------- MODULE ThreadPoolProofs --------------------------
(***************************************************************************)
(* For any number of workers, callers, tasks and places: the pool's        *)
(* counters are exact, no wake-up is lost while it runs, Stop returns only *)
(* when every accepted task is done, and the pool implements a WorkPool.   *)
(***************************************************************************)
EXTENDS ThreadPool, Lemmas, SequenceTheorems

InWaitStates == {"waiting", "woken"}

(* Only the caller that holds the static mutex is inside Start; nothing    *)
(* has begun before Start.                                                 *)
OneStarter ==
  /\ \A c \in Callers :
       caller[c] \in {"created", "starting"} => s_mutex = c /\ instance
  /\ \A c \in Callers : caller[c] = "created" => next_start = 0
  /\ ~instance => next_start = 0
  /\ next_start = 0 =>
       /\ ~isrunning
       /\ \A c \in Callers : caller[c] \notin InWaitStates
       /\ \A w \in Workers : worker[w] = "unstarted"
  /\ next_start # 0 /\ s_mutex = NoCall => next_start = ThreadCnt + 1

(* Only those who submit a task wait for room; the join loop is inside its *)
(* range, and runs after the pool was stopped.                             *)
CallsFit ==
  /\ \A c \in Callers : caller[c] \in InWaitStates => call[c] \in Tasks
  /\ caller[Main] = "blocked" => next_join \in Workers
  /\ next_join # 0 => ~isrunning /\ next_start = ThreadCnt + 1

(* The pool's own part of the invariant. *)
Shape == TypeOK /\ OneStarter /\ CallsFit

(* What is promised of each condition variable: its count is exact and no  *)
(* wake-up of it is lost.                                                  *)
WorkersCovered ==
  /\ thread_wait_nums = Cardinality(InWait(worker, Workers))
  /\ SleepingWorkersCovered
ProducersCovered ==
  /\ producer_wait_nums = Cardinality(InWait(caller, Callers))
  /\ SleepingProducersCovered
Covered == WorkersCovered /\ ProducersCovered

(* The threads: what Join relies on. *)
ThreadsFit ==
  /\ \A w \in Workers :
       w < next_start => flag[w] \/ worker[w] \in {"failed", "ended"}
  /\ \A w \in Workers : w < next_join => worker[w] \in {"failed", "ended"}
  /\ \A w \in Workers :
       worker[w] \in {"left", "ended"} => ~isrunning /\ task_queue = <<>>
  /\ Cardinality({w \in Workers : worker[w] = "failed"}) <= MaxCreateFailures

(* Every accepted task that is not done is in the queue or in a worker. *)
NothingDropped ==
  /\ \A t \in Tasks :
       status[t] = "queued" => \E i \in 1 .. Len(task_queue) : task_queue[i] = t
  /\ \A t \in Tasks :
       status[t] = "running" => \E w \in Workers : task[w] = t

IInv == Shape /\ Covered /\ ThreadsFit /\ NothingDropped

USE ThreadPoolAssumption

-----------------------------------------------------------------------------
(* The state before the first call. *)
LEMMA InitShape == Init => Shape
  <1> SUFFICES ASSUME Init PROVE Shape
    OBVIOUS
  <1> USE DEF Init, Workers, InWaitStates, WorkerStates, CallerStates
  <1>1. task_queue \in Seq(Tasks) /\ Len(task_queue) <= Cap
    OBVIOUS
  <1>2. /\ \A c \in Callers : caller[c] = "outside" <=> call[c] = NoCall
        /\ \A w \in Workers : worker[w] = "running" <=> task[w] # NoCall
    OBVIOUS
  <1>3. /\ instance \in BOOLEAN /\ isrunning \in BOOLEAN
        /\ flag \in [Workers -> BOOLEAN]
    BY Zenon
  <1>4. TypeOK
    BY <1>1, <1>2, <1>3 DEF TypeOK
  <1>5. OneStarter
    BY DEF OneStarter
  <1>6. CallsFit
    BY DEF CallsFit
  <1> QED
    BY <1>4, <1>5, <1>6 DEF Shape

(* The threads inside Wait can be counted. *)
LEMMA InWaitFinite ==
  ASSUME NEW S, IsFiniteSet(S), NEW st
  PROVE  /\ IsFiniteSet(InWait(st, S))
         /\ Cardinality(InWait(st, S)) \in Nat
  <1>1. InWait(st, S) \subseteq S
    BY DEF InWait, Waiting, Woken
  <1> QED
    BY <1>1, FS_Subset, FS_CardinalityType

(* The pool has finitely many threads. *)
LEMMA WorkersFinite == IsFiniteSet(Workers)
  BY FS_Interval DEF Workers

(* The steps of GetInstance and Start. *)
LEMMA GetInstanceShape ==
  ASSUME Shape, NEW c \in Callers, GetInstance(c)
  PROVE  Shape'
  <1> USE DEF Shape, TypeOK, OneStarter, CallsFit, Workers, InWaitStates,
             WorkerStates, CallerStates, CallerAt, poolVars, threadVars
  <1>1. CASE GetInstanceFast(c)
    BY <1>1 DEF GetInstanceFast
  <1>2. CASE GetInstanceCreate(c)
    BY <1>2 DEF GetInstanceCreate
  <1>3. CASE StartRunning(c)
    BY <1>3 DEF StartRunning
  <1>4. CASE StartCreate(c)
    BY <1>4 DEF StartCreate
  <1>5. CASE StartCreateFails(c)
    BY <1>5 DEF StartCreateFails
  <1>6. CASE StartMark(c)
    BY <1>6 DEF StartMark
  <1>7. CASE StartDone(c)
    BY <1>7 DEF StartDone
  <1> QED
    BY <1>1, <1>2, <1>3, <1>4, <1>5, <1>6, <1>7 DEF GetInstance

(* The steps of Enqueue.  The counter is a number by CountersExact. *)
LEMMA EnqueueShape ==
  ASSUME Shape, thread_wait_nums' \in Nat, producer_wait_nums' \in Nat,
         NEW c \in Callers, Enqueue(c) \/ EnqueueResume(c)
  PROVE  Shape'
  <1> USE DEF Shape, OneStarter, CallsFit, Workers, InWaitStates,
             CallerStates, CallerAt, poolVars, threadVars
  <1>0. /\ call[c] \in Tasks
        /\ caller[c] \in {"ready", "woken"}
        /\ next_start # 0 \/ caller[c] = "ready"
    BY DEF Enqueue, EnqueueResume, TypeOK
  <1>1. CASE EnqueueRefuse(c)
    <2>1. TypeOK'
      BY <1>0, <1>1 DEF EnqueueRefuse, TypeOK, WorkerStates
    <2> QED
      BY <1>0, <1>1, <2>1 DEF EnqueueRefuse, TypeOK
  <1>2. CASE EnqueueSleep(c) /\ next_start # 0
    <2>1. TypeOK'
      BY <1>0, <1>2 DEF EnqueueSleep, TypeOK, WorkerStates
    <2> QED
      BY <1>0, <1>2, <2>1 DEF EnqueueSleep, TypeOK
  <1>3. CASE isrunning /\ Len(task_queue) < Cap /\ Store(c)
    <2>1. worker' \in Signalled(worker, Workers) \/ worker' = worker
      BY <1>3 DEF Store, NotifyWorker
    <2>2. PICK w \in Workers :
            worker' = worker \/ (worker[w] = "waiting"
                                 /\ worker' = [worker EXCEPT ![w] = "woken"])
      BY <2>1 DEF Signalled, Waiting
    <2>3. TypeOK'
      BY <1>0, <1>3, <2>2 DEF Store, TypeOK, WorkerStates
    <2> QED
      BY <1>0, <1>3, <2>2, <2>3 DEF Store, TypeOK
  <1> QED
    BY <1>0, <1>1, <1>2, <1>3 DEF Enqueue, EnqueueResume, EnqueueAccept

(* The steps of a pool thread. *)
LEMMA WorkerShape ==
  ASSUME Shape, thread_wait_nums' \in Nat, producer_wait_nums' \in Nat,
         NEW w \in Workers, WorkerStep(w)
  PROVE  Shape'
  <1> USE DEF Shape, OneStarter, CallsFit, Workers, InWaitStates,
             WorkerStates, poolVars, threadVars
  <1>0. next_start # 0
    BY DEF WorkerStep, HandlerTask, RunTask, RoutineEnd
  <1>1. CASE HandlerSleep(w) /\ worker[w] \in {"ready", "woken"}
    <2>1. TypeOK'
      BY <1>1 DEF HandlerSleep, TypeOK
    <2> QED
      BY <1>0, <1>1, <2>1 DEF HandlerSleep, TypeOK
  <1>2. CASE HandlerExit(w) /\ worker[w] \in {"ready", "woken"}
    <2>1. TypeOK'
      BY <1>2 DEF HandlerExit, TypeOK
    <2> QED
      BY <1>0, <1>2, <2>1 DEF HandlerExit, TypeOK
  <1>3. CASE HandlerTake(w) /\ worker[w] \in {"ready", "woken"}
    <2>1. caller' \in Signalled(caller, Callers) \/ caller' = caller
      BY <1>3 DEF HandlerTake, NotifyProducer
    <2>2. PICK c \in Callers :
            caller' = caller \/ (caller[c] = "waiting"
                                 /\ caller' = [caller EXCEPT ![c] = "woken"])
      BY <2>1 DEF Signalled, Waiting
    <2>3. /\ Head(task_queue) \in Tasks
          /\ task_queue' \in Seq(Tasks)
          /\ Len(task_queue') <= Cap
      BY <1>3, HeadTailProperties DEF HandlerTake, TypeOK
    <2>4. TypeOK'
      BY <1>3, <2>2, <2>3 DEF HandlerTake, TypeOK, CallerStates
    <2> QED
      BY <1>0, <1>3, <2>2, <2>4 DEF HandlerTake, TypeOK
  <1>4. CASE RunTask(w)
    <2>1. TypeOK'
      BY <1>4 DEF RunTask, TypeOK
    <2> QED
      BY <1>0, <1>4, <2>1 DEF RunTask, TypeOK
  <1>5. CASE RoutineEnd(w)
    <2>1. TypeOK'
      BY <1>5 DEF RoutineEnd, TypeOK
    <2> QED
      BY <1>0, <1>5, <2>1 DEF RoutineEnd, TypeOK
  <1> QED
    BY <1>1, <1>2, <1>3, <1>4, <1>5 DEF WorkerStep, HandlerTask

(* The steps of Stop and Join. *)
LEMMA StopShape ==
  ASSUME Shape, Stop
  PROVE  Shape'
  <1> USE DEF Shape, OneStarter, CallsFit, Workers, InWaitStates,
             WorkerStates, CallerStates, CallerAt, poolVars, threadVars
  <1>1. CASE StopIgnored
    BY <1>1 DEF StopIgnored, TypeOK
  <1>2. CASE StopBegin
    <2>1. /\ worker' \in [Workers -> WorkerStates]
          /\ \A w \in Workers : worker'[w] = "running" <=> worker[w] = "running"
      BY <1>2 DEF StopBegin, TypeOK, Broadcast, Waiting
    <2>2. /\ caller' \in [Callers -> CallerStates]
          /\ caller'[Main] = "joining"
          /\ \A c \in Callers \ {Main} :
               caller'[c] = caller[c] \/ (caller[c] = "waiting" /\ caller'[c] = "woken")
      BY <1>2 DEF StopBegin, TypeOK, Broadcast, Waiting
    <2>3. TypeOK'
      <3>1. \A c \in Callers : caller'[c] = "outside" <=> call'[c] = NoCall
        BY <1>2, <2>2 DEF StopBegin, TypeOK
      <3>2. \A w \in Workers : worker'[w] = "running" <=> task'[w] # NoCall
        BY <1>2, <2>1 DEF StopBegin, TypeOK
      <3>3. next_join' = 1 /\ isrunning' = FALSE
        BY <1>2 DEF StopBegin
      <3>5. isrunning' \in BOOLEAN
        BY <3>3, Zenon
      <3>6. next_join' \in 0 .. ThreadCnt + 1
        BY <3>3
      <3>4. UNCHANGED <<instance, s_mutex, next_start, task_queue, task, flag,
                        joined, thread_wait_nums, producer_wait_nums, call,
                        status>>
        BY <1>2 DEF StopBegin
      <3> QED
        BY <2>1, <2>2, <3>1, <3>2, <3>4, <3>5, <3>6 DEF TypeOK
    <2>4. next_start = ThreadCnt + 1 /\ next_start # 0
      BY <1>2 DEF StopBegin, TypeOK
    <2>5. OneStarter'
      BY <1>2, <2>2, <2>4 DEF StopBegin, TypeOK
    <2>6. CallsFit'
      <3>1. \A c \in Callers : caller'[c] \in InWaitStates => call'[c] \in Tasks
        BY <1>2, <2>2 DEF StopBegin
      <3>2. caller'[Main] # "blocked" /\ ~isrunning' /\ next_start' = ThreadCnt + 1
        BY <1>2, <2>2, <2>4 DEF StopBegin
      <3> QED
        BY <3>1, <3>2
    <2> QED
      BY <2>3, <2>5, <2>6
  <1>3. CASE JoinSkip
    BY <1>3 DEF JoinSkip, TypeOK
  <1>4. CASE JoinBlock
    BY <1>4 DEF JoinBlock, TypeOK
  <1>5. CASE JoinReturn
    BY <1>5 DEF JoinReturn, TypeOK
  <1>6. CASE StopDone
    BY <1>6 DEF StopDone, TypeOK
  <1> QED
    BY <1>1, <1>2, <1>3, <1>4, <1>5, <1>6 DEF Stop

(* Every step keeps the shape, the counters being numbers afterwards. *)
LEMMA NextShape ==
  ASSUME Shape, CountersExact', [Next]_vars
  PROVE  Shape'
  <1>1. thread_wait_nums' \in Nat /\ producer_wait_nums' \in Nat
    BY InWaitFinite, WorkersFinite DEF CountersExact
  <1> USE DEF Shape, OneStarter, CallsFit, Workers, InWaitStates,
             WorkerStates, CallerStates, CallerAt, poolVars, threadVars
  <1>2. ASSUME NEW c \in Callers, NEW t \in Tasks, CallEnqueue(c, t)
        PROVE  Shape'
    BY <1>2 DEF CallEnqueue, TypeOK
  <1>3. CASE CallStop
    BY <1>3 DEF CallStop, TypeOK
  <1>4. ASSUME NEW c \in Callers, CallerStep(c) PROVE Shape'
    BY <1>1, <1>4, GetInstanceShape, EnqueueShape, StopShape DEF CallerStep
  <1>5. ASSUME NEW w \in Workers, WorkerStep(w) PROVE Shape'
    BY <1>1, <1>5, WorkerShape
  <1>6. ASSUME NEW w \in Workers, SpuriousWorker(w) PROVE Shape'
    BY <1>6 DEF SpuriousWorker, TypeOK
  <1>7. ASSUME NEW c \in Callers, SpuriousProducer(c) PROVE Shape'
    BY <1>7 DEF SpuriousProducer, TypeOK
  <1>8. CASE UNCHANGED vars
    BY <1>8 DEF vars, TypeOK
  <1> QED
    BY <1>2, <1>3, <1>4, <1>5, <1>6, <1>7, <1>8 DEF Next

-----------------------------------------------------------------------------
(* Who is inside Wait. *)

(* Threads that neither enter nor leave Wait change nothing. *)
LEMMA Unmoved ==
  ASSUME NEW S, NEW st, NEW st2,
         \A t \in S : st2[t] = st[t] \/ (/\ st[t] \notin InWaitStates
                                        /\ st2[t] \notin InWaitStates)
  PROVE  /\ Waiting(st2, S) = Waiting(st, S)
         /\ Woken(st2, S) = Woken(st, S)
         /\ InWait(st2, S) = InWait(st, S)
  BY DEF Waiting, Woken, InWait, InWaitStates

(* One thread that enters or leaves Wait moves the count by one. *)
LEMMA MoveInWait ==
  ASSUME NEW S, IsFiniteSet(S), NEW st, NEW st2, NEW t \in S,
         \A u \in S \ {t} : st2[u] = st[u]
  PROVE  LET n == Cardinality(InWait(st, S))
             m == Cardinality(InWait(st2, S))
         IN  /\ st[t] \in InWaitStates /\ st2[t] \notin InWaitStates => m = n - 1
             /\ st[t] \notin InWaitStates /\ st2[t] \in InWaitStates => m = n + 1
             /\ (st[t] \in InWaitStates <=> st2[t] \in InWaitStates) => m = n
  <1>1. /\ IsFiniteSet(InWait(st, S))
        /\ IsFiniteSet(InWait(st2, S))
    BY InWaitFinite
  <1> USE DEF InWaitStates
  <1>2. ASSUME st[t] \in InWaitStates, st2[t] \notin InWaitStates
        PROVE  /\ InWait(st2, S) = InWait(st, S) \ {t}
               /\ t \in InWait(st, S)
    BY <1>2 DEF InWait, Waiting, Woken
  <1>3. ASSUME st[t] \notin InWaitStates, st2[t] \in InWaitStates
        PROVE  /\ InWait(st2, S) = InWait(st, S) \cup {t}
               /\ t \notin InWait(st, S)
    BY <1>3 DEF InWait, Waiting, Woken
  <1>4. ASSUME st[t] \in InWaitStates <=> st2[t] \in InWaitStates
        PROVE  InWait(st2, S) = InWait(st, S)
    BY <1>4 DEF InWait, Waiting, Woken
  <1> HIDE DEF InWaitStates
  <1> QED
    BY <1>1, <1>2, <1>3, <1>4, FS_AddElement, FS_RemoveElement

(* A signal or a broadcast wakes threads; nobody leaves Wait by it. *)
LEMMA WokenStayInWait ==
  ASSUME NEW S, NEW st, NEW st2,
         \A t \in S : st2[t] = st[t] \/ (st[t] = "waiting" /\ st2[t] = "woken")
  PROVE  InWait(st2, S) = InWait(st, S)
  BY DEF Waiting, Woken, InWait

(* If(n > 0) Notify() with an exact count n: a sleeper, if there is one,   *)
(* is woken.                                                               *)
LEMMA CountedNotify ==
  ASSUME NEW S, IsFiniteSet(S), NEW States, "woken" \in States,
         NEW st \in [S -> States], NEW st2,
         NEW n, n = Cardinality(InWait(st, S)),
         st2 \in (IF n > 0 THEN Signalled(st, S) ELSE {st})
  PROVE  /\ st2 \in [S -> States]
         /\ \A t \in S : st2[t] = st[t] \/ (st[t] = "waiting" /\ st2[t] = "woken")
         /\ InWait(st2, S) = InWait(st, S)
         /\ Waiting(st, S) = {} => st2 = st
         /\ Waiting(st, S) # {} =>
              Cardinality(Woken(st2, S)) = Cardinality(Woken(st, S)) + 1
  <1>1. Waiting(st, S) # {} => n > 0
    <2>1. SUFFICES ASSUME Waiting(st, S) # {} PROVE n # 0 /\ n \in Nat
      OBVIOUS
    <2>2. InWait(st, S) # {} /\ IsFiniteSet(InWait(st, S)) /\ n \in Nat
      BY <2>1, InWaitFinite DEF InWait
    <2> QED
      BY <2>2, FS_EmptySet
  <1>2. Waiting(st, S) = {} => st2 = st
    BY DEF Signalled
  <1>3. Waiting(st, S) # {} => st2 \in Signalled(st, S)
    BY <1>1
  <1>4. CASE Waiting(st, S) = {}
    BY <1>2, <1>4
  <1>5. CASE Waiting(st, S) # {}
    <2>1. PICK t \in S : /\ st[t] = "waiting"
                          /\ st2 = [st EXCEPT ![t] = "woken"]
      BY <1>3, <1>5 DEF Signalled, Waiting
    <2>2. /\ st2 \in [S -> States]
          /\ st2[t] = "woken" /\ \A u \in S \ {t} : st2[u] = st[u]
      BY <2>1
    <2>3. Cardinality(Woken(st2, S)) = Cardinality(Woken(st, S)) + 1
      BY <2>1, <2>2, MoveOne
    <2> QED
      BY <1>5, <2>1, <2>2, <2>3, WokenStayInWait
  <1> QED
    BY <1>4, <1>5

-----------------------------------------------------------------------------
(* The counters are exact and no wake-up is lost. *)

(* Before the first call nobody waits and both counters are zero. *)
LEMMA InitCovered == Init => Covered
  <1> SUFFICES ASSUME Init PROVE Covered
    OBVIOUS
  <1>1. /\ InWait(worker, Workers) = {} /\ Waiting(worker, Workers) = {}
        /\ InWait(caller, Callers) = {} /\ Waiting(caller, Callers) = {}
    BY DEF Init, InWait, Waiting, Woken
  <1>2. Cardinality(InWait(worker, Workers)) = 0
    BY <1>1, FS_EmptySet
  <1>3. Cardinality(InWait(caller, Callers)) = 0
    BY <1>1, FS_EmptySet
  <1>4. thread_wait_nums = 0 /\ producer_wait_nums = 0
    BY DEF Init
  <1> QED
    BY <1>1, <1>2, <1>3, <1>4
       DEF Covered, WorkersCovered, ProducersCovered, SleepingWorkersCovered,
           SleepingProducersCovered

(* A step that leaves the queue, the running flag and those in Wait alone. *)
LEMMA WorkersQuiet ==
  ASSUME WorkersCovered,
         UNCHANGED <<thread_wait_nums, task_queue, isrunning>>,
         \A w \in Workers :
           worker'[w] = worker[w] \/ (/\ worker[w] \notin InWaitStates
                                      /\ worker'[w] \notin InWaitStates)
  PROVE  WorkersCovered'
  <1>1. /\ Waiting(worker', Workers) = Waiting(worker, Workers)
        /\ Woken(worker', Workers) = Woken(worker, Workers)
        /\ InWait(worker', Workers) = InWait(worker, Workers)
    BY Unmoved
  <1> QED
    BY <1>1 DEF WorkersCovered, SleepingWorkersCovered

(* The same for the callers and their condition variable. *)
LEMMA ProducersQuiet ==
  ASSUME ProducersCovered,
         UNCHANGED <<producer_wait_nums, task_queue, isrunning>>,
         \A c \in Callers :
           caller'[c] = caller[c] \/ (/\ caller[c] \notin InWaitStates
                                      /\ caller'[c] \notin InWaitStates)
  PROVE  ProducersCovered'
  <1>1. /\ Waiting(caller', Callers) = Waiting(caller, Callers)
        /\ Woken(caller', Callers) = Woken(caller, Callers)
        /\ InWait(caller', Callers) = InWait(caller, Callers)
    BY Unmoved
  <1> QED
    BY <1>1 DEF ProducersCovered, SleepingProducersCovered

(* Nobody waits before Start has set the pool running. *)
LEMMA GetInstanceCovered ==
  ASSUME Shape, Covered, NEW c \in Callers, GetInstance(c)
  PROVE  Covered'
  <1> USE DEF InWaitStates
  <1>0. caller \in [Callers -> CallerStates] /\ worker \in [Workers -> WorkerStates]
    BY DEF Shape, TypeOK
  <1>1. CASE StartRunning(c)
    <2>1. next_start = 0
      BY <1>1 DEF StartRunning, Shape, OneStarter
    <2>2. /\ \A w \in Workers : worker'[w] \notin InWaitStates
                               /\ worker[w] \notin InWaitStates
          /\ \A b \in Callers : caller'[b] \notin InWaitStates
                               /\ caller[b] \notin InWaitStates
      BY <1>0, <1>1, <2>1 DEF StartRunning, Shape, OneStarter, CallerAt
    <2>3. /\ Waiting(worker', Workers) = {} /\ Waiting(caller', Callers) = {}
      BY <2>2 DEF Waiting
    <2>4. /\ InWait(worker', Workers) = InWait(worker, Workers)
          /\ InWait(caller', Callers) = InWait(caller, Callers)
      BY <2>2, Unmoved
    <2>5. UNCHANGED <<thread_wait_nums, producer_wait_nums>>
      BY <1>1 DEF StartRunning
    <2> QED
      BY <2>3, <2>4, <2>5
         DEF Covered, WorkersCovered, ProducersCovered, SleepingWorkersCovered,
             SleepingProducersCovered
  <1>2. CASE ~StartRunning(c)
    <2>1. UNCHANGED <<thread_wait_nums, producer_wait_nums, task_queue, isrunning>>
      BY <1>2 DEF GetInstance, GetInstanceFast, GetInstanceCreate, StartCreate,
                  StartCreateFails, StartMark, StartDone, poolVars
    <2>2. \A w \in Workers :
            worker'[w] = worker[w] \/ (/\ worker[w] \notin InWaitStates
                                       /\ worker'[w] \notin InWaitStates)
      BY <1>0, <1>2 DEF GetInstance, GetInstanceFast, GetInstanceCreate,
                        StartCreate, StartCreateFails, StartMark, StartDone
    <2>3. \A b \in Callers :
            caller'[b] = caller[b] \/ (/\ caller[b] \notin InWaitStates
                                       /\ caller'[b] \notin InWaitStates)
      BY <1>0, <1>2 DEF GetInstance, GetInstanceFast, GetInstanceCreate,
                        StartCreate, StartCreateFails, StartMark, StartDone,
                        CallerAt
    <2> QED
      BY <2>1, <2>2, <2>3, WorkersQuiet, ProducersQuiet DEF Covered
  <1> QED
    BY <1>1, <1>2

(* Enqueue: a stored task brings a woken worker with it, and a producer    *)
(* that takes a place leaves Wait.                                         *)
LEMMA EnqueueCovered ==
  ASSUME Shape, Covered, NEW c \in Callers, Enqueue(c) \/ EnqueueResume(c)
  PROVE  Covered'
  <1> DEFINE Was == Cardinality(InWait(caller, Callers))
             Is  == Cardinality(InWait(caller', Callers))
  <1>0. /\ caller \in [Callers -> CallerStates]
        /\ worker \in [Workers -> WorkerStates]
        /\ caller[c] \in {"ready", "woken"}
        /\ task_queue \in Seq(Tasks) /\ call[c] \in Tasks
        /\ Cap \in Nat
    BY DEF Shape, TypeOK, CallsFit, InWaitStates, Enqueue, EnqueueResume
  <1>1. /\ Cardinality(InWait(caller, Callers)) \in Nat
        /\ Cardinality(Woken(caller, Callers)) \in Nat
        /\ Cardinality(Woken(worker, Workers)) \in Nat
        /\ Cardinality(Woken(caller', Callers)) \in Nat
    BY InWaitFinite, WokenFinite, WorkersFinite
  <1>2. ASSUME caller' = [caller EXCEPT ![c] = "outside"]
        PROVE  /\ Is = IF caller[c] = "woken" THEN Was - 1 ELSE Was
               /\ Cardinality(Woken(caller', Callers)) =
                    IF caller[c] = "woken"
                    THEN Cardinality(Woken(caller, Callers)) - 1
                    ELSE Cardinality(Woken(caller, Callers))
               /\ Waiting(caller', Callers) = Waiting(caller, Callers)
    <2>1. caller'[c] = "outside" /\ \A b \in Callers \ {c} : caller'[b] = caller[b]
      BY <1>0, <1>2
    <2>2. Is = IF caller[c] = "woken" THEN Was - 1 ELSE Was
      BY <1>0, <2>1, MoveInWait DEF InWaitStates
    <2>3. Cardinality(Woken(caller', Callers)) =
            IF caller[c] = "woken" THEN Cardinality(Woken(caller, Callers)) - 1
            ELSE Cardinality(Woken(caller, Callers))
      BY <1>0, <2>1, MoveOne
    <2>4. Waiting(caller', Callers) = Waiting(caller, Callers)
      BY <1>0, <2>1 DEF Waiting
    <2> QED
      BY <2>2, <2>3, <2>4
  <1>3. CASE EnqueueRefuse(c)
    <2>1. WorkersCovered'
      BY <1>3, WorkersQuiet DEF EnqueueRefuse, Covered, poolVars
    <2>2. producer_wait_nums' = Is
      BY <1>2, <1>3 DEF EnqueueRefuse, CallerAt, ProducersAfterWakeup, Covered,
                        ProducersCovered
    <2>3. ~isrunning'
      BY <1>3 DEF EnqueueRefuse, poolVars
    <2> QED
      BY <2>1, <2>2, <2>3
         DEF Covered, ProducersCovered, SleepingProducersCovered
  <1>4. CASE EnqueueSleep(c)
    <2>1. WorkersCovered'
      BY <1>4, WorkersQuiet DEF EnqueueSleep, Covered, poolVars
    <2>2. caller'[c] = "waiting" /\ \A b \in Callers \ {c} : caller'[b] = caller[b]
      BY <1>0, <1>4 DEF EnqueueSleep, CallerAt
    <2>3. Is = IF caller[c] = "woken" THEN Was ELSE Was + 1
      BY <1>0, <2>2, MoveInWait DEF InWaitStates
    <2>4. producer_wait_nums' = (IF caller[c] = "woken" THEN Was - 1 ELSE Was) + 1
      BY <1>4 DEF EnqueueSleep, ProducersAfterWakeup, Covered, ProducersCovered
    <2>5. producer_wait_nums' = Is
      BY <1>1, <2>3, <2>4
    <2>6. Len(task_queue') \in Nat /\ Len(task_queue') >= Cap
      BY <1>0, <1>4 DEF EnqueueSleep
    <2>7. Cap - Len(task_queue') <= Cardinality(Woken(caller', Callers))
      BY <1>0, <1>1, <2>6
    <2> QED
      BY <2>1, <2>5, <2>7
         DEF Covered, ProducersCovered, SleepingProducersCovered
  <1>5. CASE isrunning /\ Len(task_queue) < Cap /\ Store(c)
    <2>1. worker' \in (IF thread_wait_nums > 0 THEN Signalled(worker, Workers)
                       ELSE {worker})
      BY <1>5 DEF Store, NotifyWorker
    <2>2. /\ InWait(worker', Workers) = InWait(worker, Workers)
          /\ Waiting(worker, Workers) = {} => worker' = worker
          /\ Waiting(worker, Workers) # {} =>
               Cardinality(Woken(worker', Workers)) =
                 Cardinality(Woken(worker, Workers)) + 1
      <3>1. /\ "woken" \in WorkerStates
            /\ thread_wait_nums = Cardinality(InWait(worker, Workers))
        BY DEF WorkerStates, Covered, WorkersCovered
      <3>2. worker \in [Workers -> WorkerStates]
        BY <1>0
      <3> QED
        BY ONLY <3>1, <3>2, <2>1, WorkersFinite, CountedNotify
    <2>3. Len(task_queue') = Len(task_queue) + 1 /\ Len(task_queue) \in Nat
      BY <1>0, <1>5 DEF Store
    <2>4. isrunning' = isrunning /\ isrunning /\ thread_wait_nums' = thread_wait_nums
      BY <1>5 DEF Store, poolVars
    <2>5. SleepingWorkersCovered'
      <3>1. ASSUME Waiting(worker, Workers) # {}
            PROVE  Len(task_queue') <= Cardinality(Woken(worker', Workers))
        BY <1>1, <2>2, <2>3, <3>1
           DEF Covered, WorkersCovered, SleepingWorkersCovered
      <3>2. CASE Waiting(worker, Workers) = {}
        BY <2>2, <3>2 DEF SleepingWorkersCovered
      <3> QED
        BY <2>4, <3>1, <3>2 DEF SleepingWorkersCovered
    <2>6. WorkersCovered'
      BY <2>2, <2>4, <2>5 DEF Covered, WorkersCovered
    <2>7. producer_wait_nums' = Is
      BY <1>2, <1>5 DEF Store, CallerAt, ProducersAfterWakeup, Covered,
                        ProducersCovered
    <2>8. Waiting(caller', Callers) # {} =>
            Cap - Len(task_queue') <= Cardinality(Woken(caller', Callers))
      <3>1. /\ Waiting(caller', Callers) = Waiting(caller, Callers)
            /\ Cardinality(Woken(caller', Callers)) >=
                 Cardinality(Woken(caller, Callers)) - 1
        BY <1>1, <1>2, <1>5 DEF Store, CallerAt
      <3>2. Waiting(caller, Callers) # {} =>
              Cap - Len(task_queue) <= Cardinality(Woken(caller, Callers))
        BY <1>5 DEF Covered, ProducersCovered, SleepingProducersCovered
      <3> QED
        BY <1>0, <1>1, <2>3, <3>1, <3>2
    <2> QED
      BY <2>6, <2>7, <2>8
         DEF Covered, ProducersCovered, SleepingProducersCovered
  <1> QED
    BY <1>3, <1>4, <1>5 DEF Enqueue, EnqueueResume, EnqueueAccept

(* The pool threads: the mirror image of Enqueue. *)
LEMMA WorkerCovered ==
  ASSUME Shape, Covered, NEW w \in Workers, WorkerStep(w)
  PROVE  Covered'
  <1> DEFINE Was == Cardinality(InWait(worker, Workers))
             Is  == Cardinality(InWait(worker', Workers))
  <1>0. /\ caller \in [Callers -> CallerStates]
        /\ worker \in [Workers -> WorkerStates]
        /\ task_queue \in Seq(Tasks)
        /\ Cap \in Nat
    BY DEF Shape, TypeOK
  <1>1. /\ Cardinality(InWait(worker, Workers)) \in Nat
        /\ Cardinality(Woken(worker, Workers)) \in Nat
        /\ Cardinality(Woken(caller, Callers)) \in Nat
        /\ Cardinality(Woken(worker', Workers)) \in Nat
    BY InWaitFinite, WokenFinite, WorkersFinite
  <1>2. ASSUME NEW label \in {"left", "running"},
               worker[w] \in {"ready", "woken"},
               worker' = [worker EXCEPT ![w] = label]
        PROVE  /\ Is = IF worker[w] = "woken" THEN Was - 1 ELSE Was
               /\ Cardinality(Woken(worker', Workers)) =
                    IF worker[w] = "woken"
                    THEN Cardinality(Woken(worker, Workers)) - 1
                    ELSE Cardinality(Woken(worker, Workers))
               /\ Waiting(worker', Workers) = Waiting(worker, Workers)
    <2>1. worker'[w] = label /\ \A v \in Workers \ {w} : worker'[v] = worker[v]
      BY <1>0, <1>2
    <2>2. Is = IF worker[w] = "woken" THEN Was - 1 ELSE Was
      BY <1>2, <2>1, WorkersFinite, MoveInWait DEF InWaitStates
    <2>3. Cardinality(Woken(worker', Workers)) =
            IF worker[w] = "woken" THEN Cardinality(Woken(worker, Workers)) - 1
            ELSE Cardinality(Woken(worker, Workers))
      BY <1>2, <2>1, WorkersFinite, MoveOne
    <2>4. Waiting(worker', Workers) = Waiting(worker, Workers)
      BY <1>2, <2>1 DEF Waiting
    <2> QED
      BY <2>2, <2>3, <2>4
  <1>3. CASE worker[w] \in {"ready", "woken"} /\ HandlerSleep(w)
    <2>1. ProducersCovered'
      BY <1>3, ProducersQuiet DEF HandlerSleep, Covered, poolVars
    <2>2. worker'[w] = "waiting" /\ \A v \in Workers \ {w} : worker'[v] = worker[v]
      BY <1>0, <1>3 DEF HandlerSleep
    <2>3. Is = IF worker[w] = "woken" THEN Was ELSE Was + 1
      BY <1>3, <2>2, WorkersFinite, MoveInWait DEF InWaitStates
    <2>4. thread_wait_nums' = (IF worker[w] = "woken" THEN Was - 1 ELSE Was) + 1
      BY <1>3 DEF HandlerSleep, WorkersAfterWakeup, Covered, WorkersCovered
    <2>5. thread_wait_nums' = Is
      BY <1>1, <2>3, <2>4
    <2>6. isrunning' /\ Len(task_queue') = 0
      BY <1>3 DEF HandlerSleep, poolVars
    <2> QED
      BY <1>1, <2>1, <2>5, <2>6
         DEF Covered, WorkersCovered, SleepingWorkersCovered
  <1>4. CASE worker[w] \in {"ready", "woken"} /\ HandlerExit(w)
    <2>1. ProducersCovered'
      BY <1>4, ProducersQuiet DEF HandlerExit, Covered, poolVars
    <2>2. /\ ~isrunning
          /\ worker' = [worker EXCEPT ![w] = "left"]
          /\ thread_wait_nums' = IF worker[w] = "woken" THEN Was - 1 ELSE Was
      BY <1>4 DEF HandlerExit, WorkersAfterWakeup, Covered, WorkersCovered
    <2>3. Waiting(worker, Workers) = {}
      BY <2>2 DEF Covered, WorkersCovered, SleepingWorkersCovered
    <2>4. /\ Is = IF worker[w] = "woken" THEN Was - 1 ELSE Was
          /\ Waiting(worker', Workers) = Waiting(worker, Workers)
      BY <1>2, <1>4, <2>2
    <2> QED
      BY <2>1, <2>2, <2>3, <2>4
         DEF Covered, WorkersCovered, SleepingWorkersCovered
  <1>5. CASE worker[w] \in {"ready", "woken"} /\ HandlerTake(w)
    <2>1. caller' \in (IF producer_wait_nums > 0 THEN Signalled(caller, Callers)
                       ELSE {caller})
      BY <1>5 DEF HandlerTake, NotifyProducer
    <2>2. /\ InWait(caller', Callers) = InWait(caller, Callers)
          /\ Waiting(caller, Callers) = {} => caller' = caller
          /\ Waiting(caller, Callers) # {} =>
               Cardinality(Woken(caller', Callers)) =
                 Cardinality(Woken(caller, Callers)) + 1
      <3>1. /\ "woken" \in CallerStates
            /\ producer_wait_nums = Cardinality(InWait(caller, Callers))
        BY DEF CallerStates, Covered, ProducersCovered
      <3>2. caller \in [Callers -> CallerStates] /\ IsFiniteSet(Callers)
        BY <1>0
      <3> QED
        BY ONLY <3>1, <3>2, <2>1, CountedNotify
    <2>3. /\ Len(task_queue) \in Nat /\ Len(task_queue') = Len(task_queue) - 1
          /\ task_queue # <<>>
      BY <1>0, <1>5, HeadTailProperties DEF HandlerTake
    <2>4. isrunning' = isrunning /\ producer_wait_nums' = producer_wait_nums
      BY <1>5 DEF HandlerTake, poolVars
    <2>5. SleepingProducersCovered'
      <3>1. ASSUME isrunning, Waiting(caller, Callers) # {}
            PROVE  Cap - Len(task_queue') <= Cardinality(Woken(caller', Callers))
        BY <1>0, <1>1, <2>2, <2>3, <3>1
           DEF Covered, ProducersCovered, SleepingProducersCovered
      <3>2. CASE Waiting(caller, Callers) = {}
        BY <2>2, <3>2 DEF SleepingProducersCovered
      <3> QED
        BY <2>4, <3>1, <3>2 DEF SleepingProducersCovered
    <2>6. ProducersCovered'
      BY <2>2, <2>4, <2>5 DEF Covered, ProducersCovered
    <2>7. /\ worker' = [worker EXCEPT ![w] = "running"]
          /\ thread_wait_nums' = IF worker[w] = "woken" THEN Was - 1 ELSE Was
      BY <1>5 DEF HandlerTake, WorkersAfterWakeup, Covered, WorkersCovered
    <2>8. /\ Is = IF worker[w] = "woken" THEN Was - 1 ELSE Was
          /\ Cardinality(Woken(worker', Workers)) >=
               Cardinality(Woken(worker, Workers)) - 1
          /\ Waiting(worker', Workers) = Waiting(worker, Workers)
      BY <1>1, <1>2, <1>5, <2>7
    <2>9. Waiting(worker', Workers) # {} =>
            /\ isrunning'
            /\ Len(task_queue') <= Cardinality(Woken(worker', Workers))
      <3>1. Waiting(worker, Workers) # {} =>
              isrunning /\ Len(task_queue) <= Cardinality(Woken(worker, Workers))
        BY DEF Covered, WorkersCovered, SleepingWorkersCovered
      <3> QED
        BY <1>1, <2>3, <2>4, <2>8, <3>1
    <2> QED
      BY <2>6, <2>7, <2>8, <2>9
         DEF Covered, WorkersCovered, SleepingWorkersCovered
  <1>6. CASE RunTask(w) \/ RoutineEnd(w)
    <2>1. UNCHANGED <<thread_wait_nums, producer_wait_nums, task_queue, isrunning,
                      caller>>
      BY <1>6 DEF RunTask, RoutineEnd, poolVars
    <2>2. \A v \in Workers :
            worker'[v] = worker[v] \/ (/\ worker[v] \notin InWaitStates
                                       /\ worker'[v] \notin InWaitStates)
      BY <1>0, <1>6 DEF RunTask, RoutineEnd, InWaitStates
    <2> QED
      BY <2>1, <2>2, WorkersQuiet, ProducersQuiet DEF Covered
  <1> QED
    BY <1>3, <1>4, <1>5, <1>6 DEF WorkerStep, HandlerTask

(* Stop wakes everybody in both conditions. *)
LEMMA StopCovered ==
  ASSUME Shape, Covered, Stop
  PROVE  Covered'
  <1>0. /\ caller \in [Callers -> CallerStates]
        /\ worker \in [Workers -> WorkerStates]
    BY DEF Shape, TypeOK
  <1>1. CASE StopBegin
    <2>1. \A w \in Workers :
            /\ worker'[w] = worker[w] \/ (worker[w] = "waiting" /\ worker'[w] = "woken")
            /\ worker'[w] # "waiting"
      BY <1>0, <1>1 DEF StopBegin, Broadcast, Waiting
    <2>2. /\ caller'[Main] = "joining" /\ caller[Main] = "ready"
          /\ \A c \in Callers \ {Main} :
               caller'[c] = caller[c] \/ (caller[c] = "waiting" /\ caller'[c] = "woken")
      BY <1>0, <1>1 DEF StopBegin, Broadcast, Waiting
    <2>3. /\ InWait(worker', Workers) = InWait(worker, Workers)
          /\ Waiting(worker', Workers) = {}
      BY <2>1, WokenStayInWait DEF Waiting
    <2>4. InWait(caller', Callers) = InWait(caller, Callers)
      BY <2>2 DEF InWait, Waiting, Woken
    <2>5. UNCHANGED <<thread_wait_nums, producer_wait_nums>> /\ ~isrunning'
      BY <1>1 DEF StopBegin
    <2> QED
      BY <2>3, <2>4, <2>5
         DEF Covered, WorkersCovered, ProducersCovered, SleepingWorkersCovered,
             SleepingProducersCovered
  <1>2. CASE ~StopBegin
    <2>1. UNCHANGED <<thread_wait_nums, producer_wait_nums, task_queue, isrunning,
                      worker>>
      BY <1>2 DEF Stop, StopIgnored, JoinSkip, JoinBlock, JoinReturn, StopDone,
                  poolVars
    <2>2. \A c \in Callers :
            caller'[c] = caller[c] \/ (/\ caller[c] \notin InWaitStates
                                       /\ caller'[c] \notin InWaitStates)
      BY <1>0, <1>2 DEF Stop, StopIgnored, JoinSkip, JoinBlock, JoinReturn,
                        StopDone, CallerAt, InWaitStates
    <2> QED
      BY <2>1, <2>2, WorkersQuiet, ProducersQuiet DEF Covered
  <1> QED
    BY <1>1, <1>2

(* A wake-up without a signal only adds to those on their way. *)
LEMMA SpuriousCovered ==
  ASSUME Shape, Covered,
         \/ \E w \in Workers : SpuriousWorker(w)
         \/ \E c \in Callers : SpuriousProducer(c)
  PROVE  Covered'
  <1>0. /\ caller \in [Callers -> CallerStates]
        /\ worker \in [Workers -> WorkerStates]
        /\ task_queue \in Seq(Tasks) /\ Cap \in Nat
    BY DEF Shape, TypeOK
  <1>1. ASSUME NEW w \in Workers, SpuriousWorker(w) PROVE Covered'
    <2>1. /\ worker[w] = "waiting" /\ worker'[w] = "woken"
          /\ \A v \in Workers \ {w} : worker'[v] = worker[v]
      BY <1>0, <1>1 DEF SpuriousWorker
    <2>2. Cardinality(Woken(worker', Workers)) =
            Cardinality(Woken(worker, Workers)) + 1
      BY <2>1, WorkersFinite, MoveOne
    <2>3. InWait(worker', Workers) = InWait(worker, Workers)
      BY <2>1, WokenStayInWait
    <2>4. Waiting(worker, Workers) # {}
      BY <2>1 DEF Waiting
    <2>5. UNCHANGED <<isrunning, task_queue, thread_wait_nums,
                      producer_wait_nums, caller>>
      BY <1>1 DEF SpuriousWorker, poolVars
    <2>6. Cardinality(Woken(worker, Workers)) \in Nat /\ Len(task_queue) \in Nat
      BY <1>0, WorkersFinite, WokenFinite
    <2>7. ProducersCovered'
      BY <2>5, ProducersQuiet DEF Covered
    <2> QED
      BY <2>2, <2>3, <2>4, <2>5, <2>6, <2>7
         DEF Covered, WorkersCovered, SleepingWorkersCovered
  <1>2. ASSUME NEW c \in Callers, SpuriousProducer(c) PROVE Covered'
    <2>1. /\ caller[c] = "waiting" /\ caller'[c] = "woken"
          /\ \A b \in Callers \ {c} : caller'[b] = caller[b]
      BY <1>0, <1>2 DEF SpuriousProducer, CallerAt
    <2>2. Cardinality(Woken(caller', Callers)) =
            Cardinality(Woken(caller, Callers)) + 1
      BY <2>1, MoveOne
    <2>3. InWait(caller', Callers) = InWait(caller, Callers)
      BY <2>1, WokenStayInWait
    <2>4. Waiting(caller, Callers) # {}
      BY <2>1 DEF Waiting
    <2>5. UNCHANGED <<isrunning, task_queue, thread_wait_nums,
                      producer_wait_nums, worker>>
      BY <1>2 DEF SpuriousProducer, poolVars
    <2>6. Cardinality(Woken(caller, Callers)) \in Nat /\ Len(task_queue) \in Nat
      BY <1>0, WokenFinite
    <2>7. WorkersCovered'
      BY <2>5, WorkersQuiet DEF Covered
    <2> QED
      BY <1>0, <2>2, <2>3, <2>4, <2>5, <2>6, <2>7
         DEF Covered, ProducersCovered, SleepingProducersCovered
  <1> QED
    BY <1>1, <1>2

(* Every step of the pool keeps both conditions covered. *)
LEMMA NextCovered ==
  ASSUME Shape, Covered, [Next]_vars
  PROVE  Covered'
  <1>0. /\ caller \in [Callers -> CallerStates]
        /\ worker \in [Workers -> WorkerStates]
    BY DEF Shape, TypeOK
  <1>1. CASE \/ CallStop
             \/ \E c \in Callers, t \in Tasks : CallEnqueue(c, t)
             \/ UNCHANGED vars
    <2>1. UNCHANGED <<thread_wait_nums, producer_wait_nums, task_queue, isrunning,
                      worker>>
      BY <1>1 DEF CallStop, CallEnqueue, vars, poolVars
    <2>2. \A c \in Callers :
            caller'[c] = caller[c] \/ (/\ caller[c] \notin InWaitStates
                                       /\ caller'[c] \notin InWaitStates)
      BY <1>0, <1>1 DEF CallStop, CallEnqueue, vars, CallerAt, InWaitStates
    <2> QED
      BY <2>1, <2>2, WorkersQuiet, ProducersQuiet DEF Covered
  <1>2. ASSUME NEW c \in Callers, CallerStep(c) PROVE Covered'
    BY <1>2, GetInstanceCovered, EnqueueCovered, StopCovered DEF CallerStep
  <1>3. ASSUME NEW w \in Workers, WorkerStep(w) PROVE Covered'
    BY <1>3, WorkerCovered
  <1> QED
    BY <1>1, <1>2, <1>3, SpuriousCovered DEF Next

-----------------------------------------------------------------------------
(* The types and the covered condition variables, which need each other:   *)
(* the counters are natural numbers only because they are exact.           *)
THEOREM ShapeAndCover == Spec => [](Shape /\ Covered)
  <1>1. Init => Shape /\ Covered
    BY InitShape, InitCovered
  <1>2. Shape /\ Covered /\ [Next]_vars => (Shape /\ Covered)'
    <2>1. Covered' => CountersExact'
      BY DEF Covered, WorkersCovered, ProducersCovered, CountersExact
    <2> QED
      BY <2>1, NextCovered, NextShape
  <1> QED
    BY <1>1, <1>2, PTL DEF Spec

(* The types hold in every reachable state, for any numbers of threads and *)
(* tasks and any capacity; in particular the queue of Enqueue never grows  *)
(* beyond _max_cap and a thread carries a task exactly while it runs one.  *)
THEOREM TypeCorrect == Spec => []TypeOK
  <1>1. Shape => TypeOK
    BY DEF Shape
  <1> QED
    BY <1>1, ShapeAndCover, PTL

(* The hand-kept counters always equal the number of threads inside Wait:  *)
(* if(_thread_wait_nums > 0) is never wrong, however many threads there are.*)
THEOREM CountersCorrect == Spec => []CountersExact
  <1>1. Covered => CountersExact
    BY DEF Covered, WorkersCovered, ProducersCovered, CountersExact
  <1> QED
    BY <1>1, ShapeAndCover, PTL

(* No wake-up of a worker is lost in HandlerTask, Enqueue and Stop. *)
THEOREM WorkersWoken == Spec => []SleepingWorkersCovered
  <1>1. Covered => SleepingWorkersCovered
    BY DEF Covered, WorkersCovered
  <1> QED
    BY <1>1, ShapeAndCover, PTL

(* No wake-up of a producer is lost in Enqueue while the pool runs. *)
THEOREM ProducersWoken == Spec => []SleepingProducersCovered
  <1>1. Covered => SleepingProducersCovered
    BY DEF Covered, ProducersCovered
  <1> QED
    BY <1>1, ShapeAndCover, PTL

-----------------------------------------------------------------------------
(* What Join relies on. *)

Failed(st) == {w \in Workers : st[w] = "failed"}

(* Steps that start, fail or end no thread. *)
LEMMA SameFailed ==
  ASSUME ThreadsFit, \A w \in Workers : worker'[w] = "failed" <=> worker[w] = "failed"
  PROVE  Cardinality(Failed(worker')) <= MaxCreateFailures
  <1>1. Failed(worker') = Failed(worker)
    BY DEF Failed
  <1> QED
    BY <1>1 DEF ThreadsFit, Failed

(* Before the first call no thread was started or has failed. *)
LEMMA InitThreadsFit == Init => ThreadsFit
  <1> SUFFICES ASSUME Init PROVE ThreadsFit
    OBVIOUS
  <1>1. {w \in Workers : worker[w] = "failed"} = {}
    BY DEF Init
  <1>2. Cardinality({w \in Workers : worker[w] = "failed"}) = 0
    BY <1>1, FS_EmptySet
  <1>3. next_start = 0 /\ next_join = 0 /\ \A w \in Workers : worker[w] = "unstarted"
    BY DEF Init
  <1> QED
    BY <1>2, <1>3 DEF ThreadsFit, Workers

(* Start leaves each thread with its flag set, failed, or already ended. *)
LEMMA GetInstanceThreadsFit ==
  ASSUME Shape, ThreadsFit, NEW c \in Callers, GetInstance(c)
  PROVE  ThreadsFit'
  <1>0. /\ worker \in [Workers -> WorkerStates] /\ flag \in [Workers -> BOOLEAN]
        /\ next_start \in 0 .. ThreadCnt + 1 /\ next_join \in 0 .. ThreadCnt + 1
        /\ (next_join # 0 => next_start = ThreadCnt + 1)
    BY DEF Shape, TypeOK, CallsFit
  <1> USE DEF Workers
  <1>1. CASE GetInstanceFast(c) \/ GetInstanceCreate(c) \/ StartDone(c)
    <2>1. UNCHANGED <<worker, flag, next_start, next_join, isrunning, task_queue>>
      BY <1>1 DEF GetInstanceFast, GetInstanceCreate, StartDone, poolVars,
                  threadVars
    <2> QED
      BY <2>1 DEF ThreadsFit
  <1>2. CASE StartRunning(c)
    <2>1. /\ next_start' = 1 /\ next_join' = next_join /\ next_join = 0
          /\ worker' = worker
          /\ \A w \in Workers : worker[w] = "unstarted"
      BY <1>0, <1>2 DEF StartRunning, Shape, OneStarter
    <2> QED
      BY <2>1, SameFailed DEF ThreadsFit, Failed
  <1>3. CASE StartCreate(c)
    <2>1. /\ \A w \in Workers : worker'[w] = worker[w]
                                \/ (worker[w] = "unstarted" /\ worker'[w] = "ready")
          /\ UNCHANGED <<flag, next_start, next_join, isrunning, task_queue>>
      BY <1>0, <1>3 DEF StartCreate, poolVars, threadVars
    <2>2. Cardinality(Failed(worker')) <= MaxCreateFailures
      BY <2>1, SameFailed
    <2> QED
      BY <2>1, <2>2 DEF ThreadsFit, Failed
  <1>4. CASE StartCreateFails(c)
    <2>1. /\ worker[next_start] = "unstarted" /\ next_start \in Workers
          /\ worker'[next_start] = "failed" /\ next_start' = next_start + 1
          /\ \A w \in Workers \ {next_start} : worker'[w] = worker[w]
          /\ UNCHANGED <<flag, next_join, isrunning, task_queue>>
          /\ Cardinality(Failed(worker)) < MaxCreateFailures
      BY <1>0, <1>4 DEF StartCreateFails, Failed, threadVars
    <2>2. /\ Failed(worker') = Failed(worker) \cup {next_start}
          /\ next_start \notin Failed(worker)
          /\ Failed(worker) \subseteq Workers
      BY <2>1 DEF Failed
    <2>3. IsFiniteSet(Failed(worker))
      BY <2>2, WorkersFinite, FS_Subset
    <2>4. /\ Cardinality(Failed(worker')) = Cardinality(Failed(worker)) + 1
          /\ Cardinality(Failed(worker)) \in Nat
      BY <2>2, <2>3, FS_AddElement, FS_CardinalityType
    <2>5. Cardinality(Failed(worker')) <= MaxCreateFailures
      BY <2>1, <2>4
    <2> QED
      BY <1>0, <2>1, <2>5 DEF ThreadsFit, Failed
  <1>5. CASE StartMark(c)
    <2>1. /\ next_start \in Workers /\ next_start' = next_start + 1
          /\ flag'[next_start]
          /\ \A w \in Workers \ {next_start} : flag'[w] = flag[w]
          /\ UNCHANGED <<worker, next_join, isrunning, task_queue>>
      BY <1>0, <1>5 DEF StartMark
    <2> QED
      BY <1>0, <2>1 DEF ThreadsFit
  <1> QED
    BY <1>1, <1>2, <1>3, <1>4, <1>5 DEF GetInstance

(* Steps that move threads only between the states of HandlerTask, and     *)
(* store no task.                                                          *)
LEMMA ThreadsUndisturbed ==
  ASSUME ThreadsFit,
         UNCHANGED <<flag, next_start, next_join, isrunning>>,
         task_queue = <<>> => task_queue' = <<>>,
         \A w \in Workers :
           worker'[w] = worker[w]
             \/ (/\ worker[w] \notin {"failed", "left", "ended"}
                 /\ worker'[w] \notin {"failed", "left", "ended"})
  PROVE  ThreadsFit'
  <1>1. Cardinality(Failed(worker')) <= MaxCreateFailures
    BY SameFailed
  <1> QED
    BY <1>1 DEF ThreadsFit, Failed

(* Enqueue stores only while the pool runs, so no thread has left yet. *)
LEMMA EnqueueThreadsFit ==
  ASSUME Shape, Covered, ThreadsFit, NEW c \in Callers,
         Enqueue(c) \/ EnqueueResume(c)
  PROVE  ThreadsFit'
  <1>0. worker \in [Workers -> WorkerStates]
    BY DEF Shape, TypeOK
  <1>1. CASE EnqueueRefuse(c) \/ EnqueueSleep(c)
    <2>1. UNCHANGED <<worker, task_queue, flag, next_start, next_join, isrunning>>
      BY <1>1 DEF EnqueueRefuse, EnqueueSleep, poolVars, threadVars
    <2> QED
      BY <2>1, ThreadsUndisturbed
  <1>2. CASE isrunning /\ Store(c)
    <2>1. /\ UNCHANGED <<flag, next_start, next_join, isrunning>>
          /\ worker' \in (IF thread_wait_nums > 0 THEN Signalled(worker, Workers)
                          ELSE {worker})
      BY <1>2 DEF Store, NotifyWorker, poolVars, threadVars
    <2>2. \A w \in Workers : worker'[w] = worker[w]
                             \/ (worker[w] = "waiting" /\ worker'[w] = "woken")
      <3>1. /\ "woken" \in WorkerStates
            /\ thread_wait_nums = Cardinality(InWait(worker, Workers))
        BY DEF WorkerStates, Covered, WorkersCovered
      <3> QED
        BY ONLY <1>0, <3>1, <2>1, WorkersFinite, CountedNotify
    <2>3. Cardinality(Failed(worker')) <= MaxCreateFailures
      BY <2>2, SameFailed
    <2> QED
      BY <1>2, <2>1, <2>2, <2>3 DEF ThreadsFit, Failed
  <1> QED
    BY <1>1, <1>2 DEF Enqueue, EnqueueResume, EnqueueAccept

(* HandlerTask is left only with the pool stopped and the queue empty. *)
LEMMA WorkerThreadsFit ==
  ASSUME Shape, ThreadsFit, NEW w \in Workers, WorkerStep(w)
  PROVE  ThreadsFit'
  <1>0. /\ worker \in [Workers -> WorkerStates] /\ flag \in [Workers -> BOOLEAN]
        /\ task_queue \in Seq(Tasks)
    BY DEF Shape, TypeOK
  <1>1. CASE worker[w] \in {"ready", "woken"} /\ (HandlerSleep(w) \/ HandlerTake(w))
    <2>1. /\ UNCHANGED <<flag, next_start, next_join, isrunning>>
          /\ task_queue = <<>> => task_queue' = <<>>
          /\ \A v \in Workers : worker'[v] = worker[v]
               \/ (/\ worker[v] \notin {"failed", "left", "ended"}
                   /\ worker'[v] \notin {"failed", "left", "ended"})
      BY <1>0, <1>1 DEF HandlerSleep, HandlerTake, poolVars, threadVars
    <2> QED
      BY <2>1, ThreadsUndisturbed
  <1>2. CASE RunTask(w)
    <2>1. /\ UNCHANGED <<flag, next_start, next_join, isrunning, task_queue>>
          /\ \A v \in Workers : worker'[v] = worker[v]
               \/ (/\ worker[v] \notin {"failed", "left", "ended"}
                   /\ worker'[v] \notin {"failed", "left", "ended"})
      BY <1>0, <1>2 DEF RunTask, poolVars, threadVars
    <2> QED
      BY <2>1, ThreadsUndisturbed
  <1>3. CASE worker[w] \in {"ready", "woken"} /\ HandlerExit(w)
    <2>1. /\ UNCHANGED <<flag, next_start, next_join, isrunning, task_queue>>
          /\ ~isrunning /\ task_queue = <<>>
          /\ worker'[w] = "left" /\ \A v \in Workers \ {w} : worker'[v] = worker[v]
      BY <1>0, <1>3 DEF HandlerExit, poolVars, threadVars
    <2>2. Cardinality(Failed(worker')) <= MaxCreateFailures
      BY <1>3, <2>1, SameFailed
    <2> QED
      BY <1>3, <2>1, <2>2 DEF ThreadsFit, Failed
  <1>4. CASE RoutineEnd(w)
    <2>1. /\ UNCHANGED <<next_start, next_join, isrunning, task_queue>>
          /\ worker[w] = "left" /\ worker'[w] = "ended"
          /\ \A v \in Workers \ {w} : worker'[v] = worker[v] /\ flag'[v] = flag[v]
      BY <1>0, <1>4 DEF RoutineEnd, poolVars
    <2>2. Cardinality(Failed(worker')) <= MaxCreateFailures
      BY <2>1, SameFailed
    <2> QED
      BY <2>1, <2>2 DEF ThreadsFit, Failed
  <1> QED
    BY <1>1, <1>2, <1>3, <1>4 DEF WorkerStep, HandlerTask

(* Stop moves on only past threads that are no longer running. *)
LEMMA StopThreadsFit ==
  ASSUME Shape, ThreadsFit, Stop
  PROVE  ThreadsFit'
  <1>0. /\ worker \in [Workers -> WorkerStates] /\ flag \in [Workers -> BOOLEAN]
        /\ next_start \in 0 .. ThreadCnt + 1 /\ next_join \in 0 .. ThreadCnt + 1
        /\ (next_join # 0 => next_start = ThreadCnt + 1)
        /\ (caller[Main] = "blocked" => next_join \in Workers)
    BY DEF Shape, TypeOK, CallsFit
  <1> USE DEF Workers
  <1>1. CASE StopIgnored \/ JoinBlock \/ StopDone
    <2>1. UNCHANGED <<worker, flag, next_start, next_join, isrunning, task_queue>>
      BY <1>1 DEF StopIgnored, JoinBlock, StopDone, poolVars, threadVars
    <2> QED
      BY <2>1, ThreadsUndisturbed
  <1>2. CASE StopBegin
    <2>1. /\ UNCHANGED <<flag, next_start, task_queue>>
          /\ next_join' = 1 /\ ~isrunning'
          /\ \A w \in Workers : worker'[w] = worker[w]
                                \/ (worker[w] = "waiting" /\ worker'[w] = "woken")
      BY <1>0, <1>2 DEF StopBegin, Broadcast, Waiting, threadVars
    <2>2. Cardinality(Failed(worker')) <= MaxCreateFailures
      BY <2>1, SameFailed
    <2>3. isrunning
      BY <1>2 DEF StopBegin
    <2> QED
      BY <2>1, <2>2, <2>3 DEF ThreadsFit, Failed
  <1>3. CASE JoinSkip
    <2>1. /\ UNCHANGED <<worker, flag, next_start, isrunning, task_queue>>
          /\ next_join \in Workers /\ ~flag[next_join]
          /\ next_join' = next_join + 1
      BY <1>3 DEF JoinSkip, threadVars
    <2> QED
      BY <1>0, <2>1 DEF ThreadsFit
  <1>4. CASE JoinReturn
    <2>1. /\ UNCHANGED <<worker, next_start, isrunning, task_queue>>
          /\ next_join \in Workers /\ worker[next_join] = "ended"
          /\ next_join' = next_join + 1
          /\ \A w \in Workers \ {next_join} : flag'[w] = flag[w]
      BY <1>0, <1>4 DEF JoinReturn
    <2> QED
      BY <1>0, <2>1 DEF ThreadsFit
  <1> QED
    BY <1>1, <1>2, <1>3, <1>4 DEF Stop

(* Every step of the pool keeps what Join relies on. *)
LEMMA NextThreadsFit ==
  ASSUME Shape, Covered, ThreadsFit, [Next]_vars
  PROVE  ThreadsFit'
  <1>0. worker \in [Workers -> WorkerStates]
    BY DEF Shape, TypeOK
  <1>1. CASE \/ CallStop
             \/ \E c \in Callers, t \in Tasks : CallEnqueue(c, t)
             \/ \E c \in Callers : SpuriousProducer(c)
             \/ UNCHANGED vars
    <2>1. UNCHANGED <<worker, flag, next_start, next_join, isrunning, task_queue>>
      BY <1>1 DEF CallStop, CallEnqueue, SpuriousProducer, vars, poolVars,
                  threadVars
    <2> QED
      BY <2>1, ThreadsUndisturbed
  <1>2. ASSUME NEW w \in Workers, SpuriousWorker(w) PROVE ThreadsFit'
    <2>1. /\ UNCHANGED <<flag, next_start, next_join, isrunning, task_queue>>
          /\ \A v \in Workers : worker'[v] = worker[v]
               \/ (/\ worker[v] \notin {"failed", "left", "ended"}
                   /\ worker'[v] \notin {"failed", "left", "ended"})
      BY <1>0, <1>2 DEF SpuriousWorker, poolVars, threadVars
    <2> QED
      BY <2>1, ThreadsUndisturbed
  <1>3. ASSUME NEW c \in Callers, CallerStep(c) PROVE ThreadsFit'
    BY <1>3, GetInstanceThreadsFit, EnqueueThreadsFit, StopThreadsFit
       DEF CallerStep
  <1>4. ASSUME NEW w \in Workers, WorkerStep(w) PROVE ThreadsFit'
    BY <1>4, WorkerThreadsFit
  <1> QED
    BY <1>1, <1>2, <1>3, <1>4 DEF Next

-----------------------------------------------------------------------------
(* Accepted tasks are not lost on their way. *)

(* Enqueue puts what it accepts at the end of the queue. *)
LEMMA EnqueueDropsNothing ==
  ASSUME Shape, NothingDropped, NEW c \in Callers,
         Enqueue(c) \/ EnqueueResume(c)
  PROVE  NothingDropped'
  <1>0. /\ status \in [Tasks -> {"new", "offered", "queued", "running", "done",
                                 "rejected"}]
        /\ task_queue \in Seq(Tasks)
        /\ call[c] \in Tasks
    BY DEF Shape, TypeOK, CallsFit, InWaitStates, Enqueue, EnqueueResume
  <1>1. CASE EnqueueRefuse(c) \/ EnqueueSleep(c)
    <2>1. /\ UNCHANGED <<task_queue, task>>
          /\ \A t \in Tasks : status'[t] \in {status[t], "rejected"}
      BY <1>0, <1>1 DEF EnqueueRefuse, EnqueueSleep
    <2> QED
      BY <2>1 DEF NothingDropped
  <1>2. CASE Store(c)
    <2>1. /\ task' = task
          /\ status'[call[c]] = "queued"
          /\ \A t \in Tasks \ {call[c]} : status'[t] = status[t]
      BY <1>0, <1>2 DEF Store
    <2>2. /\ Len(task_queue') = Len(task_queue) + 1 /\ Len(task_queue) \in Nat
          /\ task_queue'[Len(task_queue) + 1] = call[c]
          /\ \A i \in 1 .. Len(task_queue) : task_queue'[i] = task_queue[i]
      BY <1>0, <1>2 DEF Store
    <2>3. ASSUME NEW t \in Tasks, status'[t] = "queued"
          PROVE  \E i \in 1 .. Len(task_queue') : task_queue'[i] = t
      <3>1. CASE t = call[c]
        BY <2>2, <3>1
      <3>2. CASE t # call[c]
        <4>1. PICK i \in 1 .. Len(task_queue) : task_queue[i] = t
          BY <2>1, <2>3, <3>2 DEF NothingDropped
        <4> QED
          BY <2>2, <4>1
      <3> QED
        BY <3>1, <3>2
    <2>4. \A t \in Tasks : status'[t] = "running" => \E w \in Workers : task'[w] = t
      BY <2>1 DEF NothingDropped
    <2> QED
      BY <2>3, <2>4 DEF NothingDropped
  <1> QED
    BY <1>1, <1>2 DEF Enqueue, EnqueueResume, EnqueueAccept

(* HandlerTask moves a task from the queue into the thread that runs it. *)
LEMMA WorkerDropsNothing ==
  ASSUME Shape, NothingDropped, NEW w \in Workers, WorkerStep(w)
  PROVE  NothingDropped'
  <1>0. /\ status \in [Tasks -> {"new", "offered", "queued", "running", "done",
                                 "rejected"}]
        /\ task_queue \in Seq(Tasks)
        /\ task \in [Workers -> Tasks \cup {NoCall}]
        /\ worker[w] = "running" <=> task[w] # NoCall
    BY DEF Shape, TypeOK
  <1>1. CASE HandlerSleep(w) \/ HandlerExit(w) \/ RoutineEnd(w)
    <2>1. UNCHANGED <<task_queue, task, status>>
      BY <1>1 DEF HandlerSleep, HandlerExit, RoutineEnd
    <2> QED
      BY <2>1 DEF NothingDropped
  <1>2. CASE worker[w] \in {"ready", "woken"} /\ HandlerTake(w)
    <2> DEFINE h == Head(task_queue)
    <2>1. /\ h \in Tasks /\ h = task_queue[1]
          /\ Len(task_queue') = Len(task_queue) - 1 /\ Len(task_queue) \in Nat
          /\ \A i \in 1 .. Len(task_queue') : task_queue'[i] = task_queue[i + 1]
      BY <1>0, <1>2, HeadTailProperties DEF HandlerTake
    <2>2. /\ task'[w] = h /\ \A v \in Workers \ {w} : task'[v] = task[v]
          /\ task[w] = NoCall
          /\ status'[h] = "running" /\ \A t \in Tasks \ {h} : status'[t] = status[t]
      BY <1>0, <1>2, <2>1 DEF HandlerTake
    <2>3. ASSUME NEW t \in Tasks, status'[t] = "queued"
          PROVE  \E i \in 1 .. Len(task_queue') : task_queue'[i] = t
      <3>1. t # h /\ status[t] = "queued"
        BY <2>2, <2>3
      <3>2. PICK i \in 1 .. Len(task_queue) : task_queue[i] = t
        BY <3>1 DEF NothingDropped
      <3>3. i # 1
        BY <2>1, <3>1, <3>2
      <3>4. i - 1 \in 1 .. Len(task_queue') /\ task_queue'[i - 1] = task_queue[i - 1 + 1]
        BY <2>1, <3>2, <3>3
      <3> QED
        BY <3>2, <3>4
    <2>4. ASSUME NEW t \in Tasks, status'[t] = "running"
          PROVE  \E v \in Workers : task'[v] = t
      <3>1. CASE t = h
        BY <2>2, <3>1
      <3>2. CASE t # h
        <4>1. PICK v \in Workers : task[v] = t
          BY <2>2, <2>4, <3>2 DEF NothingDropped
        <4>2. v # w
          BY <2>2, <4>1
        <4> QED
          BY <2>2, <4>1, <4>2
      <3> QED
        BY <3>1, <3>2
    <2> QED
      BY <2>3, <2>4 DEF NothingDropped
  <1>3. CASE RunTask(w)
    <2>1. /\ task_queue' = task_queue
          /\ task[w] \in Tasks /\ status'[task[w]] = "done"
          /\ \A t \in Tasks \ {task[w]} : status'[t] = status[t]
          /\ \A v \in Workers \ {w} : task'[v] = task[v]
      BY <1>0, <1>3 DEF RunTask
    <2>2. \A t \in Tasks : status'[t] \in {"queued", "running"} =>
                             t # task[w] /\ status[t] = status'[t]
      BY <2>1
    <2> QED
      BY <2>1, <2>2 DEF NothingDropped
  <1> QED
    BY <1>1, <1>2, <1>3 DEF WorkerStep, HandlerTask

(* No step of the pool loses an accepted task. *)
LEMMA NextDropsNothing ==
  ASSUME Shape, NothingDropped, [Next]_vars
  PROVE  NothingDropped'
  <1>1. ASSUME NEW c \in Callers, NEW t \in Tasks, CallEnqueue(c, t)
        PROVE  NothingDropped'
    <2>1. /\ UNCHANGED <<task_queue, task>>
          /\ \A u \in Tasks : status'[u] \in {status[u], "offered"}
      BY <1>1 DEF CallEnqueue, Shape, TypeOK
    <2> QED
      BY <2>1 DEF NothingDropped
  <1>2. CASE \/ CallStop
             \/ \E c \in Callers : GetInstance(c) \/ Stop \/ SpuriousProducer(c)
             \/ \E w \in Workers : SpuriousWorker(w)
             \/ UNCHANGED vars
    <2>1. UNCHANGED <<task_queue, task, status>>
      BY <1>2 DEF CallStop, SpuriousProducer, SpuriousWorker, vars, Stop,
                  StopIgnored, StopBegin, JoinSkip, JoinBlock, JoinReturn,
                  StopDone, GetInstance, GetInstanceFast, GetInstanceCreate,
                  StartRunning, StartCreate, StartCreateFails, StartMark,
                  StartDone
    <2> QED
      BY <2>1 DEF NothingDropped
  <1>3. ASSUME NEW c \in Callers, CallerStep(c) PROVE NothingDropped'
    BY <1>2, <1>3, EnqueueDropsNothing DEF CallerStep
  <1>4. ASSUME NEW w \in Workers, WorkerStep(w) PROVE NothingDropped'
    BY <1>4, WorkerDropsNothing
  <1> QED
    BY <1>1, <1>2, <1>3, <1>4 DEF Next

-----------------------------------------------------------------------------
(* The inductive invariant holds in every reachable state. *)
THEOREM Invariant == Spec => []IInv
  <1>1. Init => IInv
    BY InitShape, InitCovered, InitThreadsFit DEF IInv, NothingDropped, Init
  <1>2. IInv /\ [Next]_vars => IInv'
    <2>1. Covered' => CountersExact'
      BY DEF Covered, WorkersCovered, ProducersCovered, CountersExact
    <2> QED
      BY <2>1, NextCovered, NextShape, NextThreadsFit, NextDropsNothing DEF IInv
  <1> QED
    BY <1>1, <1>2, PTL DEF Spec

(* When Stop has returned every accepted task is done and every pool       *)
(* thread has ended: fewer threads failed to start than there are, so one  *)
(* of them ended, and it ended on an empty queue.                          *)
THEOREM StopHasDrained == Spec => []StopDrains
  <1>1. IInv => StopDrains
    <2> SUFFICES ASSUME IInv, StopReturned PROVE StopDrains
      BY DEF StopDrains
    <2> USE DEF IInv, Shape, ThreadsFit
    <2>1. next_join = ThreadCnt + 1
      BY DEF StopReturned
    <2>2. \A w \in Workers : worker[w] \in {"failed", "ended"}
      BY <2>1 DEF Workers
    <2>3. \E w \in Workers : worker[w] = "ended"
      <3>0. Cardinality(1 .. ThreadCnt) =
              IF 1 > ThreadCnt THEN 0 ELSE ThreadCnt - 1 + 1
        BY FS_Interval
      <3>1. Cardinality(Workers) = ThreadCnt
        BY <3>0 DEF Workers
      <3>2. Failed(worker) # Workers
        <4>1. Cardinality(Failed(worker)) <= MaxCreateFailures
          BY DEF Failed
        <4>2. MaxCreateFailures < ThreadCnt
          OBVIOUS
        <4> HIDE DEF IInv, ThreadsFit
        <4> SUFFICES ASSUME Failed(worker) = Workers PROVE FALSE
          OBVIOUS
        <4>3. ThreadCnt <= MaxCreateFailures
          BY <3>1, <4>1
        <4> QED
          BY <4>2, <4>3
      <3> QED
        BY <2>2, <3>2 DEF Failed
    <2>4. task_queue = <<>>
      BY <2>3
    <2>5. \A t \in Tasks : status[t] # "queued"
      BY <2>4 DEF NothingDropped
    <2>6. \A t \in Tasks : status[t] # "running"
      BY <2>2 DEF NothingDropped, TypeOK
    <2>7. \A t \in Tasks : status[t] \in {"new", "offered", "done", "rejected"}
      BY <2>5, <2>6 DEF TypeOK
    <2> QED
      BY <2>2, <2>7 DEF StopDrains
  <1> QED
    BY <1>1, Invariant, PTL

-----------------------------------------------------------------------------
(* Every accepted task begins once. *)

(* A task that is offered, queued or running is held in one place only: by *)
(* one caller, in one place of the queue, by one worker.                   *)
HeldOnce ==
  /\ \A c \in Callers : call[c] \in Tasks => status[call[c]] = "offered"
  /\ \A c, d \in Callers : call[c] \in Tasks /\ call[d] = call[c] => d = c
  /\ \A i \in 1 .. Len(task_queue) : status[task_queue[i]] = "queued"
  /\ \A i, j \in 1 .. Len(task_queue) : task_queue[i] = task_queue[j] => i = j
  /\ \A w \in Workers : task[w] \in Tasks => status[task[w]] = "running"
  /\ \A v, w \in Workers : task[w] \in Tasks /\ task[v] = task[w] => v = w

(* What the steps that call, give back or run tasks rely on. *)
LEMMA TasksTyped ==
  ASSUME Shape
  PROVE  /\ status \in [Tasks -> {"new", "offered", "queued", "running", "done",
                                  "rejected"}]
         /\ task_queue \in Seq(Tasks) /\ Len(task_queue) \in Nat
         /\ \A i \in 1 .. Len(task_queue) : task_queue[i] \in Tasks
         /\ task \in [Workers -> Tasks \cup {NoCall}]
         /\ call \in [Callers -> Tasks \cup {StopCall, NoCall}]
         /\ \A c \in Callers : caller[c] = "outside" <=> call[c] = NoCall
         /\ \A w \in Workers : worker[w] = "running" <=> task[w] # NoCall
  BY DEF Shape, TypeOK

(* A caller takes a task that is new, so nobody holds it yet. *)
LEMMA CallHeldOnce ==
  ASSUME Shape, HeldOnce, NEW c \in Callers, NEW t \in Tasks, CallEnqueue(c, t)
  PROVE  HeldOnce'
  <1>1. /\ UNCHANGED <<task_queue, task>>
        /\ status[t] = "new" /\ status'[t] = "offered"
        /\ \A u \in Tasks \ {t} : status'[u] = status[u]
        /\ call'[c] = t /\ \A d \in Callers \ {c} : call'[d] = call[d]
    BY TasksTyped DEF CallEnqueue
  <1>2. \A u \in Tasks : status[u] \in {"offered", "queued", "running"} =>
          status'[u] = status[u] /\ u # t
    BY <1>1
  <1>3. /\ \A d \in Callers : call'[d] \in Tasks => status'[call'[d]] = "offered"
        /\ \A d, e \in Callers : call'[d] \in Tasks /\ call'[e] = call'[d] => e = d
    BY <1>1, <1>2 DEF HeldOnce
  <1>4. /\ \A i \in 1 .. Len(task_queue) : status'[task_queue[i]] = "queued"
        /\ \A w \in Workers : task[w] \in Tasks => status'[task[w]] = "running"
    BY <1>2, TasksTyped DEF HeldOnce
  <1> QED
    BY <1>1, <1>3, <1>4 DEF HeldOnce

(* Enqueue gives the task back, refused or stored. *)
LEMMA EnqueueHeldOnce ==
  ASSUME Shape, HeldOnce, NEW c \in Callers, Enqueue(c) \/ EnqueueResume(c)
  PROVE  HeldOnce'
  <1>0. call[c] \in Tasks /\ NoCall \notin Tasks
    BY DEF Shape, CallsFit, InWaitStates, Enqueue, EnqueueResume
  <1> DEFINE t == call[c]
  <1>1. CASE EnqueueSleep(c)
    <2>1. UNCHANGED <<call, status, task_queue, task>>
      BY <1>1 DEF EnqueueSleep
    <2> QED
      BY <2>1 DEF HeldOnce
  <1>2. CASE EnqueueRefuse(c)
    <2>1. /\ UNCHANGED <<task_queue, task>>
          /\ \A u \in Tasks \ {t} : status'[u] = status[u]
          /\ call'[c] = NoCall /\ \A d \in Callers \ {c} : call'[d] = call[d]
      BY <1>0, <1>2, TasksTyped DEF EnqueueRefuse
    <2> QED
      BY <1>0, <2>1, TasksTyped DEF HeldOnce
  <1>3. CASE Store(c)
    <2>1. /\ UNCHANGED task
          /\ status'[t] = "queued"
          /\ \A u \in Tasks \ {t} : status'[u] = status[u]
          /\ call'[c] = NoCall /\ \A d \in Callers \ {c} : call'[d] = call[d]
      BY <1>0, <1>3, TasksTyped DEF Store
    <2>2. /\ Len(task_queue') = Len(task_queue) + 1
          /\ task_queue'[Len(task_queue) + 1] = t
          /\ \A i \in 1 .. Len(task_queue) : task_queue'[i] = task_queue[i]
      BY <1>0, <1>3, TasksTyped DEF Store
    <2>3. \A i \in 1 .. Len(task_queue') :
            \/ i \in 1 .. Len(task_queue) /\ task_queue'[i] = task_queue[i]
                 /\ task_queue[i] \in Tasks \ {t}
            \/ i = Len(task_queue) + 1 /\ task_queue'[i] = t
      BY <1>0, <2>2, TasksTyped DEF HeldOnce
    <2>4. \A i \in 1 .. Len(task_queue') : status'[task_queue'[i]] = "queued"
      BY <2>1, <2>3 DEF HeldOnce
    <2>5. \A i, j \in 1 .. Len(task_queue') : task_queue'[i] = task_queue'[j] => i = j
      BY <2>3 DEF HeldOnce
    <2>6. /\ \A d \in Callers : call'[d] \in Tasks => status'[call'[d]] = "offered"
          /\ \A d, e \in Callers : call'[d] \in Tasks /\ call'[e] = call'[d] => e = d
      BY <1>0, <2>1 DEF HeldOnce
    <2>7. /\ \A w \in Workers : task'[w] \in Tasks => status'[task'[w]] = "running"
          /\ \A v, w \in Workers : task'[w] \in Tasks /\ task'[v] = task'[w] => v = w
      BY <1>0, <2>1 DEF HeldOnce
    <2> QED
      BY <2>4, <2>5, <2>6, <2>7 DEF HeldOnce
  <1> QED
    BY <1>1, <1>2, <1>3 DEF Enqueue, EnqueueResume, EnqueueAccept

(* A worker takes the oldest task out of the queue, and drops it when done. *)
LEMMA WorkerHeldOnce ==
  ASSUME Shape, HeldOnce, NEW w \in Workers, WorkerStep(w)
  PROVE  HeldOnce'
  <1>1. CASE HandlerSleep(w) \/ HandlerExit(w) \/ RoutineEnd(w)
    <2>1. UNCHANGED <<call, status, task_queue, task>>
      BY <1>1 DEF HandlerSleep, HandlerExit, RoutineEnd
    <2> QED
      BY <2>1 DEF HeldOnce
  <1>2. CASE worker[w] \in {"ready", "woken"} /\ HandlerTake(w)
    <2> DEFINE h == Head(task_queue)
    <2>1. /\ h \in Tasks /\ h = task_queue[1] /\ 1 \in 1 .. Len(task_queue)
          /\ Len(task_queue') = Len(task_queue) - 1
          /\ \A i \in 1 .. Len(task_queue') :
               i + 1 \in 1 .. Len(task_queue) /\ task_queue'[i] = task_queue[i + 1]
      BY <1>2, TasksTyped, HeadTailProperties DEF HandlerTake
    <2>2. /\ task'[w] = h /\ \A v \in Workers \ {w} : task'[v] = task[v]
          /\ status[h] = "queued" /\ status'[h] = "running"
          /\ \A t \in Tasks \ {h} : status'[t] = status[t]
          /\ UNCHANGED call
      BY <1>2, <2>1, TasksTyped DEF HandlerTake, HeldOnce
    <2>3. \A i \in 1 .. Len(task_queue') : task_queue'[i] \in Tasks \ {h}
      <3> SUFFICES ASSUME NEW i \in 1 .. Len(task_queue') PROVE task_queue'[i] \in Tasks \ {h}
        OBVIOUS
      <3>1. i + 1 # 1 /\ i + 1 \in 1 .. Len(task_queue)
        BY <2>1
      <3> QED
        BY <2>1, <3>1, TasksTyped DEF HeldOnce
    <2>4. /\ \A i \in 1 .. Len(task_queue') : status'[task_queue'[i]] = "queued"
          /\ \A i, j \in 1 .. Len(task_queue') : task_queue'[i] = task_queue'[j] => i = j
      BY <2>1, <2>2, <2>3 DEF HeldOnce
    <2>5. /\ \A d \in Callers : call'[d] \in Tasks => status'[call'[d]] = "offered"
          /\ \A d, e \in Callers : call'[d] \in Tasks /\ call'[e] = call'[d] => e = d
      BY <2>2 DEF HeldOnce
    <2>6. /\ \A v \in Workers : task'[v] \in Tasks => status'[task'[v]] = "running"
          /\ \A v, u \in Workers : task'[v] \in Tasks /\ task'[u] = task'[v] => u = v
      BY <2>2 DEF HeldOnce
    <2> QED
      BY <2>4, <2>5, <2>6 DEF HeldOnce
  <1>3. CASE RunTask(w)
    <2>1. /\ UNCHANGED <<call, task_queue>>
          /\ task[w] \in Tasks /\ status[task[w]] = "running"
          /\ \A t \in Tasks \ {task[w]} : status'[t] = status[t]
          /\ task'[w] = NoCall /\ \A v \in Workers \ {w} : task'[v] = task[v]
      BY <1>3, TasksTyped DEF RunTask, HeldOnce
    <2> QED
      BY <2>1, TasksTyped DEF HeldOnce
  <1> QED
    BY <1>1, <1>2, <1>3 DEF WorkerStep, HandlerTask

(* No step of the pool lets a task be held twice. *)
LEMMA NextHeldOnce ==
  ASSUME Shape, HeldOnce, [Next]_vars
  PROVE  HeldOnce'
  <1>1. CASE CallStop \/ StopIgnored \/ StopDone
    <2>1. /\ UNCHANGED <<status, task_queue, task>>
          /\ call'[Main] \notin Tasks /\ \A c \in Callers \ {Main} : call'[c] = call[c]
      BY <1>1, TasksTyped DEF CallStop, StopIgnored, StopDone
    <2> QED
      BY <2>1 DEF HeldOnce
  <1>2. CASE \/ \E c \in Callers : GetInstance(c) \/ SpuriousProducer(c)
             \/ \E w \in Workers : SpuriousWorker(w)
             \/ StopBegin \/ JoinSkip \/ JoinBlock \/ JoinReturn
             \/ UNCHANGED vars
    <2>1. UNCHANGED <<call, status, task_queue, task>>
      BY <1>2 DEF GetInstance, GetInstanceFast, GetInstanceCreate, StartRunning,
                  StartCreate, StartCreateFails, StartMark, StartDone,
                  SpuriousProducer, SpuriousWorker, StopBegin, JoinSkip,
                  JoinBlock, JoinReturn, vars
    <2> QED
      BY <2>1 DEF HeldOnce
  <1> QED
    BY <1>1, <1>2, CallHeldOnce, EnqueueHeldOnce, WorkerHeldOnce
       DEF Next, CallerStep, Stop

(* Each accepted task is held once in every reachable state. *)
THEOREM AlwaysHeldOnce == Spec => []HeldOnce
  <1>1. Init => HeldOnce
    BY DEF Init, HeldOnce
  <1>2. IInv /\ HeldOnce /\ [Next]_vars => HeldOnce'
    BY NextHeldOnce DEF IInv
  <1> QED
    BY <1>1, <1>2, Invariant, PTL DEF Spec

-----------------------------------------------------------------------------
(* The pool is a WorkPool. *)

(* What the callers of a WorkPool see of the tasks. *)
Seen(st) == [t \in Tasks |-> IF st[t] = "offered" THEN "new" ELSE st[t]]

(* One task changes what is seen of it. *)
LEMMA SeenExcept ==
  ASSUME Shape, NEW t \in Tasks, NEW v, v # "offered",
         status' = [status EXCEPT ![t] = v]
  PROVE  Seen(status') = [Seen(status) EXCEPT ![t] = v]
  BY TasksTyped DEF Seen

(* Steps that leave the phase, the queue and what is seen of the tasks. *)
LEMMA StutterRefines ==
  ASSUME UNCHANGED <<isrunning, task_queue>>, next_start = 0 <=> next_start' = 0,
         Seen(status') = Seen(status)
  PROVE  UNCHANGED Pool!vars
  BY DEF Pool!vars, Phase, Seen

(* A stored or refused task is the next task accepted or turned away. *)
LEMMA EnqueueRefines ==
  ASSUME Shape, HeldOnce, NEW c \in Callers, Enqueue(c) \/ EnqueueResume(c)
  PROVE  [Pool!Next]_(Pool!vars)
  <1>0. call[c] \in Tasks
    BY DEF Shape, CallsFit, InWaitStates, Enqueue, EnqueueResume
  <1> PICK t \in Tasks : t = call[c]
    BY <1>0
  <1>9. Seen(status)[t] = "new"
    BY DEF HeldOnce, Seen
  <1>1. CASE EnqueueSleep(c)
    BY <1>1, StutterRefines DEF EnqueueSleep, poolVars
  <1>2. CASE EnqueueRefuse(c)
    <2>1. /\ UNCHANGED <<isrunning, next_start, task_queue>>
          /\ ~isrunning
          /\ status' = [status EXCEPT ![t] = "rejected"]
      BY <1>2 DEF EnqueueRefuse, poolVars
    <2>2. Seen(status') = [Seen(status) EXCEPT ![t] = "rejected"]
      BY <2>1, SeenExcept
    <2>3. Pool!Reject(t)
      BY <1>9, <2>1, <2>2 DEF Pool!Reject, Phase, Seen
    <2> QED
      BY <2>3 DEF Pool!Next
  <1>3. CASE isrunning /\ Len(task_queue) < Cap /\ Store(c)
    <2>1. /\ UNCHANGED <<isrunning, next_start>>
          /\ task_queue' = Append(task_queue, t)
          /\ status' = [status EXCEPT ![t] = "queued"]
      BY <1>3 DEF Store, poolVars
    <2>2. Seen(status') = [Seen(status) EXCEPT ![t] = "queued"]
      BY <2>1, SeenExcept
    <2>3. Pool!Accept(t)
      BY <1>3, <1>9, <2>1, <2>2 DEF Pool!Accept, Phase, Seen
    <2> QED
      BY <2>3 DEF Pool!Next
  <1> QED
    BY <1>1, <1>2, <1>3 DEF Enqueue, EnqueueResume, EnqueueAccept

(* The oldest accepted task begins; a running one finishes. *)
LEMMA WorkerRefines ==
  ASSUME Shape, HeldOnce, NEW w \in Workers, WorkerStep(w)
  PROVE  [Pool!Next]_(Pool!vars)
  <1>1. CASE HandlerSleep(w) \/ HandlerExit(w) \/ RoutineEnd(w)
    BY <1>1, StutterRefines DEF HandlerSleep, HandlerExit, RoutineEnd, poolVars
  <1>2. CASE HandlerTake(w)
    <2>0. task_queue # <<>> /\ Head(task_queue) \in Tasks
      BY <1>2, TasksTyped, HeadTailProperties DEF HandlerTake
    <2> PICK h \in Tasks : h = Head(task_queue)
      BY <2>0
    <2>1. /\ UNCHANGED <<isrunning, next_start>>
          /\ task_queue' = Tail(task_queue)
          /\ status' = [status EXCEPT ![h] = "running"]
      BY <1>2 DEF HandlerTake, poolVars
    <2>3. Seen(status') = [Seen(status) EXCEPT ![h] = "running"]
      BY <2>1, SeenExcept
    <2>4. Pool!Begin
      BY <2>0, <2>1, <2>3 DEF Pool!Begin, Phase, Seen
    <2> QED
      BY <2>4 DEF Pool!Next
  <1>3. CASE RunTask(w)
    <2>0. task[w] \in Tasks
      BY <1>3, TasksTyped DEF RunTask
    <2> PICK t \in Tasks : t = task[w]
      BY <2>0
    <2>1. /\ UNCHANGED <<isrunning, next_start, task_queue>>
          /\ status[t] = "running"
          /\ status' = [status EXCEPT ![t] = "done"]
      BY <1>3 DEF RunTask, poolVars, HeldOnce
    <2>2. Seen(status') = [Seen(status) EXCEPT ![t] = "done"]
      BY <2>1, SeenExcept
    <2>3. Pool!Finish(t)
      BY <2>1, <2>2 DEF Pool!Finish, Phase, Seen
    <2> QED
      BY <2>3 DEF Pool!Next
  <1> QED
    BY <1>1, <1>2, <1>3 DEF WorkerStep, HandlerTask

(* Start opens the pool, once; the rest of GetInstance cannot be seen. *)
LEMMA GetInstanceRefines ==
  ASSUME Shape, NEW c \in Callers, GetInstance(c)
  PROVE  [Pool!Next]_(Pool!vars)
  <1>1. CASE StartRunning(c)
    <2>1. /\ next_start = 0 /\ ~isrunning /\ isrunning' = TRUE
          /\ UNCHANGED <<task_queue, status>>
      BY <1>1 DEF StartRunning, Shape, OneStarter
    <2>2. Pool!Open
      BY <2>1 DEF Pool!Open, Phase
    <2> QED
      BY <2>2 DEF Pool!Next
  <1>2. CASE StartCreateFails(c) \/ StartMark(c)
    <2>1. /\ UNCHANGED <<isrunning, task_queue, status>>
          /\ next_start \in Workers /\ next_start' = next_start + 1
      BY <1>2 DEF StartCreateFails, StartMark
    <2>2. next_start # 0 /\ next_start' # 0
      BY <2>1 DEF Workers
    <2> QED
      BY <2>1, <2>2, StutterRefines
  <1>3. CASE GetInstanceFast(c) \/ GetInstanceCreate(c) \/ StartCreate(c) \/ StartDone(c)
    BY <1>3, StutterRefines DEF GetInstanceFast, GetInstanceCreate, StartCreate,
                                StartDone, poolVars
  <1> QED
    BY <1>1, <1>2, <1>3 DEF GetInstance

(* The critical section of Stop closes the pool, once. *)
LEMMA StopRefines ==
  ASSUME Shape, Stop
  PROVE  [Pool!Next]_(Pool!vars)
  <1>1. CASE StopBegin
    <2>1. /\ next_start # 0 /\ isrunning /\ isrunning' = FALSE
          /\ UNCHANGED <<task_queue, status, next_start>>
      BY <1>1 DEF StopBegin, Shape, OneStarter
    <2>2. Pool!Close
      BY <2>1 DEF Pool!Close, Phase
    <2> QED
      BY <2>2 DEF Pool!Next
  <1>2. CASE StopIgnored \/ JoinSkip \/ JoinBlock \/ JoinReturn \/ StopDone
    BY <1>2, StutterRefines DEF StopIgnored, JoinSkip, JoinBlock, JoinReturn,
                                StopDone, poolVars
  <1> QED
    BY <1>1, <1>2 DEF Stop

(* Every step of the pool is a step of a WorkPool or none. *)
LEMMA NextRefines ==
  ASSUME Shape, HeldOnce, [Next]_vars
  PROVE  [Pool!Next]_(Pool!vars)
  <1>1. ASSUME NEW c \in Callers, NEW t \in Tasks, CallEnqueue(c, t)
        PROVE  UNCHANGED Pool!vars
    <2>1. /\ UNCHANGED <<isrunning, next_start, task_queue>>
          /\ status[t] = "new" /\ status' = [status EXCEPT ![t] = "offered"]
      BY <1>1 DEF CallEnqueue, poolVars
    <2>2. Seen(status') = Seen(status)
      BY <2>1, TasksTyped DEF Seen
    <2> QED
      BY <2>1, <2>2, StutterRefines
  <1>2. CASE \/ CallStop
             \/ \E c \in Callers : SpuriousProducer(c)
             \/ \E w \in Workers : SpuriousWorker(w)
             \/ UNCHANGED vars
    BY <1>2, StutterRefines DEF CallStop, SpuriousProducer, SpuriousWorker, vars,
                                poolVars
  <1> QED
    BY <1>1, <1>2, GetInstanceRefines, EnqueueRefines, StopRefines, WorkerRefines
       DEF Next, CallerStep

(* Before the first call nothing has happened in the WorkPool either. *)
LEMMA InitRefines == Init => Pool!Init
  <1> SUFFICES ASSUME Init PROVE Pool!Init
    OBVIOUS
  <1>1. Phase = "before"
    BY DEF Init, Phase
  <1>2. Seen(status) = [t \in Tasks |-> "new"]
    BY DEF Init, Seen
  <1> QED
    BY <1>1, <1>2 DEF Init, Pool!Init, Seen

(* ThreadPool implements the WorkPool: accepted tasks begin in the order   *)
(* of acceptance, each once; none is accepted outside the time between     *)
(* Start and Stop, none is turned away inside it.                          *)
THEOREM Refinement == Spec => ImplementsWorkPool
  <1>1. IInv => Shape
    BY DEF IInv
  <1> QED
    BY <1>1, InitRefines, NextRefines, Invariant, AlwaysHeldOnce, PTL
       DEF Spec, ImplementsWorkPool, Pool!Spec
=============================================================================
