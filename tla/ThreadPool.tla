----------------------------- MODULE ThreadPool -----------------------------
(***************************************************************************)
(* ThreadPool<T>, the singleton pool of the Reactor web server and of      *)
(* thread_learning/09_thread_pool, with the Thread objects it starts and   *)
(* joins.  Callers evaluate GetInstance()->Enqueue(task) or, one of them,  *)
(* GetInstance()->Stop().  Every stretch of code under _mutex is atomic;   *)
(* what runs without it (Start, the Thread flags, Join) goes step by step. *)
(***************************************************************************)
EXTENDS Integers, Sequences, CondVar

CONSTANTS ThreadCnt,          \* _thread_cnt
          Cap,                \* _max_cap
          Callers,            \* threads that use the pool
          Main,               \* the caller that also stops it
          Tasks,              \* tasks, each submitted at most once
          StopCall, NoCall,   \* the other things a caller may be doing
          MaxCreateFailures   \* bound: pthread_create calls that fail

ASSUME ThreadPoolAssumption ==
  /\ ThreadCnt \in Nat \ {0}
  /\ Cap \in Nat \ {0}
  /\ IsFiniteSet(Callers)
  /\ Main \in Callers /\ NoCall \notin Callers
  /\ StopCall \notin Tasks /\ NoCall \notin Tasks /\ StopCall # NoCall
  /\ MaxCreateFailures \in 0 .. ThreadCnt - 1

VARIABLES
  instance,             \* _instance # nullptr
  s_mutex,              \* holder of _s_mutex, or NoCall
  isrunning,            \* _isrunning of the pool
  next_start,           \* 0 before Start, then the Thread its loop is at
  next_join,            \* 0 before Stop, then the Thread its loop is at
  task_queue,           \* _task_queue
  thread_wait_nums,     \* _thread_wait_nums
  producer_wait_nums,   \* _producer_wait_nums
  worker,               \* where each pool thread is
  task,                 \* task[w]: the task w runs
  flag,                 \* Thread::_isrunning of each Thread object
  joined,               \* the threads pthread_join has reclaimed
  caller,               \* where each caller is
  call,                 \* what each caller is calling
  status                \* what became of each task

poolVars == <<instance, s_mutex, isrunning, next_start, next_join>>
threadVars == <<flag, joined>>
vars == <<poolVars, task_queue, thread_wait_nums, producer_wait_nums,
          worker, task, threadVars, caller, call, status>>

Workers == 1 .. ThreadCnt

WorkerStates == {"unstarted", "failed", "ready", "waiting", "woken",
                 "running", "left", "ended"}
CallerStates == {"outside", "calling", "created", "starting", "ready",
                 "waiting", "woken", "joining", "blocked"}

Init ==
  /\ instance = FALSE
  /\ s_mutex = NoCall
  /\ isrunning = FALSE
  /\ next_start = 0
  /\ next_join = 0
  /\ task_queue = <<>>
  /\ thread_wait_nums = 0
  /\ producer_wait_nums = 0
  /\ worker = [w \in Workers |-> "unstarted"]
  /\ task = [w \in Workers |-> NoCall]
  /\ flag = [w \in Workers |-> FALSE]
  /\ joined = {}
  /\ caller = [c \in Callers |-> "outside"]
  /\ call = [c \in Callers |-> NoCall]
  /\ status = [t \in Tasks |-> "new"]

CallerAt(c, label) == caller' = [caller EXCEPT ![c] = label]

-----------------------------------------------------------------------------
(* The calls begin. *)

CallEnqueue(c, t) ==
  /\ caller[c] = "outside"
  /\ status[t] = "new"
  /\ call' = [call EXCEPT ![c] = t]
  /\ status' = [status EXCEPT ![t] = "offered"]
  /\ CallerAt(c, "calling")
  /\ UNCHANGED <<poolVars, task_queue, thread_wait_nums, producer_wait_nums,
                 worker, task, threadVars>>

CallStop ==
  /\ caller[Main] = "outside"
  /\ call' = [call EXCEPT ![Main] = StopCall]
  /\ CallerAt(Main, "calling")
  /\ UNCHANGED <<poolVars, task_queue, thread_wait_nums, producer_wait_nums,
                 worker, task, threadVars, status>>

-----------------------------------------------------------------------------
(* GetInstance and Start *)

(* The pointer is already set, so the static mutex is not even tried. *)
GetInstanceFast(c) ==
  /\ caller[c] = "calling"
  /\ instance
  /\ CallerAt(c, "ready")
  /\ UNCHANGED <<poolVars, task_queue, thread_wait_nums, producer_wait_nums,
                 worker, task, threadVars, call, status>>

(* _instance = new ThreadPool<T>, under the static mutex. *)
GetInstanceCreate(c) ==
  /\ caller[c] = "calling"
  /\ ~instance
  /\ s_mutex = NoCall
  /\ instance' = TRUE
  /\ s_mutex' = c
  /\ CallerAt(c, "created")
  /\ UNCHANGED <<isrunning, next_start, next_join, task_queue,
                 thread_wait_nums, producer_wait_nums, worker, task,
                 threadVars, call, status>>

(* Start sets _isrunning, without _mutex, and builds the Thread objects. *)
StartRunning(c) ==
  /\ caller[c] = "created"
  /\ isrunning' = TRUE
  /\ next_start' = 1
  /\ CallerAt(c, "starting")
  /\ UNCHANGED <<instance, s_mutex, next_join, task_queue, thread_wait_nums,
                 producer_wait_nums, worker, task, threadVars, call, status>>

(* pthread_create in Thread::Start: the new thread runs at once. *)
StartCreate(c) ==
  /\ caller[c] = "starting"
  /\ next_start \in Workers
  /\ worker[next_start] = "unstarted"
  /\ worker' = [worker EXCEPT ![next_start] = "ready"]
  /\ UNCHANGED <<poolVars, task_queue, thread_wait_nums, producer_wait_nums,
                 task, threadVars, caller, call, status>>

(* pthread_create fails; Start ignores what Thread::Start returns. *)
StartCreateFails(c) ==
  /\ caller[c] = "starting"
  /\ next_start \in Workers
  /\ worker[next_start] = "unstarted"
  /\ Cardinality({w \in Workers : worker[w] = "failed"}) < MaxCreateFailures
  /\ worker' = [worker EXCEPT ![next_start] = "failed"]
  /\ next_start' = next_start + 1
  /\ UNCHANGED <<instance, s_mutex, isrunning, next_join, task_queue,
                 thread_wait_nums, producer_wait_nums, task, threadVars,
                 caller, call, status>>

(* Thread::Start sets the flag after the thread has begun to run. *)
StartMark(c) ==
  /\ caller[c] = "starting"
  /\ next_start \in Workers
  /\ worker[next_start] # "unstarted"
  /\ flag' = [flag EXCEPT ![next_start] = TRUE]
  /\ next_start' = next_start + 1
  /\ UNCHANGED <<instance, s_mutex, isrunning, next_join, task_queue,
                 thread_wait_nums, producer_wait_nums, worker, task, joined,
                 caller, call, status>>

StartDone(c) ==
  /\ caller[c] = "starting"
  /\ next_start = ThreadCnt + 1
  /\ s_mutex' = NoCall
  /\ CallerAt(c, "ready")
  /\ UNCHANGED <<instance, isrunning, next_start, next_join, task_queue,
                 thread_wait_nums, producer_wait_nums, worker, task,
                 threadVars, call, status>>

-----------------------------------------------------------------------------
(* Enqueue *)

(* Slip: the count of waiters is not taken back. *)
ProducersNeverLeave(c) == producer_wait_nums

(* A woken producer has taken the mutex and leaves the count of waiters. *)
ProducersAfterWakeup(c) ==
  IF caller[c] = "woken" THEN producer_wait_nums - 1 ELSE producer_wait_nums

(* return false *)
EnqueueRefuse(c) ==
  /\ ~isrunning
  /\ CallerAt(c, "outside")
  /\ call' = [call EXCEPT ![c] = NoCall]
  /\ status' = [status EXCEPT ![call[c]] = "rejected"]
  /\ producer_wait_nums' = ProducersAfterWakeup(c)
  /\ UNCHANGED <<poolVars, task_queue, thread_wait_nums, worker, task,
                 threadVars>>

(* The body of while(_task_queue.size() >= _max_cap), which does not look  *)
(* at _isrunning.                                                          *)
EnqueueSleep(c) ==
  /\ Len(task_queue) >= Cap
  /\ CallerAt(c, "waiting")
  /\ producer_wait_nums' = ProducersAfterWakeup(c) + 1
  /\ UNCHANGED <<poolVars, task_queue, thread_wait_nums, worker, task,
                 threadVars, call, status>>

(* Slip: the worker is notified only when two wait.    *)
NotifyWorkerLate ==
  IF thread_wait_nums > 1 THEN Signalled(worker, Workers) ELSE {worker}

(* if (_thread_wait_nums > 0) _c_cond.Notify() *)
NotifyWorker ==
  IF thread_wait_nums > 0 THEN Signalled(worker, Workers) ELSE {worker}

(* The task is stored and return true. *)
Store(c) ==
  /\ task_queue' = Append(task_queue, call[c])
  /\ worker' \in NotifyWorker
  /\ CallerAt(c, "outside")
  /\ call' = [call EXCEPT ![c] = NoCall]
  /\ status' = [status EXCEPT ![call[c]] = "queued"]
  /\ producer_wait_nums' = ProducersAfterWakeup(c)
  /\ UNCHANGED <<poolVars, thread_wait_nums, task, threadVars>>

EnqueueAccept(c) ==
  /\ isrunning
  /\ Len(task_queue) < Cap
  /\ Store(c)

(* Enqueue from its first line. *)
Enqueue(c) ==
  /\ caller[c] = "ready"
  /\ call[c] \in Tasks
  /\ \/ EnqueueRefuse(c)
     \/ isrunning /\ EnqueueSleep(c)
     \/ EnqueueAccept(c)

(* Slips: the woken producer does not look at the queue again; does not    *)
(* look at _isrunning again.                                               *)
EnqueueResumeIf(c) ==
  /\ caller[c] = "woken"
  /\ IF isrunning THEN Store(c) ELSE EnqueueRefuse(c)
EnqueueResumeUnchecked(c) ==
  /\ caller[c] = "woken"
  /\ EnqueueSleep(c) \/ (Len(task_queue) < Cap /\ Store(c))

(* _p_cond.Wait returned: the loop test, then _isrunning. *)
EnqueueResume(c) ==
  /\ caller[c] = "woken"
  /\ \/ EnqueueSleep(c)
     \/ Len(task_queue) < Cap /\ EnqueueRefuse(c)
     \/ EnqueueAccept(c)

-----------------------------------------------------------------------------
(* HandlerTask and Thread::Routine *)

WorkersAfterWakeup(w) ==
  IF worker[w] = "woken" THEN thread_wait_nums - 1 ELSE thread_wait_nums

HandlerSleep(w) ==
  /\ task_queue = <<>> /\ isrunning
  /\ worker' = [worker EXCEPT ![w] = "waiting"]
  /\ thread_wait_nums' = WorkersAfterWakeup(w) + 1
  /\ UNCHANGED <<poolVars, task_queue, producer_wait_nums, task, threadVars,
                 caller, call, status>>

(* Slip: a worker leaves as soon as the pool is stopped. *)
HandlerExitAtOnce(w) ==
  /\ ~isrunning
  /\ worker' = [worker EXCEPT ![w] = "left"]
  /\ thread_wait_nums' = WorkersAfterWakeup(w)
  /\ UNCHANGED <<poolVars, task_queue, producer_wait_nums, task, threadVars,
                 caller, call, status>>

HandlerExit(w) ==
  /\ ~isrunning /\ task_queue = <<>>
  /\ worker' = [worker EXCEPT ![w] = "left"]
  /\ thread_wait_nums' = WorkersAfterWakeup(w)
  /\ UNCHANGED <<poolVars, task_queue, producer_wait_nums, task, threadVars,
                 caller, call, status>>

(* Slip: a producer is notified only when two wait. *)
NotifyProducerLate ==
  IF producer_wait_nums > 1 THEN Signalled(caller, Callers) ELSE {caller}

(* if (_producer_wait_nums > 0) _p_cond.Notify() *)
NotifyProducer ==
  IF producer_wait_nums > 0 THEN Signalled(caller, Callers) ELSE {caller}

HandlerTake(w) ==
  /\ task_queue # <<>>
  /\ task' = [task EXCEPT ![w] = Head(task_queue)]
  /\ task_queue' = Tail(task_queue)
  /\ status' = [status EXCEPT ![Head(task_queue)] = "running"]
  /\ worker' = [worker EXCEPT ![w] = "running"]
  /\ thread_wait_nums' = WorkersAfterWakeup(w)
  /\ caller' \in NotifyProducer
  /\ UNCHANGED <<poolVars, producer_wait_nums, threadVars, call>>

(* One pass of HandlerTask through the critical section. *)
HandlerTask(w) ==
  /\ worker[w] \in {"ready", "woken"}
  /\ HandlerSleep(w) \/ HandlerExit(w) \/ HandlerTake(w)

(* task() returns, outside the mutex. *)
RunTask(w) ==
  /\ worker[w] = "running"
  /\ worker' = [worker EXCEPT ![w] = "ready"]
  /\ status' = [status EXCEPT ![task[w]] = "done"]
  /\ task' = [task EXCEPT ![w] = NoCall]
  /\ UNCHANGED <<poolVars, task_queue, thread_wait_nums, producer_wait_nums,
                 threadVars, caller, call>>

(* Routine clears the flag of its own Thread object and ends. *)
RoutineEnd(w) ==
  /\ worker[w] = "left"
  /\ worker' = [worker EXCEPT ![w] = "ended"]
  /\ flag' = [flag EXCEPT ![w] = FALSE]
  /\ UNCHANGED <<poolVars, task_queue, thread_wait_nums, producer_wait_nums,
                 task, joined, caller, call, status>>

-----------------------------------------------------------------------------
(* Stop and Thread::Join *)

(* The pool is not running (any more, or not yet): Stop returns. *)
StopIgnored ==
  /\ caller[Main] = "ready" /\ call[Main] = StopCall
  /\ ~isrunning
  /\ CallerAt(Main, "outside")
  /\ call' = [call EXCEPT ![Main] = NoCall]
  /\ UNCHANGED <<poolVars, task_queue, thread_wait_nums, producer_wait_nums,
                 worker, task, threadVars, status>>

(* Slip: the workers are not told. *)
StopBeginSilent ==
  /\ caller[Main] = "ready" /\ call[Main] = StopCall
  /\ s_mutex = NoCall
  /\ isrunning
  /\ isrunning' = FALSE
  /\ caller' = [Broadcast(caller, Callers) EXCEPT ![Main] = "joining"]
  /\ next_join' = 1
  /\ UNCHANGED <<instance, s_mutex, next_start, task_queue, thread_wait_nums,
                 producer_wait_nums, worker, task, threadVars, call, status>>

(* The critical section of Stop.  Assumed of the callers: Stop does not    *)
(* run while another thread's Start is still filling _threads.             *)
StopBegin ==
  /\ caller[Main] = "ready" /\ call[Main] = StopCall
  /\ s_mutex = NoCall
  /\ isrunning
  /\ isrunning' = FALSE
  /\ worker' = Broadcast(worker, Workers)
  /\ caller' = [Broadcast(caller, Callers) EXCEPT ![Main] = "joining"]
  /\ next_join' = 1
  /\ UNCHANGED <<instance, s_mutex, next_start, task_queue, thread_wait_nums,
                 producer_wait_nums, task, threadVars, call, status>>

(* Join returns at once when the flag is not set. *)
JoinSkip ==
  /\ caller[Main] = "joining"
  /\ next_join \in Workers
  /\ ~flag[next_join]
  /\ next_join' = next_join + 1
  /\ UNCHANGED <<instance, s_mutex, isrunning, next_start, task_queue,
                 thread_wait_nums, producer_wait_nums, worker, task,
                 threadVars, caller, call, status>>

(* Join saw the flag set and calls pthread_join. *)
JoinBlock ==
  /\ caller[Main] = "joining"
  /\ next_join \in Workers
  /\ flag[next_join]
  /\ CallerAt(Main, "blocked")
  /\ UNCHANGED <<poolVars, task_queue, thread_wait_nums, producer_wait_nums,
                 worker, task, threadVars, call, status>>

(* pthread_join returns: the thread has ended and is reclaimed. *)
JoinReturn ==
  /\ caller[Main] = "blocked"
  /\ worker[next_join] = "ended"
  /\ joined' = joined \cup {next_join}
  /\ flag' = [flag EXCEPT ![next_join] = FALSE]
  /\ next_join' = next_join + 1
  /\ CallerAt(Main, "joining")
  /\ UNCHANGED <<instance, s_mutex, isrunning, next_start, task_queue,
                 thread_wait_nums, producer_wait_nums, worker, task, call,
                 status>>

StopDone ==
  /\ caller[Main] = "joining"
  /\ next_join = ThreadCnt + 1
  /\ CallerAt(Main, "outside")
  /\ call' = [call EXCEPT ![Main] = NoCall]
  /\ UNCHANGED <<poolVars, task_queue, thread_wait_nums, producer_wait_nums,
                 worker, task, threadVars, status>>

-----------------------------------------------------------------------------
(* pthread_cond_wait may return without any signal. *)
SpuriousWorker(w) ==
  /\ worker[w] = "waiting"
  /\ worker' = [worker EXCEPT ![w] = "woken"]
  /\ UNCHANGED <<poolVars, task_queue, thread_wait_nums, producer_wait_nums,
                 task, threadVars, caller, call, status>>

SpuriousProducer(c) ==
  /\ caller[c] = "waiting"
  /\ CallerAt(c, "woken")
  /\ UNCHANGED <<poolVars, task_queue, thread_wait_nums, producer_wait_nums,
                 worker, task, threadVars, call, status>>

GetInstance(c) ==
  \/ GetInstanceFast(c) \/ GetInstanceCreate(c) \/ StartRunning(c)
  \/ StartCreate(c) \/ StartCreateFails(c) \/ StartMark(c) \/ StartDone(c)

Stop == StopIgnored \/ StopBegin \/ JoinSkip \/ JoinBlock \/ JoinReturn \/ StopDone

WorkerStep(w) == HandlerTask(w) \/ RunTask(w) \/ RoutineEnd(w)
CallerStep(c) ==
  GetInstance(c) \/ Enqueue(c) \/ EnqueueResume(c) \/ (c = Main /\ Stop)

Next ==
  \/ \E c \in Callers, t \in Tasks : CallEnqueue(c, t)
  \/ CallStop
  \/ \E c \in Callers : CallerStep(c)
  \/ \E w \in Workers : WorkerStep(w)
  \/ \E w \in Workers : SpuriousWorker(w)
  \/ \E c \in Callers : SpuriousProducer(c)

(* A thread that has begun a call, or runs in the pool, goes on when it    *)
(* can, and tasks return.  Nobody has to begin a call.                     *)
Fairness ==
  /\ \A c \in Callers : WF_vars(CallerStep(c))
  /\ \A w \in Workers : WF_vars(WorkerStep(w))

Spec == Init /\ [][Next]_vars
FairSpec == Spec /\ Fairness

-----------------------------------------------------------------------------
(* The types; the queue within its capacity; a caller carries a call       *)
(* exactly while it is inside one; a worker carries a task while it runs.  *)
TypeOK ==
  /\ instance \in BOOLEAN /\ isrunning \in BOOLEAN
  /\ s_mutex \in Callers \cup {NoCall}
  /\ next_start \in 0 .. ThreadCnt + 1
  /\ next_join \in 0 .. ThreadCnt + 1
  /\ task_queue \in Seq(Tasks) /\ Len(task_queue) <= Cap
  /\ thread_wait_nums \in Nat /\ producer_wait_nums \in Nat
  /\ worker \in [Workers -> WorkerStates]
  /\ task \in [Workers -> Tasks \cup {NoCall}]
  /\ flag \in [Workers -> BOOLEAN]
  /\ joined \in SUBSET Workers
  /\ caller \in [Callers -> CallerStates]
  /\ call \in [Callers -> Tasks \cup {StopCall, NoCall}]
  /\ status \in [Tasks -> {"new", "offered", "queued", "running", "done",
                           "rejected"}]
  /\ \A c \in Callers : caller[c] = "outside" <=> call[c] = NoCall
  /\ \A w \in Workers : worker[w] = "running" <=> task[w] # NoCall

(* Those inside Wait, asleep or woken and not yet holding the mutex. *)
InWait(st, S) == Waiting(st, S) \cup Woken(st, S)

(* The hand-kept counters, on which every Notify depends, always equal the *)
(* number of threads inside Wait, also across broadcasts and spurious      *)
(* wake-ups.                                                               *)
CountersExact ==
  /\ thread_wait_nums = Cardinality(InWait(worker, Workers))
  /\ producer_wait_nums = Cardinality(InWait(caller, Callers))

(* No wake-up of a worker is lost: while one sleeps the pool is running    *)
(* and every queued task has a woken worker on its way to it.              *)
SleepingWorkersCovered ==
  Waiting(worker, Workers) # {} =>
    /\ isrunning
    /\ Len(task_queue) <= Cardinality(Woken(worker, Workers))

(* No wake-up of a producer is lost while the pool runs: while one sleeps  *)
(* every free place has a woken producer on its way to it.                 *)
SleepingProducersCovered ==
  isrunning /\ Waiting(caller, Callers) # {} =>
    Cap - Len(task_queue) <= Cardinality(Woken(caller, Callers))

StopReturned ==
  next_join = ThreadCnt + 1 /\ caller[Main] \notin {"joining", "blocked"}

(* When Stop has returned, every task whose Enqueue returned true has been *)
(* run to its end, and no pool thread is inside HandlerTask.               *)
StopDrains ==
  StopReturned =>
    /\ \A t \in Tasks : status[t] \in {"new", "offered", "done", "rejected"}
    /\ \A w \in Workers : worker[w] \in {"failed", "left", "ended"}

(* The pool is a WorkPool: accepted tasks begin in order, once each, none  *)
(* is accepted outside the time between Start and Stop, none is refused    *)
(* inside it.                                                              *)
Phase ==
  IF isrunning THEN "open" ELSE IF next_start = 0 THEN "before" ELSE "after"
Pool == INSTANCE WorkPool WITH
  phase <- Phase,
  queue <- task_queue,
  status <- [t \in Tasks |-> IF status[t] = "offered" THEN "new" ELSE status[t]]
ImplementsWorkPool == Pool!Spec

(* Every accepted task is run, whether or not the pool is stopped. *)
AcceptedRuns == \A t \in Tasks : status[t] = "queued" ~> status[t] = "done"

(* Stop returns: no worker sleeps through the shutdown. *)
StopReturns == call[Main] = StopCall ~> call[Main] = NoCall

(* While the pool runs, an Enqueue returns. *)
EnqueueReturns ==
  \A t \in Tasks : status[t] = "offered" ~> (status[t] # "offered" \/ Phase = "after")

-----------------------------------------------------------------------------
(* Expected of the code and not so. *)

(* "Everybody stop sleeping": after Stop, no producer stays asleep. *)
StopReleasesProducers == [](StopReturned => <>(Waiting(caller, Callers) = {}))

(* "All threads reclaimed": when Stop returns, every thread that was       *)
(* created has been joined.                                                *)
AllThreadsReclaimed ==
  StopReturned => \A w \in Workers : worker[w] = "ended" => w \in joined

(* Once _instance is set the mutex need not be taken: nobody is turned     *)
(* away by a pool that nobody has stopped.                                 *)
RefusedOnlyAfterStop ==
  (\E t \in Tasks : status[t] = "rejected") => Phase = "after"
=============================================================================
