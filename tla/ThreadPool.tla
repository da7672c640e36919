----------------------------- MODULE ThreadPool -----------------------------
(***************************************************************************)
(* ThreadPoolff: callers put tasks into a queue, workers take them out, on *)
(* two conditions, notEmpty_ and notFull_, of one mutex; the owner starts  *)
(* the workers one by one and stops them.                                  *)
(*                                                                         *)
(* What is done while the mutex is held is one step; a wait is two: going  *)
(* to sleep, and the check of the loop after a wakeup.  pthread_cond_wait  *)
(* may return without a notify.                                            *)
(***************************************************************************)
EXTENDS Integers, Sequences, FiniteSets, SequencesExt, Thread

CONSTANTS
    Callers,        \* threads that call run()
    MaxThreads,     \* bound on numThreads
    MaxSizes,       \* the values of maxQueueSize_, 0 for no limit
    MaxTasks        \* bound: tasks that one caller has

ASSUME PoolAssumption ==
    /\ MaxThreads \in Nat /\ MaxTasks \in Nat
    /\ MaxSizes \subseteq Nat

VARIABLES
    numThreads,     \* the argument of start()
    maxQueueSize,   \* maxQueueSize_
    queue,          \* queue_
    running,        \* running_
    threads,        \* the threads: worker i runs runInThread()
    worker,         \* where worker i is: "check" (while(running_)), "take", "asleep" (in
                    \* notEmpty_.wait()), "task", "done"; "none" before it runs
    owner,          \* where the owner is: "new", "start", "latch", "started", "notify",
                    \* "join", "stopped"
    at,             \* the thread that the owner starts or joins
    caller,         \* where a caller is: "idle", "run", "asleep" (in notFull_.wait())
    calls,          \* history: the calls of run() that a caller has begun
    put,            \* history: the tasks pushed, in order
    taken,          \* history: the tasks taken or run by the caller itself, in order
    refused         \* history: the tasks that run() refused since the pool stops

pool  == <<numThreads, maxQueueSize>>
tasks == <<queue, put, taken, refused>>
vars  == <<pool, tasks, running, threads, worker, owner, at, caller, calls>>

Ids == 1 .. MaxThreads
Workers == 1 .. numThreads
Task == [by : Callers, n : 1 .. MaxTasks]
TaskOf(c) == [by |-> c, n |-> calls[c]]

\* Faulty: the queue is full only when it has one task more than it may have.
IsFullLate == maxQueueSize > 0 /\ Len(queue) > maxQueueSize

IsFull == maxQueueSize > 0 /\ Len(queue) >= maxQueueSize

Init ==
    /\ numThreads \in 0 .. MaxThreads
    /\ maxQueueSize \in MaxSizes
    /\ queue = << >>
    /\ running = FALSE
    /\ threads = [i \in Ids |-> NewThread]
    /\ worker = [i \in Ids |-> "none"]
    /\ owner = "new"
    /\ at = 0
    /\ caller = [c \in Callers |-> "idle"]
    /\ calls = [c \in Callers |-> 0]
    /\ put = << >>
    /\ taken = << >>
    /\ refused = {}

\* A signal wakes one of the threads asleep, if there is one; a broadcast wakes all.
Wake(place, sleepers, awake) ==
    IF sleepers = {} THEN {place} ELSE {[place EXCEPT ![t] = awake] : t \in sleepers}

WakeAll(place, awake) == [t \in DOMAIN place |-> IF place[t] = "asleep" THEN awake ELSE place[t]]

AsleepIn(place) == {t \in DOMAIN place : place[t] = "asleep"}

\* Faulty: notEmpty_ is not notified.
TaskNotNotified == {worker}

\* What becomes of the workers when a task has been pushed.
TaskNotified == Wake(worker, AsleepIn(worker), "take")

\* Faulty: notFull_ is not notified.
RoomNotNotified == {caller}

\* What becomes of the callers when a task has been taken.
RoomNotified == IF maxQueueSize > 0 THEN Wake(caller, AsleepIn(caller), "run") ELSE {caller}

-----------------------------------------------------------------------------
(* The owner.                                                              *)

\* start(): running_ is set before there is any thread.
Start ==
    /\ owner = "new"
    /\ owner' = "start"
    /\ running' = TRUE
    /\ at' = 1
    /\ UNCHANGED <<pool, tasks, threads, worker, caller, calls>>

CreateThread ==
    /\ owner = "start" /\ at \in Workers
    /\ owner' = "latch"
    /\ threads' = [threads EXCEPT ![at] = Started(@)]
    /\ UNCHANGED <<pool, tasks, running, worker, at, caller, calls>>

\* Threadff::start() waits for the new thread.
WaitForThread ==
    /\ owner = "latch" /\ ~threads[at].asleep
    /\ IF LatchOpen(threads[at])
       THEN owner' = "start" /\ at' = at + 1 /\ UNCHANGED threads
       ELSE threads' = [threads EXCEPT ![at] = LatchWaited(@)] /\ UNCHANGED <<owner, at>>
    /\ UNCHANGED <<pool, tasks, running, worker, caller, calls>>

StartReturns ==
    /\ owner = "start" /\ at \notin Workers
    /\ owner' = "started"
    /\ UNCHANGED <<pool, tasks, running, threads, worker, at, caller, calls>>

\* Faulty: only the callers that wait for room are told of the stop.
StopOneSide ==
    /\ owner = "started"
    /\ owner' = "join"
    /\ running' = FALSE
    /\ at' = 1
    /\ caller' = WakeAll(caller, "run")
    /\ UNCHANGED <<pool, tasks, threads, worker, calls>>

\* stop() or the destructor: the critical section.
Stop ==
    /\ owner = "started"
    /\ owner' = "join"
    /\ running' = FALSE
    /\ at' = 1
    /\ worker' = WakeAll(worker, "take")
    /\ caller' = WakeAll(caller, "run")
    /\ UNCHANGED <<pool, tasks, threads, calls>>

Join ==
    /\ owner = "join" /\ at \in Workers
    /\ threads[at].body = "ended"
    /\ threads' = [threads EXCEPT ![at] = Joined(@)]
    /\ at' = at + 1
    /\ UNCHANGED <<pool, tasks, running, worker, owner, caller, calls>>

StopReturns ==
    /\ owner = "join" /\ at \notin Workers
    /\ owner' = "stopped"
    /\ UNCHANGED <<pool, tasks, running, threads, worker, at, caller, calls>>

-----------------------------------------------------------------------------
(* The workers.                                                            *)

\* The thread stores its tid, opens the latch and goes on to runInThread().
Begin(i) ==
    /\ threads[i].body = "born"
    /\ threads' = [threads EXCEPT ![i] = CountedDown(@)]
    /\ worker' = [worker EXCEPT ![i] = "check"]
    /\ UNCHANGED <<pool, tasks, running, owner, at, caller, calls>>

\* while(running_), without the mutex.
Check(i) ==
    /\ worker[i] = "check"
    /\ IF running
       THEN worker' = [worker EXCEPT ![i] = "take"] /\ UNCHANGED threads
       ELSE /\ worker' = [worker EXCEPT ![i] = "done"]
            /\ threads' = [threads EXCEPT ![i] = Ended(@)]
    /\ UNCHANGED <<pool, tasks, running, owner, at, caller, calls>>

\* take(), under the mutex, up to a wait or the return.
Take(i) ==
    /\ worker[i] = "take"
    /\ \/ /\ queue = << >> /\ running
          /\ worker' = [worker EXCEPT ![i] = "asleep"]
          /\ UNCHANGED <<queue, taken, caller>>
       \/ /\ queue = << >> /\ ~running
          /\ worker' = [worker EXCEPT ![i] = "check"]
          /\ UNCHANGED <<queue, taken, caller>>
       \/ /\ queue # << >>
          /\ taken' = Append(taken, Head(queue))
          /\ queue' = Tail(queue)
          /\ worker' = [worker EXCEPT ![i] = "task"]
          /\ caller' \in RoomNotified
    /\ UNCHANGED <<pool, running, threads, owner, at, calls, put, refused>>

TaskReturns(i) ==
    /\ worker[i] = "task"
    /\ worker' = [worker EXCEPT ![i] = "check"]
    /\ UNCHANGED <<pool, tasks, running, threads, owner, at, caller, calls>>

WorkerWakes(i) ==
    /\ worker[i] = "asleep"
    /\ worker' = [worker EXCEPT ![i] = "take"]
    /\ UNCHANGED <<pool, tasks, running, threads, owner, at, caller, calls>>

-----------------------------------------------------------------------------
(* The callers.  Nobody calls run() while the owner is in start(): both    *)
(* would use threads_ without a lock.                                      *)

NoThreads == owner = "new" \/ numThreads = 0

CallRun(c) ==
    /\ caller[c] = "idle" /\ calls[c] < MaxTasks
    /\ owner \notin {"start", "latch"}
    /\ calls' = [calls EXCEPT ![c] = @ + 1]
    /\ IF NoThreads
       THEN taken' = Append(taken, TaskOf(c)') /\ put' = Append(put, TaskOf(c)') /\ UNCHANGED caller
       ELSE caller' = [caller EXCEPT ![c] = "run"] /\ UNCHANGED <<taken, put>>
    /\ UNCHANGED <<pool, queue, refused, running, threads, worker, owner, at>>

\* run(), under the mutex: there is room.
Put(c) ==
    /\ caller[c] = "run" /\ running /\ ~IsFull
    /\ queue' = Append(queue, TaskOf(c))
    /\ put' = Append(put, TaskOf(c))
    /\ caller' = [caller EXCEPT ![c] = "idle"]
    /\ worker' \in TaskNotified
    /\ UNCHANGED <<pool, refused, taken, running, threads, owner, at, calls>>

WaitForRoom(c) ==
    /\ caller[c] = "run" /\ running /\ IsFull
    /\ caller' = [caller EXCEPT ![c] = "asleep"]
    /\ UNCHANGED <<pool, tasks, running, threads, worker, owner, at, calls>>

\* The pool has stopped: the task is dropped.
Refuse(c) ==
    /\ caller[c] = "run" /\ ~running
    /\ refused' = refused \cup {TaskOf(c)}
    /\ caller' = [caller EXCEPT ![c] = "idle"]
    /\ UNCHANGED <<pool, queue, put, taken, running, threads, worker, owner, at, calls>>

CallerWakes(c) ==
    /\ caller[c] = "asleep"
    /\ caller' = [caller EXCEPT ![c] = "run"]
    /\ UNCHANGED <<pool, tasks, running, threads, worker, owner, at, calls>>

-----------------------------------------------------------------------------
OwnerStep == \/ Start \/ CreateThread \/ WaitForThread \/ StartReturns
             \/ Stop \/ Join \/ StopReturns
WorkerStep(i) == Begin(i) \/ Check(i) \/ Take(i) \/ TaskReturns(i)
CallerStep(c) == CallRun(c) \/ Put(c) \/ WaitForRoom(c) \/ Refuse(c)

Next == \/ OwnerStep
        \/ \E i \in Workers : WorkerStep(i) \/ WorkerWakes(i)
        \/ \E c \in Callers : CallerStep(c) \/ CallerWakes(c)

Spec == Init /\ [][Next]_vars

\* Threads run, and tasks return; a call that has begun goes on.  Nothing is said of stop(), of
\* new calls, nor of wakeups without a notify.  The mutex is fair enough for a caller that finds
\* room again and again.
FairSpec ==
    /\ Spec
    /\ WF_vars(CreateThread \/ WaitForThread \/ StartReturns \/ Join \/ StopReturns)
    /\ \A i \in Ids : WF_vars(i \in Workers /\ WorkerStep(i))
    /\ \A c \in Callers : /\ SF_vars(Put(c))
                          /\ WF_vars(WaitForRoom(c) \/ Refuse(c))

-----------------------------------------------------------------------------
(* Properties.                                                             *)

TypeOK ==
    /\ numThreads \in 0 .. MaxThreads /\ maxQueueSize \in MaxSizes
    /\ queue \in Seq(Task) /\ put \in Seq(Task) /\ taken \in Seq(Task)
    /\ refused \subseteq Task
    /\ running \in BOOLEAN
    /\ threads \in [Ids -> ThreadType]
    /\ worker \in [Ids -> {"none", "check", "take", "asleep", "task", "done"}]
    /\ owner \in {"new", "start", "latch", "started", "join", "stopped"}
    /\ at \in 0 .. MaxThreads + 1
    /\ caller \in [Callers -> {"idle", "run", "asleep"}]
    /\ calls \in [Callers -> 0 .. MaxTasks]

\* The pool is a bounded queue: tasks start in the order in which they were put in, each once,
\* and at most maxQueueSize_ wait, which is what the assertion in run() is about.
BoundedFifo ==
    /\ TypeOK
    /\ put = taken \o queue
    /\ maxQueueSize > 0 => Len(queue) <= maxQueueSize
    /\ \A i, j \in DOMAIN put : put[i] = put[j] => i = j

\* Nobody sleeps on something that is there while nobody is about to take it: if tasks wait and a
\* worker sleeps, another is awake, and if there is room and a caller sleeps, another thread is
\* on its way that will tell it or has been told; and after a stop nobody is asleep.
NoLostNotify ==
    /\ queue # << >> /\ AsleepIn(worker) # {} =>
          \E i \in Workers : worker[i] \in {"check", "take", "task"}
    /\ ~IsFull /\ AsleepIn(caller) # {} =>
          \/ \E c \in Callers : caller[c] = "run"
          \/ queue # << >>
    /\ owner \in {"join", "stopped"} => AsleepIn(worker) = {} /\ AsleepIn(caller) = {}
    /\ \A i \in Ids : threads[i].asleep => threads[i].count > 0

\* start() returns when every worker has its tid (the assertion in Threadff::start), and stop()
\* when every worker has ended, so that nothing runs in the pool once it is destroyed.
StartedAndStopped ==
    /\ owner \in {"started", "join", "stopped"} =>
          \A i \in Workers : threads[i].tid /\ threads[i].count = 0
    /\ owner = "stopped" => \A i \in Workers : threads[i].joined /\ worker[i] = "done"

\* A task that is put in is started, unless the pool is stopped.
TasksStart == \A c \in Callers : \A n \in 1 .. MaxTasks :
    LET task == [by |-> c, n |-> n]
    IN  Contains(queue, task) ~> Contains(taken, task) \/ ~running

\* A call of run() comes back, by itself or since the pool is stopped: nobody waits for ever on
\* a full queue.  start() and stop() come back too.
CallsReturn ==
    /\ \A c \in Callers : caller[c] \in {"run", "asleep"} ~> caller[c] = "idle"
    /\ owner = "start" ~> owner = "started"
    /\ owner = "join" ~> owner = "stopped"
=============================================================================
