-------------------------- MODULE ThreadPoolProofs --------------------------
(***************************************************************************)
(* For any number of callers, workers and tasks and queues of any size the *)
(* pool is a bounded queue, nobody sleeps on something that is there, and  *)
(* start() and stop() leave the workers as they should be.                 *)
(***************************************************************************)
EXTENDS ThreadPool, SequenceTheorems, TLAPS

\* Each thread has as much of a tid and a latch as its body has got to, and worker[i] follows it.
ThreadInv ==
    \A i \in Ids :
        /\ threads[i].count = IF threads[i].body \in {"none", "born"} THEN 1 ELSE 0
        /\ threads[i].tid <=> threads[i].body \in {"running", "ended"}
        /\ threads[i].asleep => threads[i].body = "born"
        /\ threads[i].joined => threads[i].body = "ended"
        /\ worker[i] = "none" <=> threads[i].body \in {"none", "born"}
        /\ worker[i] = "done" <=> threads[i].body = "ended"
        /\ i \notin Workers => threads[i].body = "none"

\* How far the owner is tells which threads have begun, and whether the pool runs.
OwnerInv ==
    /\ running <=> owner \in {"start", "latch", "started"}
    /\ owner = "new" => \A i \in Ids : threads[i].body = "none"
    /\ owner \in {"start", "latch", "join"} => at \in 1 .. numThreads + 1
    /\ owner = "latch" => at \in Workers /\ \A i \in Workers : i = at => threads[i].body # "none"
    /\ owner \in {"start", "latch"} => \A i \in Workers :
          /\ i < at => threads[i].body \in {"running", "ended"}
          /\ i > at => threads[i].body = "none"
    /\ owner = "start" => \A i \in Workers : i = at => threads[i].body = "none"
    /\ owner \in {"started", "join", "stopped"} =>
          \A i \in Workers : threads[i].body \in {"running", "ended"}
    /\ owner = "join" => \A i \in Workers : i < at => threads[i].joined
    /\ owner = "stopped" => \A i \in Workers : threads[i].joined

\* A call under way has a number that no task in the queue has, and is made of threads that run.
CallerInv ==
    /\ \A c \in Callers : caller[c] # "idle" =>
          /\ calls[c] > 0
          /\ ~NoThreads
          /\ owner \notin {"start", "latch"}
    /\ \A c \in Callers : caller[c] = "asleep" => maxQueueSize > 0
    /\ NoThreads => queue = << >>

\* The tasks put in are of calls that have begun, and not of those under way.
PutInv ==
    /\ \A k \in DOMAIN put :
          /\ put[k].n <= calls[put[k].by]
          /\ caller[put[k].by] # "idle" => put[k].n < calls[put[k].by]
    /\ owner \in {"start", "latch"} => queue = << >>

\* The inductive invariant.
PoolInv == BoundedFifo /\ NoLostNotify /\ ThreadInv /\ OwnerInv /\ CallerInv /\ PutInv

-----------------------------------------------------------------------------
(* What the operators do.                                                  *)

\* Each operation of a thread sets what its comment says and leaves the rest.
LEMMA ThreadOperations ==
    ASSUME NEW t \in ThreadType
    PROVE  /\ /\ Started(t) \in ThreadType
              /\ Started(t).body = "born" /\ (Started(t).tid <=> t.tid)
              /\ Started(t).count = t.count /\ (Started(t).asleep <=> t.asleep)
              /\ (Started(t).joined <=> t.joined)
           /\ /\ LatchWaited(t) \in ThreadType
              /\ LatchWaited(t).body = t.body /\ (LatchWaited(t).tid <=> t.tid)
              /\ LatchWaited(t).count = t.count /\ (LatchWaited(t).joined <=> t.joined)
           /\ /\ Ended(t) \in ThreadType
              /\ Ended(t).body = "ended" /\ (Ended(t).tid <=> t.tid) /\ Ended(t).count = t.count
              /\ (Ended(t).asleep <=> t.asleep) /\ (Ended(t).joined <=> t.joined)
           /\ /\ Joined(t) \in ThreadType
              /\ Joined(t).body = t.body /\ (Joined(t).tid <=> t.tid) /\ Joined(t).count = t.count
              /\ (Joined(t).asleep <=> t.asleep) /\ Joined(t).joined
<1> USE DEF ThreadType
<1>1. Started(t) \in ThreadType /\ LatchWaited(t) \in ThreadType
  BY DEF Started, LatchWaited
<1>2. Ended(t) \in ThreadType /\ Joined(t) \in ThreadType
  BY DEF Ended, Joined
<1>3. /\ Started(t).body = "born" /\ (Started(t).tid <=> t.tid)
      /\ Started(t).count = t.count /\ (Started(t).asleep <=> t.asleep)
      /\ (Started(t).joined <=> t.joined)
  BY DEF Started
<1>4. /\ LatchWaited(t).body = t.body /\ (LatchWaited(t).tid <=> t.tid)
      /\ LatchWaited(t).count = t.count /\ (LatchWaited(t).joined <=> t.joined)
  BY DEF LatchWaited
<1>5. /\ Ended(t).body = "ended" /\ (Ended(t).tid <=> t.tid) /\ Ended(t).count = t.count
      /\ (Ended(t).asleep <=> t.asleep) /\ (Ended(t).joined <=> t.joined)
  BY DEF Ended
<1>6. /\ Joined(t).body = t.body /\ (Joined(t).tid <=> t.tid) /\ Joined(t).count = t.count
      /\ (Joined(t).asleep <=> t.asleep) /\ Joined(t).joined
  BY DEF Joined
<1> QED BY <1>1, <1>2, <1>3, <1>4, <1>5, <1>6

\* A thread that begins has its tid, and its starter is awake.
LEMMA ThreadBegins ==
    ASSUME NEW t \in ThreadType, t.count = 1
    PROVE  /\ CountedDown(t) \in ThreadType
           /\ CountedDown(t).body = "running" /\ CountedDown(t).tid
           /\ CountedDown(t).count = 0 /\ ~CountedDown(t).asleep
           /\ (CountedDown(t).joined <=> t.joined)
<1> DEFINE u == [t EXCEPT !.asleep = FALSE, !.tid = TRUE]
           v == [u EXCEPT !.count = 0]
<1>1. (t.asleep /\ t.count # 1) = FALSE /\ t.count - 1 = 0
  OBVIOUS
<1>2. CountedDown(t) = [t EXCEPT !.tid = TRUE, !.count = t.count - 1,
                                 !.asleep = (t.asleep /\ t.count # 1), !.body = "running"]
  BY Zenon DEF CountedDown
<1>3. CountedDown(t) = [t EXCEPT !.tid = TRUE, !.count = 0, !.asleep = FALSE, !.body = "running"]
  BY <1>1, <1>2, Zenon
<1>4. CountedDown(t) = [v EXCEPT !.body = "running"]
  BY <1>3 DEF ThreadType
<1>5. /\ u \in ThreadType /\ u.tid /\ ~u.asleep /\ (u.joined <=> t.joined)
  BY DEF ThreadType
<1> HIDE DEF u
<1>6. /\ v \in ThreadType /\ v.tid /\ ~v.asleep /\ v.count = 0
      /\ (v.joined <=> t.joined)
  BY <1>5 DEF ThreadType
<1> HIDE DEF v
<1> QED BY <1>4, <1>6 DEF ThreadType

\* A notify or a broadcast only moves sleepers to the place where they look again; a notify
\* moves one, if there is one.
LEMMA NotifyMoves ==
    ASSUME NEW T, NEW P, NEW awake \in P, NEW place \in [T -> P], awake # "asleep",
           NEW moved, moved \in Wake(place, AsleepIn(place), awake) \/ moved = WakeAll(place, awake)
    PROVE  /\ moved \in [T -> P]
           /\ \A t \in T : moved[t] = place[t] \/ (place[t] = "asleep" /\ moved[t] = awake)
<1>1. CASE moved \in Wake(place, AsleepIn(place), awake)
  BY <1>1 DEF Wake, AsleepIn
<1>2. CASE moved = WakeAll(place, awake)
  BY <1>2 DEF WakeAll
<1> QED BY <1>1, <1>2

LEMMA NotifyWakesOne ==
    ASSUME NEW T, NEW P, NEW place \in [T -> P], NEW awake, AsleepIn(place) # {},
           NEW moved \in Wake(place, AsleepIn(place), awake)
    PROVE  \E t \in T : place[t] = "asleep" /\ moved[t] = awake
BY DEF Wake, AsleepIn

\* A task that moves from the queue to those taken leaves their concatenation as it is.
LEMMA TakeKeepsOrder ==
    ASSUME NEW S, NEW s \in Seq(S), NEW q \in Seq(S), q # << >>
    PROVE  Append(s, Head(q)) \o Tail(q) = s \o q
<1>1. Head(q) \in S /\ Tail(q) \in Seq(S) /\ Len(Tail(q)) = Len(q) - 1
      /\ \A k \in 1 .. Len(Tail(q)) : Tail(q)[k] = q[k + 1]
  BY HeadTailProperties
<1>2. Append(s, Head(q)) \in Seq(S) /\ Len(Append(s, Head(q))) = Len(s) + 1
  BY <1>1
<1>3. Head(q) = q[1] /\ Len(q) \in Nat \ {0} /\ Len(s) \in Nat
  OBVIOUS
<1>4. /\ Append(s, Head(q)) \o Tail(q) \in Seq(S) /\ s \o q \in Seq(S)
      /\ Len(Append(s, Head(q)) \o Tail(q)) = Len(s \o q)
      /\ Len(s \o q) = Len(s) + Len(q)
  BY <1>1, <1>2, <1>3, ConcatProperties
<1>5. ASSUME NEW k \in 1 .. Len(s \o q)
      PROVE  (Append(s, Head(q)) \o Tail(q))[k] = (s \o q)[k]
  <2>1. (s \o q)[k] = IF k <= Len(s) THEN s[k] ELSE q[k - Len(s)]
    BY <1>4, ConcatProperties
  <2>2. (Append(s, Head(q)) \o Tail(q))[k] =
          IF k <= Len(s) + 1 THEN Append(s, Head(q))[k] ELSE Tail(q)[k - (Len(s) + 1)]
    BY <1>1, <1>2, <1>3, <1>4, ConcatProperties
  <2>3. CASE k <= Len(s) + 1
    BY <1>1, <1>3, <1>4, <2>1, <2>2, <2>3, AppendProperties
  <2>4. CASE k > Len(s) + 1
    <3>1. k - (Len(s) + 1) \in 1 .. Len(Tail(q))
      BY <1>1, <1>3, <1>4, <2>4
    <3> QED BY <1>1, <1>3, <2>1, <2>2, <2>4, <3>1
  <2> QED BY <1>3, <1>4, <2>3, <2>4
<1> QED BY <1>4, <1>5, SeqEqual

\* A task put in goes to the end of both.
LEMMA PutKeepsOrder ==
    ASSUME NEW S, NEW s \in Seq(S), NEW q \in Seq(S), NEW e \in S
    PROVE  s \o Append(q, e) = Append(s \o q, e)
<1>1. s \o Append(q, e) = s \o (q \o <<e>>) /\ Append(s \o q, e) = (s \o q) \o <<e>>
  BY ConcatProperties, AppendIsConcat
<1>2. <<e>> \in Seq(S)
  OBVIOUS
<1> QED BY <1>1, <1>2, ConcatAssociative

-----------------------------------------------------------------------------
(* Initially.                                                              *)

LEMMA NewThreadIsNew ==
    /\ NewThread \in ThreadType
    /\ NewThread.body = "none" /\ NewThread.tid = FALSE /\ NewThread.count = 1
    /\ NewThread.asleep = FALSE /\ NewThread.joined = FALSE
BY DEF NewThread, ThreadType

LEMMA PoolInit == Init => PoolInv
<1> SUFFICES ASSUME Init PROVE PoolInv
  OBVIOUS
<1>1. TypeOK
  <2>1. << >> \in Seq(Task) /\ numThreads \in 0 .. MaxThreads /\ 0 \in 0 .. MaxThreads + 1
        /\ 0 \in 0 .. MaxTasks
    BY PoolAssumption DEF Init
  <2>2. threads \in [Ids -> ThreadType]
    BY NewThreadIsNew DEF Init
  <2> QED BY <2>1, <2>2 DEF Init, TypeOK
<1>2. /\ put = << >> /\ taken = << >> /\ queue = << >> /\ owner = "new" /\ ~running
      /\ \A i \in Ids : threads[i] = NewThread /\ worker[i] = "none"
      /\ \A c \in Callers : caller[c] = "idle"
  BY DEF Init
<1>3. BoundedFifo
  <2>1. << >> = << >> \o << >>
    BY ConcatEmptySeq, EmptySeq
  <2>2. maxQueueSize > 0 => Len(queue) <= maxQueueSize
    BY <1>1, <1>2, PoolAssumption DEF TypeOK
  <2> QED BY <1>1, <1>2, <2>1, <2>2 DEF BoundedFifo
<1>4. NoLostNotify
  <2>1. AsleepIn(caller) = {}
    BY <1>1, <1>2 DEF AsleepIn, TypeOK
  <2> QED BY <1>2, <2>1, NewThreadIsNew DEF NoLostNotify
<1>5. ThreadInv
  BY <1>2, NewThreadIsNew DEF ThreadInv
<1>6. OwnerInv /\ CallerInv /\ PutInv
  BY <1>2, NewThreadIsNew DEF OwnerInv, CallerInv, PutInv
<1> QED BY <1>3, <1>4, <1>5, <1>6 DEF PoolInv

\* numThreads and maxQueueSize_ are never set again.
LEMMA SettingsStay == ASSUME [Next]_vars PROVE UNCHANGED pool
BY DEF vars, pool, Next, OwnerStep, Start, CreateThread, WaitForThread, StartReturns, Stop,
   Join, StopReturns, WorkerStep, CallerStep, Begin, Check, Take, TaskReturns, WorkerWakes,
   CallRun, Put, WaitForRoom, Refuse, CallerWakes

-----------------------------------------------------------------------------
(* The threads and their owner.                                            *)

\* An owner's step changes one thread at most, as Threadff::start and join do.
LEMMA OwnerKeepsThreads ==
    ASSUME PoolInv, OwnerStep
    PROVE  ThreadInv' /\ OwnerInv' /\ threads' \in [Ids -> ThreadType]
<1> USE DEF PoolInv, BoundedFifo
<1>0. /\ threads \in [Ids -> ThreadType]
      /\ worker \in [Ids -> {"none", "check", "take", "asleep", "task", "done"}]
      /\ numThreads \in Nat /\ at \in Nat /\ Workers \subseteq Ids /\ Ids \subseteq Nat
  BY PoolAssumption DEF TypeOK, Workers, Ids
<1>1. CASE Start
  BY <1>0, <1>1 DEF Start, ThreadInv, OwnerInv, pool, tasks, Workers
<1>2. CASE CreateThread
  <2>1. /\ owner = "start" /\ at \in Workers /\ owner' = "latch"
        /\ UNCHANGED <<numThreads, running, worker, at>>
        /\ threads' = [threads EXCEPT ![at] = Started(threads[at])]
    BY <1>2 DEF CreateThread, pool
  <2>2. threads[at].body = "none"
    BY <2>1 DEF OwnerInv
  <2>3. threads' \in [Ids -> ThreadType]
    BY <1>0, <2>1, ThreadOperations
  <2>4. ThreadInv'
    BY <1>0, <2>1, <2>2, ThreadOperations DEF ThreadInv, Workers
  <2>5. OwnerInv'
    BY <1>0, <2>1, <2>2, ThreadOperations DEF OwnerInv, Workers
  <2> QED BY <2>3, <2>4, <2>5
<1>3. CASE WaitForThread /\ LatchOpen(threads[at])
  <2>1. /\ owner = "latch" /\ owner' = "start" /\ at' = at + 1 /\ at \in Workers
        /\ UNCHANGED <<numThreads, running, worker, threads>>
        /\ threads[at].count = 0
    BY <1>3 DEF WaitForThread, pool, LatchOpen, OwnerInv
  <2>2. threads[at].body \in {"running", "ended"}
    BY <1>0, <2>1 DEF ThreadInv, ThreadType
  <2>3. ThreadInv'
    BY <2>1 DEF ThreadInv, Workers
  <2>4. OwnerInv'
    BY <1>0, <2>1, <2>2 DEF OwnerInv, Workers
  <2> QED BY <1>0, <2>1, <2>3, <2>4
<1>4. CASE WaitForThread /\ ~LatchOpen(threads[at])
  <2>1. /\ owner = "latch" /\ at \in Workers
        /\ UNCHANGED <<numThreads, running, worker, at, owner>>
        /\ threads' = [threads EXCEPT ![at] = LatchWaited(threads[at])]
        /\ threads[at].count # 0 /\ threads[at].body # "none"
    BY <1>4 DEF WaitForThread, pool, LatchOpen, OwnerInv
  <2>2. threads' \in [Ids -> ThreadType]
    BY <1>0, <2>1, ThreadOperations
  <2>3. ThreadInv'
    BY <1>0, <2>1, ThreadOperations DEF ThreadInv, Workers
  <2>4. OwnerInv'
    BY <1>0, <2>1, ThreadOperations DEF OwnerInv, Workers
  <2> QED BY <2>2, <2>3, <2>4
<1>5. CASE StartReturns \/ Stop \/ StopReturns
  <2>1. ThreadInv'
    <3>1. /\ UNCHANGED <<threads, numThreads>>
          /\ worker' = worker \/ worker' = WakeAll(worker, "take")
      BY <1>5 DEF StartReturns, Stop, StopReturns, pool
    <3>2. \A i \in Ids : worker'[i] = worker[i] \/ (worker[i] = "asleep" /\ worker'[i] = "take")
      BY <1>0, <3>1 DEF WakeAll
    <3> QED BY <3>1, <3>2 DEF ThreadInv, Workers
  <2>2. OwnerInv'
    BY <1>0, <1>5 DEF StartReturns, Stop, StopReturns, pool, OwnerInv, Workers
  <2> QED BY <1>0, <1>5, <2>1, <2>2 DEF StartReturns, Stop, StopReturns
<1>6. CASE Join
  <2>1. /\ owner = "join" /\ at \in Workers /\ threads[at].body = "ended"
        /\ at' = at + 1
        /\ UNCHANGED <<numThreads, running, worker, owner>>
        /\ threads' = [threads EXCEPT ![at] = Joined(threads[at])]
    BY <1>6 DEF Join, pool
  <2>2. threads' \in [Ids -> ThreadType]
    BY <1>0, <2>1, ThreadOperations
  <2>3. ThreadInv'
    BY <1>0, <2>1, ThreadOperations DEF ThreadInv, Workers
  <2>4. OwnerInv'
    BY <1>0, <2>1, ThreadOperations DEF OwnerInv, Workers
  <2> QED BY <2>2, <2>3, <2>4
<1> QED BY <1>1, <1>2, <1>3, <1>4, <1>5, <1>6 DEF OwnerStep

Places == {"none", "check", "take", "asleep", "task", "done"}

\* A worker that begins or ends takes its thread with it; no other step of workers or callers
\* concerns the threads.
LEMMA WorkersKeepThreads ==
    ASSUME PoolInv, \/ \E i \in Workers : WorkerStep(i) \/ WorkerWakes(i)
                    \/ \E c \in Callers : CallerStep(c) \/ CallerWakes(c)
                    \/ UNCHANGED vars
    PROVE  /\ ThreadInv' /\ OwnerInv'
           /\ threads' \in [Ids -> ThreadType] /\ worker' \in [Ids -> Places]
<1> USE DEF PoolInv, BoundedFifo
<1>0. /\ threads \in [Ids -> ThreadType] /\ worker \in [Ids -> Places]
      /\ Workers \subseteq Ids
      /\ UNCHANGED <<numThreads, owner, running, at>>
  <2>1. UNCHANGED <<numThreads, owner, running, at>>
    BY DEF vars, pool, WorkerStep, CallerStep, Begin, Check, Take, TaskReturns, WorkerWakes,
       CallRun, Put, WaitForRoom, Refuse, CallerWakes
  <2> QED BY <2>1, PoolAssumption DEF TypeOK, Places, Workers, Ids
<1>1. ASSUME NEW i \in Workers, Begin(i)
      PROVE  /\ ThreadInv' /\ OwnerInv'
             /\ threads' \in [Ids -> ThreadType] /\ worker' \in [Ids -> Places]
  <2>1. /\ threads[i].body = "born" /\ threads[i].count = 1
        /\ threads' = [threads EXCEPT ![i] = CountedDown(threads[i])]
        /\ worker' = [worker EXCEPT ![i] = "check"]
    BY <1>0, <1>1 DEF Begin, ThreadInv
  <2>2. threads' \in [Ids -> ThreadType] /\ worker' \in [Ids -> Places]
    BY <1>0, <2>1, ThreadBegins DEF Places
  <2>3. ThreadInv'
    BY <1>0, <2>1, ThreadBegins DEF ThreadInv, Workers
  <2>4. OwnerInv'
    BY <1>0, <2>1, ThreadBegins DEF OwnerInv, ThreadInv, Workers
  <2> QED BY <2>2, <2>3, <2>4
<1>2. ASSUME NEW i \in Workers, Check(i), ~running
      PROVE  /\ ThreadInv' /\ OwnerInv'
             /\ threads' \in [Ids -> ThreadType] /\ worker' \in [Ids -> Places]
  <2>1. /\ threads[i].body = "running" /\ worker[i] = "check"
        /\ threads' = [threads EXCEPT ![i] = Ended(threads[i])]
        /\ worker' = [worker EXCEPT ![i] = "done"]
    BY <1>0, <1>2 DEF Check, ThreadInv, ThreadType
  <2>2. threads' \in [Ids -> ThreadType] /\ worker' \in [Ids -> Places]
    BY <1>0, <2>1, ThreadOperations DEF Places
  <2>3. ThreadInv'
    BY <1>0, <2>1, ThreadOperations DEF ThreadInv, Workers
  <2>4. OwnerInv'
    BY <1>0, <2>1, ThreadOperations DEF OwnerInv, Workers
  <2> QED BY <2>2, <2>3, <2>4
<1>3. ASSUME UNCHANGED threads, worker' \in [Ids -> Places],
             \A i \in Ids : \/ worker'[i] = worker[i]
                            \/ worker[i] \notin {"none", "done"} /\ worker'[i] \notin {"none", "done"}
      PROVE  /\ ThreadInv' /\ OwnerInv'
             /\ threads' \in [Ids -> ThreadType] /\ worker' \in [Ids -> Places]
  BY <1>0, <1>3 DEF ThreadInv, OwnerInv, Workers
<1>4. ASSUME NEW i \in Workers, (Check(i) /\ running) \/ Take(i) \/ TaskReturns(i) \/ WorkerWakes(i)
      PROVE  /\ ThreadInv' /\ OwnerInv'
             /\ threads' \in [Ids -> ThreadType] /\ worker' \in [Ids -> Places]
  <2>1. /\ UNCHANGED threads
        /\ \E p \in {"check", "take", "asleep", "task"} : worker' = [worker EXCEPT ![i] = p]
        /\ worker[i] \in {"check", "take", "asleep", "task"}
    BY <1>4 DEF Check, Take, TaskReturns, WorkerWakes
  <2>2. /\ worker' \in [Ids -> Places]
        /\ \A j \in Ids : \/ worker'[j] = worker[j]
                          \/ worker[j] \notin {"none", "done"} /\ worker'[j] \notin {"none", "done"}
    BY <1>0, <2>1 DEF Places
  <2> QED BY <1>3, <2>1, <2>2
<1>5. ASSUME NEW c \in Callers, Put(c)
      PROVE  /\ ThreadInv' /\ OwnerInv'
             /\ threads' \in [Ids -> ThreadType] /\ worker' \in [Ids -> Places]
  <2>1. UNCHANGED threads /\ worker' \in Wake(worker, AsleepIn(worker), "take")
    BY <1>5 DEF Put, TaskNotified
  <2>2. "take" \in Places
    BY DEF Places
  <2>3. /\ worker' \in [Ids -> Places]
        /\ \A j \in Ids : worker'[j] = worker[j] \/ (worker[j] = "asleep" /\ worker'[j] = "take")
    BY <1>0, <2>1, <2>2 DEF Wake, AsleepIn
  <2> QED BY <1>3, <2>1, <2>3
<1>6. ASSUME UNCHANGED <<threads, worker>>
      PROVE  /\ ThreadInv' /\ OwnerInv'
             /\ threads' \in [Ids -> ThreadType] /\ worker' \in [Ids -> Places]
  BY <1>0, <1>3, <1>6
<1>7. ASSUME \/ \E c \in Callers : CallRun(c) \/ WaitForRoom(c) \/ Refuse(c) \/ CallerWakes(c)
             \/ UNCHANGED vars
      PROVE  UNCHANGED <<threads, worker>>
  BY <1>7 DEF CallRun, WaitForRoom, Refuse, CallerWakes, vars
<1> QED BY <1>1, <1>2, <1>4, <1>5, <1>6, <1>7 DEF WorkerStep, CallerStep

-----------------------------------------------------------------------------
(* The callers and their tasks.                                            *)

\* What each step does to the callers: nothing, or what its name says.
LEMMA CallersMove ==
    ASSUME PoolInv, [Next]_vars
    PROVE  /\ caller' \in [Callers -> {"idle", "run", "asleep"}]
           /\ calls' \in [Callers -> 0 .. MaxTasks]
           /\ \A c \in Callers :
                 \/ caller'[c] = caller[c] /\ calls'[c] = calls[c]
                 \/ caller[c] = "asleep" /\ caller'[c] = "run" /\ calls'[c] = calls[c]
                 \/ caller'[c] = "idle" /\ calls'[c] = calls[c]
                 \/ caller[c] = "idle" /\ calls'[c] = calls[c] + 1 /\ caller'[c] \in {"idle", "run"}
                 \/ caller[c] = "run" /\ caller'[c] = "asleep" /\ calls'[c] = calls[c]
<1> DEFINE P == {"idle", "run", "asleep"}
           Goal == /\ caller' \in [Callers -> P]
                   /\ calls' \in [Callers -> 0 .. MaxTasks]
                   /\ \A c \in Callers :
                        \/ caller'[c] = caller[c] /\ calls'[c] = calls[c]
                        \/ caller[c] = "asleep" /\ caller'[c] = "run" /\ calls'[c] = calls[c]
                        \/ caller'[c] = "idle" /\ calls'[c] = calls[c]
                        \/ caller[c] = "idle" /\ calls'[c] = calls[c] + 1
                             /\ caller'[c] \in {"idle", "run"}
                        \/ caller[c] = "run" /\ caller'[c] = "asleep" /\ calls'[c] = calls[c]
<1>0. caller \in [Callers -> P] /\ calls \in [Callers -> 0 .. MaxTasks]
  BY DEF PoolInv, BoundedFifo, TypeOK
<1>1. CASE UNCHANGED <<caller, calls>>
  BY <1>0, <1>1
<1>2. CASE Stop
  BY <1>0, <1>2 DEF Stop, WakeAll
<1>3. ASSUME NEW i \in Workers, Take(i) PROVE Goal
  <2>1. UNCHANGED calls /\ (caller' = caller \/ caller' \in Wake(caller, AsleepIn(caller), "run"))
    BY <1>3 DEF Take, RoomNotified
  <2> QED BY <1>0, <2>1 DEF Wake, AsleepIn
<1>4. ASSUME NEW c \in Callers, CallerStep(c) \/ CallerWakes(c) PROVE Goal
  <2>1. CASE CallRun(c)
    <3>1. /\ caller[c] = "idle" /\ calls[c] < MaxTasks
          /\ calls' = [calls EXCEPT ![c] = calls[c] + 1]
          /\ caller' = caller \/ caller' = [caller EXCEPT ![c] = "run"]
      BY <2>1 DEF CallRun
    <3>2. calls[c] + 1 \in 0 .. MaxTasks
      BY <1>0, <3>1, PoolAssumption
    <3> QED BY <1>0, <3>1, <3>2
  <2>2. CASE Put(c) \/ Refuse(c)
    BY <1>0, <2>2 DEF Put, Refuse
  <2>3. CASE WaitForRoom(c) \/ CallerWakes(c)
    BY <1>0, <2>3 DEF WaitForRoom, CallerWakes
  <2> QED BY <1>4, <2>1, <2>2, <2>3 DEF CallerStep
<1>5. CASE \/ OwnerStep /\ ~Stop
           \/ \E i \in Workers : Begin(i) \/ Check(i) \/ TaskReturns(i) \/ WorkerWakes(i)
           \/ UNCHANGED vars
  <2>1. UNCHANGED <<caller, calls>>
    BY <1>5 DEF OwnerStep, Start, CreateThread, WaitForThread, StartReturns, Join, StopReturns,
       Begin, Check, TaskReturns, WorkerWakes, vars
  <2> QED BY <1>1, <2>1
<1> QED BY <1>2, <1>3, <1>4, <1>5 DEF Next, WorkerStep

\* A task that is put in is new: it is the last of its caller's.
LEMMA AppendNewTask ==
    ASSUME NEW s \in Seq(Task), NEW e \in Task,
           \A k \in DOMAIN s : s[k] # e,
           \A i, j \in DOMAIN s : s[i] = s[j] => i = j
    PROVE  /\ Append(s, e) \in Seq(Task)
           /\ \A i, j \in DOMAIN Append(s, e) : Append(s, e)[i] = Append(s, e)[j] => i = j
<1>1. /\ Append(s, e) \in Seq(Task) /\ Len(s) \in Nat
      /\ DOMAIN s = 1 .. Len(s) /\ DOMAIN Append(s, e) = 1 .. Len(s) + 1
      /\ \A k \in 1 .. Len(s) : Append(s, e)[k] = s[k]
      /\ Append(s, e)[Len(s) + 1] = e
  BY AppendProperties, LenProperties
<1>2. \A k \in 1 .. Len(s) + 1 : k \in 1 .. Len(s) \/ k = Len(s) + 1
  BY <1>1
<1> QED BY <1>1, <1>2

\* The queue, and what was put into it and taken out, go on as a bounded queue.
QueueInv ==
    /\ queue \in Seq(Task) /\ put \in Seq(Task) /\ taken \in Seq(Task)
    /\ put = taken \o queue
    /\ maxQueueSize > 0 => Len(queue) <= maxQueueSize
    /\ \A i, j \in DOMAIN put : put[i] = put[j] => i = j
    /\ \A k \in DOMAIN put :
          /\ put[k].n <= calls[put[k].by]
          /\ caller[put[k].by] # "idle" => put[k].n < calls[put[k].by]

\* A task that is put in, by a call that is over then.
LEMMA QueueGrows ==
    ASSUME PoolInv, [Next]_vars, NEW e \in Task, put' = Append(put, e),
           e.n = calls'[e.by], caller'[e.by] = "idle",
           caller[e.by] # "idle" \/ calls'[e.by] = calls[e.by] + 1
    PROVE  /\ put' \in Seq(Task)
           /\ \A i, j \in DOMAIN put' : put'[i] = put'[j] => i = j
           /\ \A k \in DOMAIN put' :
                 /\ put'[k].n <= calls'[put'[k].by]
                 /\ caller'[put'[k].by] # "idle" => put'[k].n < calls'[put'[k].by]
<1> USE DEF PoolInv
<1>0. /\ put \in Seq(Task) /\ e.by \in Callers
      /\ calls \in [Callers -> 0 .. MaxTasks] /\ calls' \in [Callers -> 0 .. MaxTasks]
  BY CallersMove DEF BoundedFifo, TypeOK, Task
<1>1. /\ DOMAIN put = 1 .. Len(put) /\ Len(put) \in Nat /\ DOMAIN put' = 1 .. Len(put) + 1
      /\ put' \in Seq(Task)
      /\ \A k \in 1 .. Len(put) : put'[k] = put[k] /\ put[k] \in Task
      /\ put'[Len(put) + 1] = e
  BY <1>0, AppendProperties, LenProperties
<1>2. \A k \in DOMAIN put : put[k].by \in Callers /\ put[k].n \in Nat
  BY <1>1, PoolAssumption DEF Task
<1>3. \A k \in DOMAIN put : put[k] # e
  <2> SUFFICES ASSUME NEW k \in DOMAIN put, put[k] = e PROVE FALSE
    OBVIOUS
  <2>1. /\ e.n <= calls[e.by] /\ (caller[e.by] # "idle" => e.n < calls[e.by])
    BY DEF PutInv
  <2>2. calls[e.by] \in Nat /\ calls'[e.by] \in Nat
    BY <1>0, PoolAssumption
  <2>3. calls'[e.by] = calls[e.by] \/ calls'[e.by] = calls[e.by] + 1
    BY <1>0, CallersMove
  <2> QED BY <2>1, <2>2, <2>3
<1>4. \A i, j \in DOMAIN put' : put'[i] = put'[j] => i = j
  BY <1>0, <1>3, AppendNewTask DEF BoundedFifo
<1>5. ASSUME NEW k \in 1 .. Len(put)
      PROVE  /\ put'[k].n <= calls'[put'[k].by]
             /\ caller'[put'[k].by] # "idle" => put'[k].n < calls'[put'[k].by]
  <2> DEFINE b == put[k].by
             m == put[k].n
  <2>1. b \in Callers /\ m \in Nat /\ m <= calls[b] /\ (caller[b] # "idle" => m < calls[b])
    BY <1>1, <1>2, <1>5 DEF PutInv
  <2>2. calls[b] \in Nat /\ calls'[b] \in Nat
    BY <1>0, <2>1, PoolAssumption
  <2>3. put'[k] = put[k]
    BY <1>1
  <2> HIDE DEF b, m
  <2>4. m <= calls'[b] /\ (caller'[b] # "idle" => m < calls'[b])
    BY <2>1, <2>2, CallersMove
  <2> QED BY <2>3, <2>4 DEF b, m
<1>6. calls'[e.by] \in Nat
  BY <1>0, PoolAssumption
<1> QED BY <1>1, <1>4, <1>5, <1>6

LEMMA QueueStep ==
    ASSUME PoolInv, [Next]_vars
    PROVE  QueueInv'
<1> USE DEF PoolInv
<1>0. /\ queue \in Seq(Task) /\ put \in Seq(Task) /\ taken \in Seq(Task)
      /\ put = taken \o queue
      /\ calls' \in [Callers -> 0 .. MaxTasks]
      /\ maxQueueSize \in Nat /\ maxQueueSize' = maxQueueSize
  <2>1. UNCHANGED pool
    BY SettingsStay DEF pool
  <2> QED BY <2>1, PoolAssumption, CallersMove DEF BoundedFifo, TypeOK, pool
<1>1. ASSUME UNCHANGED put
      PROVE  \A k \in DOMAIN put' :
                 /\ put'[k].n <= calls'[put'[k].by]
                 /\ caller'[put'[k].by] # "idle" => put'[k].n < calls'[put'[k].by]
  <2> SUFFICES ASSUME NEW k \in DOMAIN put
               PROVE  /\ put[k].n <= calls'[put[k].by]
                      /\ caller'[put[k].by] # "idle" => put[k].n < calls'[put[k].by]
    BY <1>1
  <2> DEFINE b == put[k].by
             m == put[k].n
  <2>1. b \in Callers /\ m \in Nat
    <3>1. put[k] \in Task
      BY <1>0, LenProperties, ElementOfSeq
    <3> QED BY <3>1, PoolAssumption DEF Task
  <2>2. m <= calls[b] /\ (caller[b] # "idle" => m < calls[b])
    BY DEF PutInv
  <2>3. calls[b] \in Nat /\ calls'[b] \in Nat
    BY <1>0, <2>1, PoolAssumption DEF BoundedFifo, TypeOK
  <2> HIDE DEF b, m
  <2>4. m <= calls'[b] /\ (caller'[b] # "idle" => m < calls'[b])
    BY <2>1, <2>2, <2>3, CallersMove
  <2> QED BY <2>4 DEF b, m
<1>2. CASE UNCHANGED <<queue, put, taken>>
  BY <1>0, <1>1, <1>2 DEF QueueInv, BoundedFifo
<1>3. ASSUME NEW i \in Workers, Take(i), queue # << >>
      PROVE  QueueInv'
  <2>1. /\ taken' = Append(taken, Head(queue)) /\ queue' = Tail(queue) /\ UNCHANGED put
    BY <1>3 DEF Take
  <2>2. /\ Head(queue) \in Task /\ Tail(queue) \in Seq(Task) /\ Len(Tail(queue)) = Len(queue) - 1
        /\ Len(queue) \in Nat
    BY <1>0, <1>3, HeadTailProperties
  <2>3. Append(taken, Head(queue)) \in Seq(Task)
    BY <1>0, <2>2
  <2>4. put' = taken' \o queue'
    BY <1>0, <1>3, <2>1, TakeKeepsOrder
  <2>5. maxQueueSize' > 0 => Len(queue') <= maxQueueSize'
    BY <1>0, <2>1, <2>2 DEF BoundedFifo
  <2> QED BY <1>0, <1>1, <2>1, <2>2, <2>3, <2>4, <2>5 DEF QueueInv, BoundedFifo
<1>4. ASSUME NEW c \in Callers, Put(c)
      PROVE  QueueInv'
  <2> DEFINE e == TaskOf(c)
  <2>1. /\ caller[c] = "run" /\ ~IsFull /\ caller' = [caller EXCEPT ![c] = "idle"]
        /\ queue' = Append(queue, e) /\ put' = Append(put, e) /\ UNCHANGED <<taken, calls>>
    BY <1>4 DEF Put
  <2>2. e \in Task /\ e.n = calls'[c] /\ e.by = c /\ caller'[c] = "idle"
    <3>1. calls[c] \in 0 .. MaxTasks /\ calls[c] > 0 /\ caller \in [Callers -> {"idle", "run", "asleep"}]
      BY <2>1 DEF CallerInv, BoundedFifo, TypeOK
    <3>2. calls[c] \in 1 .. MaxTasks
      BY <3>1, PoolAssumption
    <3> QED BY <2>1, <3>1, <3>2 DEF TaskOf, Task
  <2> HIDE DEF e
  <2>3. queue' \in Seq(Task) /\ Len(queue') = Len(queue) + 1 /\ Len(queue) \in Nat
    BY <1>0, <2>1, <2>2
  <2>4. put' = taken' \o queue'
    <3>1. taken \o Append(queue, e) = Append(taken \o queue, e)
      BY <1>0, <2>2, PutKeepsOrder
    <3> QED BY <1>0, <2>1, <3>1
  <2>5. maxQueueSize' > 0 => Len(queue') <= maxQueueSize'
    BY <1>0, <2>1, <2>3 DEF IsFull
  <2>6. /\ put' \in Seq(Task)
        /\ \A i, j \in DOMAIN put' : put'[i] = put'[j] => i = j
        /\ \A k \in DOMAIN put' :
                 /\ put'[k].n <= calls'[put'[k].by]
                 /\ caller'[put'[k].by] # "idle" => put'[k].n < calls'[put'[k].by]
    BY <2>1, <2>2, QueueGrows
  <2> QED BY <1>0, <2>1, <2>3, <2>4, <2>5, <2>6 DEF QueueInv
<1>5. ASSUME NEW c \in Callers, CallRun(c), NoThreads
      PROVE  QueueInv'
  <2> DEFINE e == TaskOf(c)'
  <2>1. /\ caller[c] = "idle" /\ calls[c] < MaxTasks /\ UNCHANGED <<caller, queue>>
        /\ calls' = [calls EXCEPT ![c] = calls[c] + 1]
        /\ taken' = Append(taken, e) /\ put' = Append(put, e)
    BY <1>5 DEF CallRun
  <2>2. e \in Task /\ e.n = calls'[c] /\ e.by = c /\ calls'[c] = calls[c] + 1
    <3>1. calls[c] \in 0 .. MaxTasks /\ calls'[c] = calls[c] + 1
      BY <2>1 DEF BoundedFifo, TypeOK
    <3>2. calls[c] + 1 \in 1 .. MaxTasks
      BY <2>1, <3>1, PoolAssumption
    <3> QED BY <3>1, <3>2 DEF TaskOf, Task
  <2> HIDE DEF e
  <2>3. queue = << >>
    BY <1>5 DEF CallerInv
  <2>4. taken' \in Seq(Task)
    BY <1>0, <2>1, <2>2
  <2>5. put' = taken' \o queue'
    <3>1. put = taken /\ taken' \o << >> = taken'
      BY <1>0, <2>3, <2>4, ConcatEmptySeq
    <3> QED BY <2>1, <2>3, <3>1
  <2>6. /\ put' \in Seq(Task)
        /\ \A i, j \in DOMAIN put' : put'[i] = put'[j] => i = j
        /\ \A k \in DOMAIN put' :
                 /\ put'[k].n <= calls'[put'[k].by]
                 /\ caller'[put'[k].by] # "idle" => put'[k].n < calls'[put'[k].by]
    BY <2>1, <2>2, QueueGrows
  <2> QED BY <1>0, <2>1, <2>4, <2>5, <2>6 DEF QueueInv, BoundedFifo
<1>6. ASSUME \/ OwnerStep \/ UNCHANGED vars
             \/ \E i \in Workers : \/ Begin(i) \/ Check(i) \/ TaskReturns(i) \/ WorkerWakes(i)
                                   \/ Take(i) /\ queue = << >>
             \/ \E c \in Callers : \/ WaitForRoom(c) \/ Refuse(c) \/ CallerWakes(c)
                                   \/ CallRun(c) /\ ~NoThreads
      PROVE  UNCHANGED <<queue, put, taken>>
  BY <1>6 DEF vars, tasks, OwnerStep, Start, CreateThread, WaitForThread, StartReturns, Stop,
     Join, StopReturns, Begin, Check, Take, TaskReturns, WorkerWakes, CallRun, WaitForRoom,
     Refuse, CallerWakes
<1> QED BY <1>2, <1>3, <1>4, <1>5, <1>6 DEF Next, WorkerStep, CallerStep

LEMMA TypeStep ==
    ASSUME PoolInv, [Next]_vars
    PROVE  TypeOK'
<1>1. threads' \in [Ids -> ThreadType] /\ worker' \in [Ids -> Places]
  <2>1. CASE OwnerStep
    <3>1. worker \in [Ids -> Places] /\ "take" \in Places
      BY DEF PoolInv, BoundedFifo, TypeOK, Places
    <3>2. worker' = worker \/ worker' = WakeAll(worker, "take")
      BY <2>1 DEF OwnerStep, Start, CreateThread, WaitForThread, StartReturns, Stop, Join,
         StopReturns
    <3>3. worker' \in [Ids -> Places]
      BY <3>1, <3>2 DEF WakeAll
    <3> QED BY <2>1, <3>3, OwnerKeepsThreads
  <2> QED BY <2>1, WorkersKeepThreads DEF Next
<1>2. queue' \in Seq(Task) /\ put' \in Seq(Task) /\ taken' \in Seq(Task)
  BY QueueStep DEF QueueInv
<1>3. numThreads' = numThreads /\ maxQueueSize' = maxQueueSize
  BY SettingsStay DEF pool
<1>4. refused' \subseteq Task
  <2>1. ASSUME NEW c \in Callers, Refuse(c) PROVE TaskOf(c) \in Task
    <3>1. /\ calls[c] \in 0 .. MaxTasks /\ calls[c] > 0
      <4>1. caller[c] # "idle"
        BY <2>1 DEF Refuse
      <4> QED BY <4>1 DEF PoolInv, CallerInv, BoundedFifo, TypeOK
    <3>2. calls[c] \in 1 .. MaxTasks
      BY <3>1, PoolAssumption
    <3> QED BY <3>2 DEF TaskOf, Task
  <2>2. refused \subseteq Task
    BY DEF PoolInv, BoundedFifo, TypeOK
  <2>3. UNCHANGED refused \/ \E c \in Callers : Refuse(c) /\ refused' = refused \cup {TaskOf(c)}
    BY DEF vars, tasks, Next, OwnerStep, Start, CreateThread, WaitForThread, StartReturns, Stop,
       Join, StopReturns, WorkerStep, CallerStep, Begin, Check, Take, TaskReturns, WorkerWakes,
       CallRun, Put, WaitForRoom, Refuse, CallerWakes
  <2> QED BY <2>1, <2>2, <2>3
<1>5. /\ running' \in BOOLEAN
      /\ owner' \in {"new", "start", "latch", "started", "join", "stopped"}
      /\ at' \in 0 .. MaxThreads + 1
  <2>1. /\ running \in BOOLEAN
        /\ owner \in {"new", "start", "latch", "started", "join", "stopped"}
        /\ at \in 0 .. MaxThreads + 1 /\ numThreads \in 0 .. MaxThreads
    BY DEF PoolInv, BoundedFifo, TypeOK
  <2>2. CASE OwnerStep
    <3>1. owner = "latch" => at \in Workers
      BY DEF PoolInv, OwnerInv
    <3>2. /\ at' = at \/ at' = 1 \/ (at' = at + 1 /\ at \in Workers)
          /\ running' \in {running, TRUE, FALSE}
          /\ owner' \in {owner, "start", "latch", "started", "join", "stopped"}
      BY <2>2, <3>1 DEF OwnerStep, Start, CreateThread, WaitForThread, StartReturns, Stop, Join,
         StopReturns
    <3>3. at' \in 0 .. MaxThreads + 1
      BY <2>1, <3>2, PoolAssumption DEF Workers
    <3> QED BY <2>1, <3>2, <3>3
  <2>3. CASE UNCHANGED <<running, owner, at>>
    BY <2>1, <2>3
  <2> QED BY <2>2, <2>3 DEF vars, Next, WorkerStep, CallerStep, Begin, Check, Take, TaskReturns,
          WorkerWakes, CallRun, Put, WaitForRoom, Refuse, CallerWakes
<1>6. numThreads \in 0 .. MaxThreads /\ maxQueueSize \in MaxSizes
  BY DEF PoolInv, BoundedFifo, TypeOK
<1> QED BY <1>1, <1>2, <1>3, <1>4, <1>5, <1>6, CallersMove DEF TypeOK, Places

\* Nobody calls run() while the pool starts, so a call under way is one of a pool that has started.
LEMMA CallerKeeps ==
    ASSUME PoolInv, [Next]_vars
    PROVE  CallerInv' /\ PutInv'
<1> USE DEF PoolInv
<1>0. /\ caller \in [Callers -> {"idle", "run", "asleep"}]
      /\ calls \in [Callers -> Nat] /\ calls' \in [Callers -> Nat]
      /\ numThreads \in Nat /\ maxQueueSize \in Nat
      /\ UNCHANGED <<numThreads, maxQueueSize>>
  <2>1. UNCHANGED <<numThreads, maxQueueSize>>
    BY SettingsStay DEF pool
  <2> QED BY <2>1, CallersMove, PoolAssumption DEF BoundedFifo, TypeOK
<1>1. /\ owner' = "new" => owner = "new"
      /\ owner' \in {"start", "latch"} => owner \in {"new", "start", "latch"}
      /\ owner \notin {"start", "latch"} /\ owner' # owner =>
           \/ owner = "new" /\ owner' = "start"
           \/ owner' \in {"join", "stopped"} /\ owner # "new"
  BY DEF vars, Next, OwnerStep, Start, CreateThread, WaitForThread, StartReturns, Stop,
       Join, StopReturns, WorkerStep, CallerStep, Begin, Check, Take, TaskReturns, WorkerWakes,
       CallRun, Put, WaitForRoom, Refuse, CallerWakes
<1>2. ASSUME NEW c \in Callers, caller'[c] # "idle", caller[c] = "idle"
      PROVE  CallRun(c) /\ ~NoThreads
  <2>1. ASSUME NEW d \in Callers, CallRun(d) PROVE CallRun(c) /\ ~NoThreads
    BY <1>0, <1>2, <2>1 DEF CallRun
  <2>2. ASSUME NEW d \in Callers, Put(d) \/ WaitForRoom(d) \/ Refuse(d) \/ CallerWakes(d) PROVE FALSE
    BY <1>0, <1>2, <2>2 DEF Put, WaitForRoom, Refuse, CallerWakes
  <2>3. ASSUME NEW i \in Workers, Take(i) PROVE FALSE
    BY <1>0, <1>2, <2>3 DEF Take, RoomNotified, Wake, AsleepIn
  <2>4. ASSUME Stop PROVE FALSE
    BY <1>0, <1>2, <2>4 DEF Stop, WakeAll
  <2>5. ASSUME \/ OwnerStep /\ ~Stop
               \/ \E i \in Workers : Begin(i) \/ Check(i) \/ TaskReturns(i) \/ WorkerWakes(i)
               \/ UNCHANGED vars
        PROVE  UNCHANGED caller
    BY <2>5 DEF OwnerStep, Start, CreateThread, WaitForThread, StartReturns, Join, StopReturns,
       Begin, Check, TaskReturns, WorkerWakes, vars
  <2> QED BY <1>2, <2>1, <2>2, <2>3, <2>4, <2>5 DEF Next, WorkerStep, CallerStep
<1>3. ASSUME NEW c \in Callers, caller'[c] # "idle"
      PROVE  calls'[c] > 0 /\ ~NoThreads' /\ owner' \notin {"start", "latch"}
  <2>1. CASE caller[c] = "idle"
    <3>1. CallRun(c) /\ ~NoThreads
      BY <1>2, <1>3, <2>1
    <3>2. owner' = owner /\ owner \notin {"start", "latch"} /\ calls'[c] = calls[c] + 1
      BY <1>0, <3>1 DEF CallRun
    <3> QED BY <1>0, <3>1, <3>2 DEF NoThreads
  <2>2. CASE caller[c] # "idle"
    <3>1. calls[c] > 0 /\ ~NoThreads /\ owner \notin {"start", "latch"}
      BY <2>2 DEF CallerInv
    <3>2. calls'[c] = calls[c]
      BY <1>3, <2>2, CallersMove
    <3> QED BY <1>0, <1>1, <3>1, <3>2 DEF NoThreads
  <2> QED BY <2>1, <2>2
<1>4. ASSUME NEW c \in Callers, caller'[c] = "asleep"
      PROVE  maxQueueSize' > 0
  <2>1. CASE caller[c] = "asleep"
    BY <1>0, <2>1 DEF CallerInv
  <2>2. CASE caller[c] = "run"
    <3>1. ASSUME NEW d \in Callers, WaitForRoom(d) PROVE maxQueueSize > 0
      BY <3>1 DEF WaitForRoom, IsFull
    <3>2. ASSUME NEW d \in Callers, CallRun(d) \/ Put(d) \/ Refuse(d) \/ CallerWakes(d) PROVE FALSE
      BY <1>0, <1>4, <2>2, <3>2 DEF CallRun, Put, Refuse, CallerWakes
    <3>3. ASSUME NEW i \in Workers, Take(i) PROVE FALSE
      BY <1>0, <1>4, <2>2, <3>3 DEF Take, RoomNotified, Wake, AsleepIn
    <3>4. ASSUME Stop PROVE FALSE
      BY <1>0, <1>4, <2>2, <3>4 DEF Stop, WakeAll
    <3>5. ASSUME \/ OwnerStep /\ ~Stop
                 \/ \E i \in Workers : Begin(i) \/ Check(i) \/ TaskReturns(i) \/ WorkerWakes(i)
                 \/ UNCHANGED vars
          PROVE  UNCHANGED caller
      BY <3>5 DEF OwnerStep, Start, CreateThread, WaitForThread, StartReturns, Join, StopReturns,
         Begin, Check, TaskReturns, WorkerWakes, vars
    <3> QED BY <1>0, <1>4, <2>2, <3>1, <3>2, <3>3, <3>4, <3>5 DEF Next, WorkerStep, CallerStep
  <2>3. CASE caller[c] = "idle"
    BY <1>4, <2>3, CallersMove
  <2> QED BY <1>0, <2>1, <2>2, <2>3
<1>5. NoThreads' \/ owner' \in {"start", "latch"} => queue' = << >>
  <2> SUFFICES ASSUME NoThreads' \/ owner' \in {"start", "latch"} PROVE queue' = << >>
    OBVIOUS
  <2>1. NoThreads \/ owner \in {"start", "latch"}
    BY <1>0, <1>1 DEF NoThreads
  <2>2. queue = << >>
    BY <2>1 DEF CallerInv, PutInv
  <2>3. \A c \in Callers : ~Put(c)
    BY <2>1 DEF Put, CallerInv
  <2> QED BY <2>2, <2>3 DEF vars, tasks, Next, OwnerStep, Start, CreateThread, WaitForThread,
          StartReturns, Stop, Join, StopReturns, WorkerStep, CallerStep, Begin, Check, Take,
          TaskReturns, WorkerWakes, CallRun, WaitForRoom, Refuse, CallerWakes
<1>6. \A k \in DOMAIN put' :
          /\ put'[k].n <= calls'[put'[k].by]
          /\ caller'[put'[k].by] # "idle" => put'[k].n < calls'[put'[k].by]
  BY QueueStep DEF QueueInv
<1> QED BY <1>3, <1>4, <1>5, <1>6 DEF CallerInv, PutInv

-----------------------------------------------------------------------------
(* Nobody sleeps on something that is there.                               *)

\* A worker goes to sleep only when there is no task, and a task that is put in wakes one.
LEMMA WorkerAwake ==
    ASSUME PoolInv, [Next]_vars, queue' # << >>, AsleepIn(worker') # {}
    PROVE  \E i \in Workers' : worker'[i] \in {"check", "take", "task"}
<1> USE DEF PoolInv
<1>0. /\ worker \in [Ids -> Places] /\ Workers \subseteq Ids /\ Workers' = Workers
      /\ queue \in Seq(Task)
      /\ \A i \in Ids : worker[i] # "none" => i \in Workers
  <2>1. numThreads' = numThreads
    BY SettingsStay DEF pool
  <2>2. \A i \in Ids : worker[i] # "none" => i \in Workers
    BY DEF ThreadInv
  <2>3. Workers \subseteq Ids
    BY PoolAssumption DEF BoundedFifo, TypeOK, Workers, Ids
  <2> QED BY <2>1, <2>2, <2>3 DEF BoundedFifo, TypeOK, Places, Workers
<1>1. queue # << >> /\ AsleepIn(worker) # {} =>
          \E i \in Workers : worker[i] \in {"check", "take", "task"}
  BY DEF NoLostNotify
<1>2. ASSUME NEW i \in Workers, worker' = [worker EXCEPT ![i] = "check"]
      PROVE  \E j \in Workers' : worker'[j] \in {"check", "take", "task"}
  BY <1>0, <1>2
<1>3. ASSUME NEW i \in Workers, worker' = [worker EXCEPT ![i] = "take"]
      PROVE  \E j \in Workers' : worker'[j] \in {"check", "take", "task"}
  BY <1>0, <1>3
<1>4. ASSUME NEW i \in Workers, Take(i)
      PROVE  \E j \in Workers' : worker'[j] \in {"check", "take", "task"}
  <2>1. queue # << >>
    BY <1>0, <1>4 DEF Take
  <2>2. worker' = [worker EXCEPT ![i] = "task"]
    BY <1>4, <2>1 DEF Take
  <2> QED BY <1>0, <2>2
<1>5. ASSUME NEW i \in Workers, Check(i), ~running
      PROVE  \E j \in Workers' : worker'[j] \in {"check", "take", "task"}
  <2>1. AsleepIn(worker) = {}
    <3>1. owner = "new" => AsleepIn(worker) = {}
      BY <1>0 DEF AsleepIn, OwnerInv, ThreadInv
    <3> QED BY <1>5, <3>1 DEF OwnerInv, NoLostNotify, BoundedFifo, TypeOK
  <2>2. worker' = [worker EXCEPT ![i] = "done"]
    BY <1>5 DEF Check
  <2> QED BY <1>0, <2>1, <2>2 DEF AsleepIn
<1>6. ASSUME NEW c \in Callers, Put(c)
      PROVE  \E j \in Workers' : worker'[j] \in {"check", "take", "task"}
  <2>1. worker' \in Wake(worker, AsleepIn(worker), "take")
    BY <1>6 DEF Put, TaskNotified
  <2>2. AsleepIn(worker) # {}
    BY <2>1 DEF Wake
  <2>3. \E j \in Ids : worker[j] = "asleep" /\ worker'[j] = "take"
    BY <1>0, <2>1, <2>2 DEF Wake, AsleepIn
  <2> QED BY <1>0, <2>3
<1>7. ASSUME Stop
      PROVE  \E j \in Workers' : worker'[j] \in {"check", "take", "task"}
  BY <1>0, <1>7 DEF Stop, WakeAll, AsleepIn
<1>8. ASSUME UNCHANGED <<worker, queue>>
      PROVE  \E j \in Workers' : worker'[j] \in {"check", "take", "task"}
  BY <1>0, <1>1, <1>8
<1>9. ASSUME \/ (OwnerStep /\ ~Stop) \/ UNCHANGED vars
             \/ \E c \in Callers : CallRun(c) \/ WaitForRoom(c) \/ Refuse(c) \/ CallerWakes(c)
      PROVE  UNCHANGED <<worker, queue>>
  BY <1>9 DEF OwnerStep, Start, CreateThread, WaitForThread, StartReturns, Join, StopReturns,
     CallRun, WaitForRoom, Refuse, CallerWakes, vars, tasks
<1>10. ASSUME NEW i \in Workers, Begin(i) \/ (Check(i) /\ running) \/ TaskReturns(i) \/ WorkerWakes(i)
       PROVE  \/ worker' = [worker EXCEPT ![i] = "check"]
              \/ worker' = [worker EXCEPT ![i] = "take"]
  BY <1>10 DEF Begin, Check, TaskReturns, WorkerWakes
<1> QED BY <1>2, <1>3, <1>4, <1>5, <1>6, <1>7, <1>8, <1>9, <1>10 DEF Next, WorkerStep, CallerStep

\* A caller goes to sleep only when the queue is full, and one that still sleeps when there is
\* room was passed over for another, or a task is there whose worker will tell it.
LEMMA CallerAwake ==
    ASSUME PoolInv, [Next]_vars, ~IsFull', AsleepIn(caller') # {}
    PROVE  (\E c \in Callers : caller'[c] = "run") \/ queue' # << >>
<1> USE DEF PoolInv
<1> DEFINE P == {"idle", "run", "asleep"}
           Goal == (\E c \in Callers : caller'[c] = "run") \/ queue' # << >>
<1>0. /\ caller \in [Callers -> P] /\ queue \in Seq(Task)
      /\ maxQueueSize \in Nat /\ maxQueueSize' = maxQueueSize
  <2>1. UNCHANGED maxQueueSize
    BY SettingsStay DEF pool
  <2> QED BY <2>1, PoolAssumption DEF BoundedFifo, TypeOK
<1>1. ASSUME UNCHANGED queue, \A c \in Callers : caller'[c] = "asleep" => caller[c] = "asleep",
             caller' \in [Callers -> P],
             \A c \in Callers : caller[c] = "run" => caller'[c] = "run"
      PROVE  Goal
  <2>1. ~IsFull
    BY <1>0, <1>1 DEF IsFull
  <2>2. AsleepIn(caller) # {}
    BY <1>0, <1>1 DEF AsleepIn
  <2> QED BY <1>1, <2>1, <2>2 DEF NoLostNotify
<1>2. ASSUME NEW i \in Workers, Take(i), queue # << >>
      PROVE  Goal
  <2>1. caller' \in RoomNotified
    BY <1>2 DEF Take
  <2>2. CASE AsleepIn(caller) = {}
    BY <1>0, <2>1, <2>2 DEF RoomNotified, Wake, AsleepIn
  <2>3. CASE AsleepIn(caller) # {}
    <3>1. maxQueueSize > 0
      BY <1>0, <2>3 DEF AsleepIn, CallerInv
    <3>2. \E c \in Callers : caller'[c] = "run"
      BY <1>0, <2>1, <2>3, <3>1 DEF RoomNotified, Wake, AsleepIn
    <3> QED BY <3>2
  <2> QED BY <2>2, <2>3
<1>3. ASSUME NEW c \in Callers, Put(c)
      PROVE  Goal
  <2>1. queue' = Append(queue, TaskOf(c))
    BY <1>3 DEF Put
  <2> QED BY <1>0, <2>1
<1>4. ASSUME NEW c \in Callers, WaitForRoom(c)
      PROVE  Goal
  BY <1>0, <1>4 DEF WaitForRoom, IsFull, tasks, pool
<1>5. ASSUME NEW c \in Callers, Refuse(c)
      PROVE  Goal
  <2>1. AsleepIn(caller) = {}
    <3>1. owner # "new"
      BY <1>5 DEF Refuse, CallerInv, NoThreads
    <3> QED BY <1>5, <3>1 DEF Refuse, OwnerInv, NoLostNotify, BoundedFifo, TypeOK
  <2>2. caller' = [caller EXCEPT ![c] = "idle"]
    BY <1>5 DEF Refuse
  <2> QED BY <1>0, <2>1, <2>2 DEF AsleepIn
<1>6. ASSUME NEW c \in Callers, CallRun(c) \/ CallerWakes(c)
      PROVE  Goal
  <2>1. /\ UNCHANGED queue
        /\ caller' = caller \/ caller' = [caller EXCEPT ![c] = "run"]
    BY <1>6 DEF CallRun, CallerWakes, tasks
  <2> QED BY <1>0, <1>1, <2>1
<1>7. ASSUME Stop PROVE Goal
  BY <1>0, <1>7 DEF Stop, WakeAll, AsleepIn
<1>8. ASSUME \/ (OwnerStep /\ ~Stop) \/ UNCHANGED vars
             \/ \E i \in Workers : \/ Begin(i) \/ Check(i) \/ TaskReturns(i) \/ WorkerWakes(i)
                                   \/ Take(i) /\ queue = << >>
      PROVE  UNCHANGED <<caller, queue>>
  BY <1>8 DEF OwnerStep, Start, CreateThread, WaitForThread, StartReturns, Join, StopReturns,
     Begin, Check, Take, TaskReturns, WorkerWakes, vars, tasks
<1>9. ASSUME UNCHANGED <<caller, queue>> PROVE Goal
  BY <1>0, <1>1, <1>9
<1> QED BY <1>2, <1>3, <1>4, <1>5, <1>6, <1>7, <1>8, <1>9 DEF Next, WorkerStep, CallerStep

LEMMA NobodyAsleepAfterStop ==
    ASSUME PoolInv, [Next]_vars, owner' \in {"join", "stopped"}
    PROVE  AsleepIn(worker') = {} /\ AsleepIn(caller') = {}
<1> USE DEF PoolInv
<1>0. worker \in [Ids -> Places] /\ caller \in [Callers -> {"idle", "run", "asleep"}]
  BY DEF BoundedFifo, TypeOK, Places
<1>1. CASE Stop
  BY <1>0, <1>1 DEF Stop, WakeAll, AsleepIn
<1>2. CASE ~Stop
  <2>1. owner \in {"join", "stopped"}
    BY <1>2 DEF Next, OwnerStep, Start, CreateThread, WaitForThread, StartReturns, Join,
       StopReturns, vars, WorkerStep, CallerStep, Begin, Check, Take, TaskReturns, WorkerWakes,
       CallRun, Put, WaitForRoom, Refuse, CallerWakes
  <2>2. ~running /\ AsleepIn(worker) = {} /\ AsleepIn(caller) = {}
    BY <2>1 DEF OwnerInv, NoLostNotify
  <2>3. ASSUME NEW i \in Workers, WorkerStep(i) \/ WorkerWakes(i)
        PROVE  AsleepIn(worker') = {} /\ AsleepIn(caller') = {}
    <3>1. \E p \in Places \ {"asleep"} : worker' = [worker EXCEPT ![i] = p]
      BY <2>2, <2>3 DEF WorkerStep, WorkerWakes, Begin, Check, Take, TaskReturns, Places
    <3>2. caller' = caller
      BY <2>2, <2>3 DEF WorkerStep, WorkerWakes, Begin, Check, Take, TaskReturns, RoomNotified, Wake
    <3> QED BY <1>0, <2>2, <3>1, <3>2 DEF AsleepIn
  <2>4. ASSUME NEW c \in Callers, CallerStep(c) \/ CallerWakes(c)
        PROVE  AsleepIn(worker') = {} /\ AsleepIn(caller') = {}
    <3>1. caller' = caller \/ \E p \in {"idle", "run"} : caller' = [caller EXCEPT ![c] = p]
      BY <2>2, <2>4 DEF CallerStep, CallerWakes, CallRun, Put, WaitForRoom, Refuse
    <3>2. worker' = worker
      BY <2>2, <2>4 DEF CallerStep, CallerWakes, CallRun, Put, WaitForRoom, Refuse
    <3> QED BY <1>0, <2>2, <3>1, <3>2 DEF AsleepIn
  <2>5. ASSUME (OwnerStep /\ ~Stop) \/ UNCHANGED vars PROVE UNCHANGED <<worker, caller>>
    BY <2>5 DEF OwnerStep, Start, CreateThread, WaitForThread, StartReturns, Join, StopReturns, vars
  <2> QED BY <1>2, <2>2, <2>3, <2>4, <2>5 DEF Next
<1> QED BY <1>1, <1>2

-----------------------------------------------------------------------------

\* In every run of the pool the invariant holds.
THEOREM PoolInvariance == Spec => []PoolInv
<1>1. PoolInv /\ [Next]_vars => PoolInv'
  <2> SUFFICES ASSUME PoolInv, [Next]_vars PROVE PoolInv'
    OBVIOUS
  <2>1. ThreadInv' /\ OwnerInv'
    BY OwnerKeepsThreads, WorkersKeepThreads DEF Next
  <2>2. BoundedFifo'
    BY TypeStep, QueueStep DEF QueueInv, BoundedFifo
  <2>3. NoLostNotify'
    <3>1. ASSUME NEW i \in Ids, threads'[i].asleep PROVE threads'[i].count > 0
      BY <2>1, <3>1 DEF ThreadInv
    <3> QED BY <3>1, WorkerAwake, CallerAwake, NobodyAsleepAfterStop DEF NoLostNotify
  <2> QED BY <2>1, <2>2, <2>3, CallerKeeps DEF PoolInv
<1> QED BY <1>1, PoolInit, PTL DEF Spec

\* Tasks start in the order in which they were put in, each once, and no more wait than may.
THEOREM PoolIsBoundedFifo == Spec => []BoundedFifo
<1>1. PoolInv => BoundedFifo
  BY DEF PoolInv
<1> QED BY <1>1, PoolInvariance, PTL

\* Nobody sleeps on a task, on room, on a latch that is open, or through a stop.
THEOREM PoolLosesNoNotify == Spec => []NoLostNotify
<1>1. PoolInv => NoLostNotify
  BY DEF PoolInv
<1> QED BY <1>1, PoolInvariance, PTL

\* start() returns when every worker has its tid, stop() when every worker has ended.
THEOREM PoolStartsAndStops == Spec => []StartedAndStopped
<1>1. PoolInv => StartedAndStopped
  <2> SUFFICES ASSUME PoolInv PROVE StartedAndStopped
    OBVIOUS
  <2>1. Workers \subseteq Ids
    BY PoolAssumption DEF PoolInv, BoundedFifo, TypeOK, Workers, Ids
  <2> QED BY <2>1 DEF PoolInv, ThreadInv, OwnerInv, StartedAndStopped
<1> QED BY <1>1, PoolInvariance, PTL
=============================================================================
