------------------------------ MODULE IoThreads ------------------------------
(***************************************************************************)
(* How a TcpServerff starts, spreads its connections and stops: the I/O    *)
(* threads (EventLoopThreadff) are started one by one, each is waited for  *)
(* until it has published its loop, the acceptor hands connections to      *)
(* their loops in turn, and the destructor quits and joins the threads.    *)
(*                                                                         *)
(* An EventLoopff lives on the stack of its thread.  What a loop does is   *)
(* in EventLoop; here it only matters that one that is told to quit leaves *)
(* loop(), also when it is told before it enters it.                       *)
(***************************************************************************)
EXTENDS Integers, Sequences, SequencesExt, Thread, Acceptor

CONSTANTS
    MaxThreads,     \* bound on numThreads_
    MaxFds,         \* the number of descriptors that connections and the reserve can have
    MaxArrivals     \* bound: connections that clients open

ASSUME IoAssumption ==
    /\ MaxThreads \in Nat /\ MaxArrivals \in Nat
    /\ MaxFds \in Nat \ {0}

VARIABLES
    numThreads,     \* numThreads_
    othersQuit,     \* whether I/O loops are quit by their own callbacks too
    owner,          \* where the base loop's thread is: "new", "start", "latch" (in Threadff::start),
                    \* "wait" and "asleep" (in startLoop), "serve", and in the destructor "stop",
                    \* "quit" and "wakeup" (in quit() of a loop), "join"; "gone"
    at,             \* the thread that is started or stopped
    threads,        \* the threads
    io,             \* where thread i is in threadFunc(): "init", "publish", "enter", "loop",
                    \* "left", "cleared", "done"; "none" before
    loop,           \* whether loop_ is set
    quit,           \* quit_ of its loop
    loops,          \* loops_ of the pool
    next,           \* next_ of the pool, counted from 1
    acceptor,       \* the acceptor
    arrived,        \* history: how many connections clients have opened
    given,          \* history: how many connections each loop was given, 0 for the base loop
    destroyed,      \* the EventLoopThreadff objects that have been destroyed
    faults          \* what has gone wrong: "assert" (an assertion has failed), or the use of a
                    \* "thread" or "loop" that is gone; by wakeup() of its "wakeupFd"

setup  == <<numThreads, othersQuit>>
thread == <<threads, io, loop, quit>>
pool   == <<loops, next, given>>
vars   == <<setup, owner, at, thread, pool, acceptor, arrived, destroyed, faults>>

Ids == 1 .. MaxThreads
Workers == 1 .. numThreads
Found(what, bad) == IF bad THEN {what} ELSE {}
Alive(i) == io[i] \notin {"none", "done"}

Init ==
    /\ numThreads \in 0 .. MaxThreads
    /\ othersQuit \in BOOLEAN
    /\ owner = "new"
    /\ at = 0
    /\ threads = [i \in Ids |-> NewThread]
    /\ io = [i \in Ids |-> "none"]
    /\ loop = [i \in Ids |-> FALSE]
    /\ quit = [i \in Ids |-> FALSE]
    /\ loops = << >>
    /\ next = 1
    /\ acceptor = NewAcceptor
    /\ arrived = 0
    /\ given = [i \in {0} \cup Ids |-> 0]
    /\ destroyed = {}
    /\ faults = {}

-----------------------------------------------------------------------------
(* TcpServerff::start(), in the base loop's thread.                        *)

Start ==
    /\ owner = "new"
    /\ owner' = "start"
    /\ at' = 1
    /\ UNCHANGED <<setup, thread, pool, acceptor, arrived, destroyed, faults>>

CreateThread ==
    /\ owner = "start" /\ at \in Workers
    /\ owner' = "latch"
    /\ threads' = [threads EXCEPT ![at] = Started(@)]
    /\ UNCHANGED <<setup, at, io, loop, quit, pool, acceptor, arrived, destroyed, faults>>

WaitForThread ==
    /\ owner = "latch" /\ ~threads[at].asleep
    /\ IF LatchOpen(threads[at])
       THEN owner' = "wait" /\ UNCHANGED threads
       ELSE threads' = [threads EXCEPT ![at] = LatchWaited(@)] /\ UNCHANGED owner
    /\ UNCHANGED <<setup, at, io, loop, quit, pool, acceptor, arrived, destroyed, faults>>

\* startLoop(), under the mutex: the loop is there, or the owner goes to sleep.
WaitForLoop ==
    /\ owner = "wait"
    /\ IF loop[at]
       THEN owner' = "start" /\ loops' = Append(loops, at) /\ at' = at + 1
       ELSE owner' = "asleep" /\ UNCHANGED <<loops, at>>
    /\ UNCHANGED <<setup, thread, next, given, acceptor, arrived, destroyed, faults>>

\* The wait may end without a notify.
OwnerWakes ==
    /\ owner = "asleep"
    /\ owner' = "wait"
    /\ UNCHANGED <<setup, at, thread, pool, acceptor, arrived, destroyed, faults>>

\* The pool has started, and the acceptor listens.
Listen ==
    /\ owner = "start" /\ at \notin Workers
    /\ owner' = "serve"
    /\ acceptor' = Listening(acceptor)
    /\ UNCHANGED <<setup, at, thread, pool, arrived, destroyed, faults>>

-----------------------------------------------------------------------------
(* An I/O thread.                                                          *)

\* Threadff::start() of this thread goes on; threadFunc() constructs its loop.
Begin(i) ==
    /\ threads[i].body = "born"
    /\ threads' = [threads EXCEPT ![i] = CountedDown(@)]
    /\ io' = [io EXCEPT ![i] = "init"]
    /\ UNCHANGED <<setup, owner, at, loop, quit, pool, acceptor, arrived, destroyed, faults>>

InitCallbackReturns(i) ==
    /\ io[i] = "init"
    /\ io' = [io EXCEPT ![i] = "publish"]
    /\ UNCHANGED <<setup, owner, at, threads, loop, quit, pool, acceptor, arrived, destroyed, faults>>

\* Faulty: cond_ is not notified.
LoopNotNotified(i) == owner

\* What becomes of the owner when loop_ is set.
LoopNotified(i) == IF owner = "asleep" /\ at = i THEN "wait" ELSE owner

PublishLoop(i) ==
    /\ io[i] = "publish"
    /\ io' = [io EXCEPT ![i] = "enter"]
    /\ loop' = [loop EXCEPT ![i] = TRUE]
    /\ owner' = LoopNotified(i)
    /\ UNCHANGED <<setup, at, threads, quit, pool, acceptor, arrived, destroyed, faults>>

EnterLoop(i) ==
    /\ io[i] = "enter"
    /\ io' = [io EXCEPT ![i] = "loop"]
    /\ UNCHANGED <<setup, owner, at, threads, loop, quit, pool, acceptor, arrived, destroyed, faults>>

LeaveLoop(i) ==
    /\ io[i] = "loop" /\ quit[i]
    /\ io' = [io EXCEPT ![i] = "left"]
    /\ UNCHANGED <<setup, owner, at, threads, loop, quit, pool, acceptor, arrived, destroyed, faults>>

\* The mutex is locked and loop_ set to null.
ClearLoop(i) ==
    /\ io[i] = "left"
    /\ io' = [io EXCEPT ![i] = "cleared"]
    /\ loop' = [loop EXCEPT ![i] = FALSE]
    /\ faults' = faults \cup Found("thread", i \in destroyed)
    /\ UNCHANGED <<setup, owner, at, threads, quit, pool, acceptor, arrived, destroyed>>

\* The mutex is unlocked, the loop destroyed, and the thread ends.
EndThread(i) ==
    /\ io[i] = "cleared"
    /\ io' = [io EXCEPT ![i] = "done"]
    /\ threads' = [threads EXCEPT ![i] = Ended(@)]
    /\ faults' = faults \cup Found("thread", i \in destroyed)
    /\ UNCHANGED <<setup, owner, at, loop, quit, pool, acceptor, arrived, destroyed>>

\* A callback in the thread itself calls quit(): the initial callback, or one that the loop runs.
CallbackQuits(i) ==
    /\ othersQuit
    /\ io[i] \in {"init", "loop"} /\ ~quit[i]
    /\ quit' = [quit EXCEPT ![i] = TRUE]
    /\ UNCHANGED <<setup, owner, at, threads, io, loop, pool, acceptor, arrived, destroyed, faults>>

-----------------------------------------------------------------------------
(* Serving.                                                                *)

ClientConnects ==
    /\ acceptor.listening /\ arrived < MaxArrivals
    /\ arrived' = arrived + 1
    /\ acceptor' = [acceptor EXCEPT !.waiting = @ + 1]
    /\ UNCHANGED <<setup, owner, at, thread, pool, destroyed, faults>>

\* Faulty: the last loop is left out.
NextIndexShort == IF next + 1 >= Len(loops) THEN 1 ELSE next + 1

NextIndex == IF next + 1 > Len(loops) THEN 1 ELSE next + 1

\* getNextLoop(), and runInLoop() on the loop.
GiveToNextLoop ==
    LET chosen == IF loops = << >> THEN 0 ELSE loops[next]
    IN  /\ given' = [given EXCEPT ![chosen] = @ + 1]
        /\ next' = IF loops = << >> THEN next ELSE NextIndex
        /\ faults' = faults \cup Found("loop", chosen # 0 /\ ~Alive(chosen))

\* Acceptorff::handleRead() and TcpServerff::newConnection().
HandleRead ==
    /\ owner = "serve" /\ acceptor.waiting > 0
    /\ IF MayAccept(acceptor, MaxFds)
       THEN acceptor' = Accepted(acceptor) /\ GiveToNextLoop
       ELSE acceptor' = Refused(acceptor, MaxFds) /\ UNCHANGED <<given, next, faults>>
    /\ UNCHANGED <<setup, owner, at, thread, loops, arrived, destroyed>>

ConnectionCloses ==
    /\ acceptor.open > 0
    /\ acceptor' = [acceptor EXCEPT !.open = @ - 1]
    /\ UNCHANGED <<setup, owner, at, thread, pool, arrived, destroyed, faults>>

-----------------------------------------------------------------------------
(* The destructors of TcpServerff, of its pool and of each thread.         *)

Destroy ==
    /\ owner = "serve"
    /\ owner' = "stop"
    /\ at' = 1
    /\ UNCHANGED <<setup, thread, pool, acceptor, arrived, destroyed, faults>>

\* ~EventLoopThreadff() reads loop_ without the mutex.
CheckLoop ==
    /\ owner = "stop" /\ at \in Workers
    /\ IF loop[at]
       THEN owner' = "quit" /\ UNCHANGED <<at, destroyed>>
       ELSE destroyed' = destroyed \cup {at} /\ at' = at + 1 /\ UNCHANGED owner
    /\ UNCHANGED <<setup, thread, pool, acceptor, arrived, faults>>

\* Faulty: the thread is not joined.
QuitLoopOnly ==
    /\ owner = "quit"
    /\ quit' = [quit EXCEPT ![at] = TRUE]
    /\ owner' = "stop" /\ destroyed' = destroyed \cup {at} /\ at' = at + 1
    /\ UNCHANGED <<setup, threads, io, loop, pool, acceptor, arrived, faults>>

\* quit() asserts that it is the first, and sets quit_: from here on the loop may leave ...
QuitLoop ==
    /\ owner = "quit"
    /\ quit' = [quit EXCEPT ![at] = TRUE]
    /\ faults' = faults \cup Found("loop", ~Alive(at)) \cup Found("assert", quit[at])
    /\ owner' = "wakeup"
    /\ UNCHANGED <<setup, at, threads, io, loop, pool, acceptor, arrived, destroyed>>

\* ... before isInLoopThread() and wakeup() read threadId_ and write to wakeupFd_.
Wakeup ==
    /\ owner = "wakeup"
    /\ faults' = faults \cup Found("wakeupFd", ~Alive(at))
    /\ owner' = "join"
    /\ UNCHANGED <<setup, at, thread, pool, acceptor, arrived, destroyed>>

Join ==
    /\ owner = "join"
    /\ threads[at].body = "ended"
    /\ threads' = [threads EXCEPT ![at] = Joined(@)]
    /\ destroyed' = destroyed \cup {at}
    /\ at' = at + 1
    /\ owner' = "stop"
    /\ UNCHANGED <<setup, io, loop, quit, pool, acceptor, arrived, faults>>

\* The acceptor goes last: its member stands before the pool's.
CloseAcceptor ==
    /\ owner = "stop" /\ at \notin Workers
    /\ owner' = "gone"
    /\ acceptor' = [acceptor EXCEPT !.listening = FALSE, !.idle = FALSE]
    /\ UNCHANGED <<setup, at, thread, pool, arrived, destroyed, faults>>

-----------------------------------------------------------------------------
OwnerStep == \/ CreateThread \/ WaitForThread \/ WaitForLoop \/ Listen
             \/ CheckLoop \/ QuitLoop \/ Wakeup \/ Join \/ CloseAcceptor
ThreadStep(i) == \/ Begin(i) \/ InitCallbackReturns(i) \/ PublishLoop(i) \/ EnterLoop(i)
                 \/ LeaveLoop(i) \/ ClearLoop(i) \/ EndThread(i)

Next ==
    \/ Start \/ OwnerStep \/ OwnerWakes \/ HandleRead \/ Destroy
    \/ \E i \in Workers : ThreadStep(i) \/ CallbackQuits(i)
    \/ ClientConnects \/ ConnectionCloses

Spec == Init /\ [][Next]_vars

\* A loop that sleeps need not leave between the store to quit_ and the wakeup.
MayWait(i) == owner = "wakeup" /\ at = i /\ io[i] = "loop"

\* The threads run; a loop that was told to quit and woken leaves (PromptRun of EventLoop), and
\* the base loop handles what is readable (ReadyIsHandled).
FairSpec ==
    /\ Spec
    /\ WF_vars(OwnerStep)
    /\ WF_vars(HandleRead)
    /\ \A i \in Ids : WF_vars(i \in Workers /\ ~MayWait(i) /\ ThreadStep(i))

-----------------------------------------------------------------------------
(* Properties.                                                             *)

TypeOK ==
    /\ numThreads \in 0 .. MaxThreads /\ othersQuit \in BOOLEAN
    /\ owner \in {"new", "start", "latch", "wait", "asleep", "serve", "stop", "quit", "wakeup", "join", "gone"}
    /\ at \in 0 .. MaxThreads + 1
    /\ threads \in [Ids -> ThreadType]
    /\ io \in [Ids -> {"none", "init", "publish", "enter", "loop", "left", "cleared", "done"}]
    /\ loop \in [Ids -> BOOLEAN] /\ quit \in [Ids -> BOOLEAN]
    /\ loops \in Seq(Ids) /\ next \in 1 .. MaxThreads + 1
    /\ acceptor \in AcceptorType(MaxFds)
    /\ arrived \in 0 .. MaxArrivals
    /\ given \in [{0} \cup Ids -> 0 .. MaxArrivals]
    /\ destroyed \subseteq Ids
    /\ faults \subseteq {"assert", "thread", "loop", "wakeupFd"}

\* Where only the destructor quits the loops: no thread touches its EventLoopThreadff after that
\* is destroyed, quit() is called once and on a loop that is alive, and so is every loop that a
\* connection is given to; every loop of the pool is one that its thread has published.  All that
\* may be used too late is the loop by wakeup(), in the quit() that lets it go.
NoFault ==
    ~othersQuit =>
        /\ faults \subseteq {"wakeupFd"}
        /\ owner = "serve" => \A i \in ToSet(loops) : Alive(i) /\ loop[i]

\* Connections are spread evenly, over every thread that there is: at any moment two loops have
\* been given the same number, or one more.
EvenSpread ==
    /\ TypeOK
    /\ owner = "serve" => Len(loops) = numThreads
    /\ \A i, j \in DOMAIN loops : given[i] <= given[j] + 1
    /\ loops # << >> => given[0] = 0

\* start() returns, and so does the destructor, wherever the threads are when it begins (one may
\* not have entered loop() yet), where only the destructor quits the loops.
StartsAndStops ==
    /\ ~othersQuit /\ owner = "start" ~> owner = "serve"
    /\ ~othersQuit /\ owner = "stop" ~> owner = "gone"

\* A connection that waits is accepted or refused while a descriptor is free or the reserve is
\* there, unless the server goes away.
WaitingAnswered ==
    acceptor.waiting > 0 ~> \/ acceptor.waiting = 0 \/ acceptor.open = MaxFds
                            \/ owner # "serve"
=============================================================================
