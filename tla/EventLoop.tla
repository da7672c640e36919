----------------------------- MODULE EventLoop -----------------------------
(***************************************************************************)
(* One EventLoopff: the thread that owns it runs loop(), and any thread    *)
(* may hand it functors (runInLoop, queueInLoop) or stop it (quit).  The   *)
(* loop sleeps in epoll_wait; an eventfd wakes it.  The model keeps every  *)
(* step at which another thread can interleave: the push under the mutex   *)
(* and the write to the eventfd are two steps, and so are the store to     *)
(* quit_ and its write.                                                    *)
(*                                                                         *)
(* Channels other than the eventfd are only ready or not; what their       *)
(* handlers do to the loop (post functors, quit) is interleaved while a    *)
(* callback is running.                                                    *)
(***************************************************************************)
EXTENDS Integers, Sequences, FiniteSets

CONSTANTS
    Owner,          \* the thread that created the loop
    Others,         \* the other threads
    Functors,       \* the functors; each is handed over at most once
    Channels,       \* the channels of the poller, the eventfd's excepted
    WakeupChannel,  \* the channel of the eventfd
    InitListSize,   \* kinitEventListSize
    EventFdMax      \* the largest value of the eventfd's counter

ASSUME ThreadsAssumption  == Owner \notin Others
ASSUME ChannelsAssumption == WakeupChannel \notin Channels
ASSUME SizesAssumption    == InitListSize \in Nat \ {0} /\ EventFdMax \in Nat \ {0}

VARIABLES
    pc,               \* where the owner is in loop()
    quit,             \* quit_
    pendingFunctors,  \* pendingFunctors_
    functors,         \* the functors doPendingFunctors has swapped out and not yet run
    wakeupFd,         \* the counter of the eventfd
    ready,            \* the channels whose file descriptor is ready
    active,           \* the channels of activeChannels_ not yet handled
    listSize,         \* eventsList_.size()
    running,          \* a user callback is running on the owner's thread
    signalling,       \* signalling[t]: t has yet to call wakeup()
    issued,           \* history: the functors handed to the loop
    early,            \* history: those the owner queued before it called loop()
    ran               \* history: the functors that were run, in order

loopVars    == <<pc, functors, active, listSize, running>>
queueVars   == <<pendingFunctors, issued, early>>
vars == <<pc, quit, pendingFunctors, functors, wakeupFd, ready, active, listSize,
          running, signalling, issued, early, ran>>

Threads == Others \cup {Owner}

LoopStates == {"init", "check", "poll", "events", "functors", "done", "aborted"}

Contents(s) == {s[i] : i \in DOMAIN s}

-----------------------------------------------------------------------------

Init ==
    /\ pc = "init"
    /\ quit = FALSE
    /\ pendingFunctors = << >>
    /\ functors = << >>
    /\ wakeupFd = 0
    /\ ready = {}
    /\ active = {}
    /\ listSize = InitListSize
    /\ running = FALSE
    /\ signalling = [t \in Threads |-> FALSE]
    /\ issued = {}
    /\ early = {}
    /\ ran = << >>

\* The owner calls into its loop from a callback, or before it enters loop().
\* Another thread may call at any time.  No thread calls between the two halves
\* of an earlier call.
CanCall(t) ==
    /\ ~signalling[t]
    /\ pc # "aborted"
    /\ t = Owner => running \/ pc = "init"

\* callingPendingFunctors_
CallingPendingFunctors == pc = "functors"

-----------------------------------------------------------------------------
(* The calls threads make.                                                 *)

\* Faulty variant: a functor queued by a functor wakes nobody up.
QueueInLoopOthersOnly(t, f) ==
    /\ CanCall(t)
    /\ f \notin issued
    /\ issued' = issued \cup {f}
    /\ early' = IF t = Owner /\ pc = "init" THEN early \cup {f} ELSE early
    /\ pendingFunctors' = Append(pendingFunctors, f)
    /\ signalling' = [signalling EXCEPT ![t] = t # Owner]
    /\ UNCHANGED <<loopVars, quit, wakeupFd, ready, ran>>

QueueInLoop(t, f) ==
    /\ CanCall(t)
    /\ f \notin issued
    /\ issued' = issued \cup {f}
    /\ early' = IF t = Owner /\ pc = "init" THEN early \cup {f} ELSE early
    /\ pendingFunctors' = Append(pendingFunctors, f)
    /\ signalling' = [signalling EXCEPT ![t] = t # Owner \/ CallingPendingFunctors]
    /\ UNCHANGED <<loopVars, quit, wakeupFd, ready, ran>>

\* runInLoop on the loop's own thread calls the functor; on another it queues it.
RunInLoop(f) ==
    /\ CanCall(Owner)
    /\ f \notin issued
    /\ issued' = issued \cup {f}
    /\ ran' = Append(ran, f)
    /\ UNCHANGED <<loopVars, quit, pendingFunctors, early, wakeupFd, ready, signalling>>

\* Faulty variant: no wakeup.
QuitSilently(t) ==
    /\ CanCall(t)
    /\ ~quit
    /\ quit' = TRUE
    /\ UNCHANGED <<loopVars, queueVars, wakeupFd, ready, signalling, ran>>

Quit(t) ==
    /\ CanCall(t)
    /\ ~quit
    /\ quit' = TRUE
    /\ signalling' = [signalling EXCEPT ![t] = t # Owner]
    /\ UNCHANGED <<loopVars, queueVars, wakeupFd, ready, ran>>

\* assert(!quit_) fails: the process aborts.
QuitAgain(t) ==
    /\ CanCall(t)
    /\ quit
    /\ pc' = "aborted"
    /\ UNCHANGED <<queueVars, quit, functors, wakeupFd, ready, active, listSize,
                   running, signalling, ran>>

\* write(2) adds to the counter; at its largest value it fails with EAGAIN,
\* which wakeup() only logs.
EventFdWrite(n) == IF n < EventFdMax THEN n + 1 ELSE n

Wakeup(t) ==
    /\ pc # "aborted"
    /\ signalling[t]
    /\ wakeupFd' = EventFdWrite(wakeupFd)
    /\ signalling' = [signalling EXCEPT ![t] = FALSE]
    /\ UNCHANGED <<loopVars, queueVars, quit, ready, ran>>

-----------------------------------------------------------------------------
(* The owner in loop().                                                    *)

StartLoop ==
    /\ pc = "init"
    /\ pc' = "check"
    /\ UNCHANGED <<queueVars, quit, functors, wakeupFd, ready, active, listSize,
                   running, signalling, ran>>

CheckQuit ==
    /\ pc = "check"
    /\ pc' = IF quit THEN "done" ELSE "poll"
    /\ UNCHANGED <<queueVars, quit, functors, wakeupFd, ready, active, listSize,
                   running, signalling, ran>>

\* What epoll_wait may report.
Pollable == ready \cup (IF wakeupFd > 0 THEN {WakeupChannel} ELSE {})

\* Faulty variant: the list keeps its size.
PollFixedList ==
    /\ pc = "poll"
    /\ \E A \in SUBSET Pollable :
          /\ A # {}
          /\ Cardinality(A) <= listSize
          /\ A = Pollable \/ Cardinality(A) = listSize
          /\ active' = A
    /\ pc' = "events"
    /\ UNCHANGED <<queueVars, quit, functors, wakeupFd, ready, listSize, running, signalling, ran>>

\* epoll_wait reports as many ready descriptors as fit in the list; a list that
\* was filled is doubled.
Poll ==
    /\ pc = "poll"
    /\ \E A \in SUBSET Pollable :
          /\ A # {}
          /\ Cardinality(A) <= listSize
          /\ A = Pollable \/ Cardinality(A) = listSize
          /\ active' = A
          /\ listSize' = IF Cardinality(A) = listSize THEN 2 * listSize ELSE listSize
    /\ pc' = "events"
    /\ UNCHANGED <<queueVars, quit, functors, wakeupFd, ready, running, signalling, ran>>

\* After kPollWaitTime, or at a signal, epoll_wait reports nothing.
PollNothing ==
    /\ pc = "poll"
    /\ Pollable = {}
    /\ pc' = "events"
    /\ UNCHANGED <<queueVars, quit, functors, wakeupFd, ready, active, listSize,
                   running, signalling, ran>>

\* The read empties the counter.
HandleWakeupRead ==
    /\ pc = "events"
    /\ ~running
    /\ WakeupChannel \in active
    /\ active' = active \ {WakeupChannel}
    /\ wakeupFd' = 0
    /\ UNCHANGED <<queueVars, pc, quit, functors, ready, listSize, running, signalling, ran>>

\* The channel's callback starts; it may leave its descriptor ready.
HandleEvent(c) ==
    /\ pc = "events"
    /\ ~running
    /\ c \in active
    /\ active' = active \ {c}
    /\ running' = TRUE
    /\ ready' \in {ready, ready \ {c}}
    /\ UNCHANGED <<queueVars, pc, quit, functors, wakeupFd, listSize, signalling, ran>>

\* Faulty variant: the pending functors are copied, not swapped.
SwapFunctorsCopies ==
    /\ pc = "events"
    /\ ~running
    /\ active = {}
    /\ pc' = "functors"
    /\ functors' = pendingFunctors
    /\ UNCHANGED <<queueVars, quit, wakeupFd, ready, active, listSize, running, signalling, ran>>

\* doPendingFunctors up to the end of the critical section.
SwapFunctors ==
    /\ pc = "events"
    /\ ~running
    /\ active = {}
    /\ pc' = "functors"
    /\ functors' = pendingFunctors
    /\ pendingFunctors' = << >>
    /\ UNCHANGED <<quit, wakeupFd, ready, active, listSize, running, signalling,
                   issued, early, ran>>

RunFunctor ==
    /\ pc = "functors"
    /\ ~running
    /\ functors # << >>
    /\ ran' = Append(ran, Head(functors))
    /\ functors' = Tail(functors)
    /\ running' = TRUE
    /\ UNCHANGED <<queueVars, pc, quit, wakeupFd, ready, active, listSize, signalling>>

CallbackReturns ==
    /\ running
    /\ pc # "aborted"
    /\ ~signalling[Owner]
    /\ running' = FALSE
    /\ UNCHANGED <<queueVars, pc, quit, functors, wakeupFd, ready, active, listSize,
                   signalling, ran>>

EndFunctors ==
    /\ pc = "functors"
    /\ ~running
    /\ functors = << >>
    /\ pc' = "check"
    /\ UNCHANGED <<queueVars, quit, functors, wakeupFd, ready, active, listSize,
                   running, signalling, ran>>

-----------------------------------------------------------------------------

\* The environment: a descriptor becomes ready.
BecomeReady(c) ==
    /\ c \notin ready
    /\ pc # "aborted"
    /\ ready' = ready \cup {c}
    /\ UNCHANGED <<loopVars, queueVars, quit, wakeupFd, signalling, ran>>

\* loop() has returned, or the process has aborted, and nothing more happens.
Stopped ==
    /\ pc \in {"done", "aborted"}
    /\ UNCHANGED vars

LoopStep ==
    \/ StartLoop
    \/ CheckQuit
    \/ Poll
    \/ HandleWakeupRead
    \/ \E c \in Channels : HandleEvent(c)
    \/ SwapFunctors
    \/ RunFunctor
    \/ CallbackReturns
    \/ EndFunctors
    \/ Wakeup(Owner)

Call(t) ==
    \/ \E f \in Functors : QueueInLoop(t, f)
    \/ Quit(t)
    \/ QuitAgain(t)

Next ==
    \/ LoopStep
    \/ PollNothing
    \/ \E t \in Threads : Call(t)
    \/ \E t \in Others : Wakeup(t)
    \/ \E f \in Functors : RunInLoop(f)
    \/ \E c \in Channels : BecomeReady(c)
    \/ Stopped

Spec == Init /\ [][Next]_vars

\* The owner and the threads inside a call keep running; nothing is assumed of
\* the poll time-out, so a sleeping loop moves only when a descriptor is ready.
FairSpec ==
    /\ Spec
    /\ WF_vars(LoopStep)
    /\ \A t \in Others : WF_vars(Wakeup(t))

-----------------------------------------------------------------------------
(* Properties.                                                             *)

\* Type invariant.
TypeOK ==
    /\ pc \in LoopStates
    /\ quit \in BOOLEAN
    /\ pendingFunctors \in Seq(Functors)
    /\ functors \in Seq(Functors)
    /\ wakeupFd \in 0 .. EventFdMax
    /\ ready \in SUBSET Channels
    /\ active \in SUBSET (Channels \cup {WakeupChannel})
    /\ listSize \in Nat \ {0}
    /\ running \in BOOLEAN
    /\ signalling \in [Threads -> BOOLEAN]
    /\ issued \in SUBSET Functors
    /\ early \in SUBSET issued
    /\ ran \in Seq(Functors)

\* The loop has been, or is about to be, told to return from epoll_wait.
WakeupComing == wakeupFd > 0 \/ \E t \in Threads : signalling[t]

\* Unless it is on its way to the swap that will take them (while it handles
\* events), the loop never has functors waiting, other than those its own thread
\* queued before loop(), without a wakeup written or about to be written: it
\* cannot go to sleep on them.
NoLostWakeup ==
    (Contents(pendingFunctors) \subseteq early) \/ pc \in {"events", "aborted"} \/ WakeupComing

\* The loop never sleeps in epoll_wait on a quit() that nothing will wake it for.
NoLostQuit == pc = "poll" /\ quit => WakeupComing

\* The loop goes to sleep neither on a functor nor on a quit(), whenever they come.
SleepsOnNothing == TypeOK /\ NoLostWakeup /\ NoLostQuit

\* The queue and the batch being run together are the task queue of TaskQueue:
\* functors run at most once, and the queued ones in the order of their queueing.
TQ == INSTANCE TaskQueue WITH
          queue <- functors \o pendingFunctors,
          open  <- pc \notin {"done", "aborted"}

TaskQueueSafe == TQ!Spec

Over == pc \in {"done", "aborted"}

\* Without waiting for the poll time-out, a functor that was not queued before
\* loop() is run, unless the loop stops; and loop() returns once some thread has
\* called quit().
PromptRun ==
    /\ \A f \in Functors :
          f \in issued \ early ~> f \in Contents(ran) \/ Over
    /\ quit ~> Over

\* A ready channel is handled, however many are ready: a list of events that was
\* too short for them is doubled until it is not.
ReadyIsHandled ==
    \A c \in Channels : c \in ready ~> c \in active \/ Over
=============================================================================
