----------------------------- MODULE TimerQueue -----------------------------
(***************************************************************************)
(* The TimerQueueff of one EventLoopff.  Any thread adds and cancels       *)
(* timers (EventLoopff::runAt, runAfter, runEvery, cancel); what it asks   *)
(* for is done on the loop's thread, at once if that is the caller.  Of    *)
(* the loop only what TaskQueue promises is kept: tasks queued by other    *)
(* threads run there, in order, between handlers.                          *)
(*                                                                         *)
(* Times are kept as the time left, in units of the smallest delay that    *)
(* resetTimerfd asks for, and stop at 0: a timer with nothing left is due. *)
(* Timers are objects at addresses that are used again after a delete.     *)
(***************************************************************************)
EXTENDS Integers, Sequences, FiniteSets

CONSTANTS
    Others,      \* the threads that are not the loop's
    Addresses,   \* where a Timerff may be allocated
    Delays,      \* the delays users ask for
    Intervals,   \* the intervals of runEvery; 0 is that of a timer that does not repeat
    MaxDelay,    \* no delay and no interval is longer
    MaxTimers,   \* bound: timers created
    MaxQueue     \* bound: tasks waiting in the loop's queue when one more is queued

ASSUME DelaysAssumption ==
    MaxDelay \in Nat \ {0} /\ Delays \cup Intervals \subseteq 0 .. MaxDelay
ASSUME BoundsAssumption == MaxTimers \in Nat /\ MaxQueue \in Nat

VARIABLES
    heap,            \* the Timerff objects
    created,         \* timerCreated_
    timers,          \* timers_: pairs of the time left and the address
    activeTimers,    \* activeTimers_: pairs of the address and the sequence
    cancelingTimers, \* cancelingTimers_
    at,              \* the loop's thread: "idle" (between handlers, or in a handler
                     \* that is not ours), "calling" or in the "callback" of a timer
    expired,         \* the nodes handleTimerfdRead has taken out of timers_
    toRun,           \* those of them whose callback has not been called
    late,            \* the time since handleTimerfdRead looked at the clock
    timerFd,         \* the time left until timerFd_ is readable, or Disarmed
    reported,        \* epoll has reported timerFd_ and its handler has yet to run
    queue,           \* tasks that other threads have queued in the loop
    adding,          \* the timers other threads are in the middle of adding
    ids,             \* the TimerIds returned; made: the timer that was added
    cancelled        \* history: sequences cancelled while the queue had the timer

loopVars   == <<at, expired, toRun, late>>
timerVars  == <<heap, timers, activeTimers, timerFd>>
callerVars == <<created, queue, adding, ids>>
vars == <<timerVars, cancelingTimers, loopVars, reported, callerVars, cancelled>>

Disarmed == -1

Times == 0 .. MaxDelay

\* seq 0 is that of memory no timer has used.
Free == [live |-> FALSE, seq |-> 0, left |-> 0, interval |-> 0]

Init ==
    /\ heap = [a \in Addresses |-> Free]
    /\ created = 0
    /\ timers = {}
    /\ activeTimers = {}
    /\ cancelingTimers = {}
    /\ at = "idle"
    /\ expired = {}
    /\ toRun = {}
    /\ late = 0
    /\ timerFd = Disarmed
    /\ reported = FALSE
    /\ queue = << >>
    /\ adding = {}
    /\ ids = {}
    /\ cancelled = {}

-----------------------------------------------------------------------------

Live(a)  == heap[a].live
Entry(a) == <<a, heap[a].seq>>

\* delete keeps the sequence in the memory it frees.
Deleted(a) == [Free EXCEPT !.seq = heap[a].seq]

\* howMuchTimeFromNow asks for one unit at least.
TimeToWait(left) == IF left = 0 THEN 1 ELSE left

Earliest(nodes) == CHOOSE l \in {n[1] : n \in nodes} : \A n \in nodes : l <= n[1]

\* Faulty variant: only the first timer of an empty queue counts.
EarliestChangedOnlyFirst(left) == {timers = {}}

\* insertTimer's earliestChanged; among timers that are due the time left does not
\* tell which expired first.
EarliestChanged(left) ==
    IF timers = {} \/ left < Earliest(timers) THEN {TRUE}
    ELSE IF left = 0 THEN BOOLEAN ELSE {FALSE}

\* addTimerInLoop, for the timer at a with this sequence and time left.
AddTimerInLoop(a, seq, left) ==
    /\ timers' = timers \cup {<<left, a>>}
    /\ activeTimers' = activeTimers \cup {<<a, seq>>}
    /\ \E changed \in EarliestChanged(left) :
          timerFd' = IF changed THEN TimeToWait(left) ELSE timerFd

\* Faulty variant: the other set keeps the timer.
EraseFromTimersOnly(a) ==
    /\ timers' = timers \ {<<heap[a].left, a>>}
    /\ heap' = [heap EXCEPT ![a] = Deleted(a)]
    /\ UNCHANGED activeTimers

Erase(a) ==
    /\ timers' = timers \ {<<heap[a].left, a>>}
    /\ activeTimers' = activeTimers \ {Entry(a)}
    /\ heap' = [heap EXCEPT ![a] = Deleted(a)]

\* Faulty variants: a timer of the batch being called is deleted too, or forgotten.
CancelInLoopDeletes(id) ==
    /\ Erase(id.timer)
    /\ UNCHANGED <<timerFd, cancelingTimers, cancelled>>
CancelInLoopForgets(id) ==
    /\ IF <<id.timer, id.seq>> \in activeTimers
       THEN Erase(id.timer) ELSE UNCHANGED <<timers, activeTimers, heap>>
    /\ cancelled' = IF <<id.timer, id.seq>> \in activeTimers \cup {Entry(n[2]) : n \in expired}
                    THEN cancelled \cup {id.seq} ELSE cancelled
    /\ UNCHANGED <<timerFd, cancelingTimers>>

CancelInLoop(id) ==
    LET timer == <<id.timer, id.seq>>
    IN  /\ IF timer \in activeTimers
           THEN Erase(id.timer) /\ UNCHANGED cancelingTimers
           ELSE /\ cancelingTimers' = IF at = "idle" THEN cancelingTimers
                                      ELSE cancelingTimers \cup {timer}
                /\ UNCHANGED <<timers, activeTimers, heap>>
        /\ cancelled' = IF timer \in activeTimers \cup {Entry(n[2]) : n \in expired}
                        THEN cancelled \cup {id.seq} ELSE cancelled
        /\ UNCHANGED timerFd

-----------------------------------------------------------------------------
(* The calls of users.                                                     *)

\* new Timerff, at any free address.
NewTimer(a, left, interval) ==
    /\ created < MaxTimers
    /\ created' = created + 1
    /\ ~Live(a)
    /\ heap' = [heap EXCEPT ![a] = [live |-> TRUE, seq |-> created + 1,
                                    left |-> left, interval |-> interval]]

\* addTimer on the loop's thread, in a timer's callback or another handler.
AddTimer(a, left, interval) ==
    /\ at \in {"idle", "callback"}
    /\ NewTimer(a, left, interval)
    /\ AddTimerInLoop(a, created + 1, left)
    /\ ids' = ids \cup {[timer |-> a, seq |-> created + 1, made |-> created + 1]}
    /\ UNCHANGED <<cancelingTimers, loopVars, reported, queue, adding, cancelled>>

Cancel(id) ==
    /\ at \in {"idle", "callback"}
    /\ CancelInLoop(id)
    /\ UNCHANGED <<loopVars, reported, callerVars>>

\* addTimer on another thread: the timer is created and its insertion queued ...
QueueAddTimer(t, a, left, interval) ==
    /\ \A call \in adding : call.by # t
    /\ Len(queue) < MaxQueue
    /\ NewTimer(a, left, interval)
    /\ queue' = Append(queue, [task |-> "add", timer |-> a, seq |-> created + 1])
    /\ adding' = adding \cup {[by |-> t, timer |-> a, made |-> created + 1]}
    /\ UNCHANGED <<timers, activeTimers, timerFd, cancelingTimers, loopVars, reported, ids,
                   cancelled>>

\* ... and then its sequence is read, from memory that may have been freed and used
\* again since; freed memory holds the old value or anything else, here 0.
ReturnTimerId(call) ==
    /\ LET a == call.timer
       IN  \E seq \in IF Live(a) THEN {heap[a].seq} ELSE {heap[a].seq, 0} :
              ids' = ids \cup {[timer |-> a, seq |-> seq, made |-> call.made]}
    /\ adding' = adding \ {call}
    /\ UNCHANGED <<timerVars, cancelingTimers, loopVars, reported, created, queue, cancelled>>

QueueCancel(id) ==
    /\ Len(queue) < MaxQueue
    /\ queue' = Append(queue, [task |-> "cancel", timer |-> id.timer, seq |-> id.seq])
    /\ UNCHANGED <<timerVars, cancelingTimers, loopVars, reported, created, adding, ids,
                   cancelled>>

-----------------------------------------------------------------------------
(* The loop's thread.                                                      *)

RunTask ==
    /\ at = "idle"
    /\ queue # << >>
    /\ queue' = Tail(queue)
    /\ LET task == Head(queue)
       IN  IF task.task = "add"
           THEN /\ AddTimerInLoop(task.timer, task.seq, heap[task.timer].left)
                /\ UNCHANGED <<heap, cancelingTimers, cancelled>>
           ELSE CancelInLoop(task)
    /\ UNCHANGED <<loopVars, reported, created, adding, ids>>

Poll ==
    /\ at = "idle"
    /\ timerFd = 0
    /\ ~reported
    /\ reported' = TRUE
    /\ UNCHANGED <<timerVars, cancelingTimers, loopVars, callerVars, cancelled>>

\* Up to the first callback: the read empties timerFd_, unless it has been set again
\* since it was reported, and getExpiredTimer takes the timers that are due.
HandleTimerfdRead ==
    /\ at = "idle"
    /\ reported
    /\ reported' = FALSE
    /\ timerFd' = IF timerFd = 0 THEN Disarmed ELSE timerFd
    /\ expired' = {n \in timers : n[1] = 0}
    /\ toRun' = expired'
    /\ timers' = timers \ expired'
    /\ activeTimers' = activeTimers \ {Entry(n[2]) : n \in expired'}
    /\ cancelingTimers' = {}
    /\ at' = "calling"
    /\ late' = 0
    /\ UNCHANGED <<heap, callerVars, cancelled>>

\* Timers that are due together are called in any order.
RunTimer ==
    /\ at = "calling"
    /\ \E n \in toRun : toRun' = toRun \ {n}
    /\ at' = "callback"
    /\ UNCHANGED <<timerVars, cancelingTimers, expired, late, reported, callerVars, cancelled>>

CallbackReturns ==
    /\ at = "callback"
    /\ at' = "calling"
    /\ UNCHANGED <<timerVars, cancelingTimers, expired, toRun, late, reported, callerVars,
                   cancelled>>

\* Faulty variant: timerFd_ is left alone.
RearmedNever(nodes) == timerFd

\* timerFd_ is set for the earliest of the nodes there are.
Rearmed(nodes) == IF nodes = {} THEN timerFd ELSE TimeToWait(Earliest(nodes))

\* reset: those that repeat and were not cancelled meanwhile are inserted again, the
\* others deleted, and timerFd_ is set for the earliest timer there is.
Reset ==
    LET Again(n) == heap[n[2]].interval > 0 /\ Entry(n[2]) \notin cancelingTimers
        again    == {n[2] : n \in {m \in expired : Again(m)}}
        over     == {n[2] : n \in expired} \ again
        Left(a)  == IF heap[a].interval > late THEN heap[a].interval - late ELSE 0
    IN  /\ at = "calling"
        /\ toRun = {}
        /\ heap' = [a \in Addresses |->
                       IF a \in again THEN [heap[a] EXCEPT !.left = Left(a)]
                       ELSE IF a \in over THEN Deleted(a) ELSE heap[a]]
        /\ timers' = timers \cup {<<Left(a), a>> : a \in again}
        /\ activeTimers' = activeTimers \cup {Entry(a) : a \in again}
        /\ timerFd' = Rearmed(timers')
        /\ at' = "idle"
        /\ expired' = {}
        /\ late' = 0
        /\ UNCHANGED <<toRun, cancelingTimers, reported, callerVars, cancelled>>

-----------------------------------------------------------------------------

\* howMuchTimeFromNow does not go below its smallest delay.
Sooner(left) == IF left > 0 THEN left - 1 ELSE 0

\* One unit of time passes, on the wall clock and on that of timerFd_.
Tick ==
    /\ heap' = [a \in Addresses |-> [heap[a] EXCEPT !.left = Sooner(@)]]
    /\ timers' = {<<Sooner(n[1]), n[2]>> : n \in timers}
    /\ timerFd' = IF timerFd = Disarmed THEN Disarmed ELSE Sooner(timerFd)
    /\ late' = IF at = "idle" \/ late + 1 \notin Times THEN late ELSE late + 1
    /\ UNCHANGED <<activeTimers, cancelingTimers, at, expired, toRun, reported, callerVars,
                   cancelled>>

UserCall ==
    \/ \E a \in Addresses, left \in Delays, interval \in Intervals :
          \/ AddTimer(a, left, interval)
          \/ \E t \in Others : QueueAddTimer(t, a, left, interval)
    \/ \E id \in ids : Cancel(id) \/ QueueCancel(id)

Next ==
    \/ UserCall
    \/ \E call \in adding : ReturnTimerId(call)
    \/ RunTask
    \/ Poll
    \/ HandleTimerfdRead
    \/ RunTimer
    \/ CallbackReturns
    \/ Reset
    \/ Tick

Spec == Init /\ [][Next]_vars

\* Time passes, callbacks return, and an iteration of the loop polls, handles what was
\* reported and runs what was queued before (EventLoop).
FairSpec ==
    /\ Spec
    /\ WF_vars(Tick)
    /\ WF_vars(Poll) /\ WF_vars(HandleTimerfdRead) /\ WF_vars(RunTask)
    /\ WF_vars(RunTimer \/ CallbackReturns \/ Reset)

-----------------------------------------------------------------------------
(* Properties.                                                             *)

SequencesUsed == 0 .. MaxTimers

\* Type invariant.
TypeOK ==
    /\ heap \in [Addresses -> [live : BOOLEAN, seq : SequencesUsed, left : Times,
                               interval : Intervals \cup {0}]]
    /\ created \in SequencesUsed
    /\ timers \cup expired \cup toRun \subseteq Times \X Addresses
    /\ activeTimers \cup cancelingTimers \subseteq Addresses \X SequencesUsed
    /\ at \in {"idle", "calling", "callback"}
    /\ late \in Times
    /\ timerFd \in Times \cup {Disarmed}
    /\ reported \in BOOLEAN
    /\ cancelled \subseteq SequencesUsed

\* timers_ and activeTimers_ hold the same timers, each under the expiration time and
\* the sequence that the timer now has: so a timer can be found again in both.
SetsAgree ==
    /\ \A n \in timers : heap[n[2]].left = n[1]
    /\ activeTimers = {Entry(n[2]) : n \in timers}
    /\ \A m, n \in timers : m[2] = n[2] => m = n

\* Every object allocated is in exactly one of timers_, the batch being called and the
\* queue of the loop, and none of those has an object that was deleted.
Queued == {queue[i].timer : i \in {j \in DOMAIN queue : queue[j].task = "add"}}
Accounted ==
    /\ TypeOK
    /\ {a \in Addresses : Live(a)} = {n[2] : n \in timers \cup expired} \cup Queued
    /\ {n[2] : n \in timers} \cap {n[2] : n \in expired} = {}
    /\ Queued \cap {n[2] : n \in timers \cup expired} = {}

\* While there are timers, and the handler is not at work, timerFd_ is set, for no
\* later than the earliest of them or for the shortest delay.
Armed ==
    at = "idle" /\ timers # {} => timerFd \in 0 .. TimeToWait(Earliest(timers))

\* A timer cancelled while the queue has it, even from the callbacks of a batch it is
\* part of, is never inserted again.
CancelHolds == \A a \in Addresses, s \in cancelled : <<a, s>> \notin activeTimers

\* Every timer in the queue expires or is cancelled.
EveryTimerExpires ==
    \A s \in 1 .. MaxTimers :
        s \in {timer[2] : timer \in activeTimers} ~> s \notin {timer[2] : timer \in activeTimers}

\* "this timer's sequence(unique)": a TimerId is that of the timer its call made.
IdsAreTrue == \A id \in ids : id.seq = id.made
=============================================================================
