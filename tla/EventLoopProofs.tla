-------------------------- MODULE EventLoopProofs --------------------------
(***************************************************************************)
(* Theorems about EventLoop, for any number of threads, functors and       *)
(* channels, any initial size of the event list and any eventfd limit.     *)
(***************************************************************************)
EXTENDS EventLoop, SequenceTheorems, TLAPS

\* Contents of a sequence after an Append: what queueInLoop adds to the queue.
LEMMA ContentsAppend ==
    ASSUME NEW S, NEW s \in Seq(S), NEW x
    PROVE  Contents(Append(s, x)) = Contents(s) \cup {x}
<1>1. DOMAIN Append(s, x) = 1 .. (Len(s) + 1)
  OBVIOUS
<1>2. \A i \in 1 .. Len(s) : Append(s, x)[i] = s[i]
  OBVIOUS
<1>3. Append(s, x)[Len(s) + 1] = x
  OBVIOUS
<1>4. DOMAIN s = 1 .. Len(s) /\ Len(s) \in Nat
  OBVIOUS
<1>5. QED
  BY <1>1, <1>2, <1>3, <1>4, SMT DEF Contents

\* The empty queue holds nothing: what the swap of doPendingFunctors leaves.
LEMMA ContentsEmpty == Contents(<< >>) = {}
  BY DEF Contents

\* The initial state is well typed.
LEMMA InitType == Init => TypeOK
<1> USE SizesAssumption DEF SizesAssumption, Init, TypeOK, LoopStates
<1>1. Init => wakeupFd \in 0 .. EventFdMax /\ listSize \in Nat \ {0}
  OBVIOUS
<1>2. Init => signalling \in [Threads -> BOOLEAN]
  OBVIOUS
<1>3. Init => pendingFunctors \in Seq(Functors) /\ functors \in Seq(Functors) /\ ran \in Seq(Functors)
  OBVIOUS
<1>4. QED
  BY <1>1, <1>2, <1>3

\* Every step keeps every variable in its type.
LEMMA TypeStep ==
    ASSUME TypeOK, [Next]_vars
    PROVE  TypeOK'
<1> USE SizesAssumption DEF SizesAssumption, TypeOK, LoopStates, Threads
<1> USE DEF loopVars, queueVars
<1>1. CASE StartLoop
  BY <1>1 DEF StartLoop
<1>2. CASE CheckQuit
  BY <1>2 DEF CheckQuit
<1>3. CASE Poll
  <2>1. PICK A \in SUBSET Pollable :
           /\ active' = A
           /\ listSize' = IF Cardinality(A) = listSize THEN 2 * listSize ELSE listSize
    BY <1>3 DEF Poll
  <2>2. active' \in SUBSET (Channels \cup {WakeupChannel})
    BY <2>1 DEF Pollable
  <2>3. listSize' \in Nat \ {0}
    BY <2>1
  <2>4. QED
    BY <1>3, <2>2, <2>3 DEF Poll
<1>4. CASE HandleWakeupRead
  BY <1>4 DEF HandleWakeupRead
<1>5. ASSUME NEW c \in Channels, HandleEvent(c)
      PROVE  TypeOK'
  BY <1>5 DEF HandleEvent
<1>6. CASE SwapFunctors
  BY <1>6 DEF SwapFunctors
<1>7. CASE RunFunctor
  BY <1>7 DEF RunFunctor
<1>8. CASE CallbackReturns
  BY <1>8 DEF CallbackReturns
<1>9. CASE EndFunctors
  BY <1>9 DEF EndFunctors
<1>10. CASE PollNothing
  BY <1>10 DEF PollNothing
<1>11. ASSUME NEW t \in Threads, NEW f \in Functors, QueueInLoop(t, f)
       PROVE  TypeOK'
  BY <1>11 DEF QueueInLoop, CallingPendingFunctors
<1>12. ASSUME NEW t \in Threads, Quit(t)
       PROVE  TypeOK'
  BY <1>12 DEF Quit
<1>13. ASSUME NEW t \in Threads, QuitAgain(t)
       PROVE  TypeOK'
  BY <1>13 DEF QuitAgain
<1>14. ASSUME NEW t \in Threads, Wakeup(t)
       PROVE  TypeOK'
  BY <1>14 DEF Wakeup, EventFdWrite
<1>15. ASSUME NEW f \in Functors, RunInLoop(f)
       PROVE  TypeOK'
  BY <1>15 DEF RunInLoop
<1>16. ASSUME NEW c \in Channels, BecomeReady(c)
       PROVE  TypeOK'
  BY <1>16 DEF BecomeReady
<1>17. CASE Stopped
  BY <1>17 DEF Stopped, vars
<1>18. CASE UNCHANGED vars
  BY <1>18 DEF vars
<1>19. QED
  BY <1>1, <1>2, <1>3, <1>4, <1>5, <1>6, <1>7, <1>8, <1>9, <1>10, <1>11, <1>12,
     <1>13, <1>14, <1>15, <1>16, <1>17, <1>18 DEF Next, LoopStep, Call

\* Type correctness: every variable of the loop keeps its type.
THEOREM TypeCorrect == Spec => []TypeOK
  BY InitType, TypeStep, PTL DEF Spec

-----------------------------------------------------------------------------

\* A step keeps a wakeup on its way unless it reads the eventfd: the write of
\* wakeup() only turns a thread about to write into a counter above zero.
LEMMA WakeupComingKept ==
    ASSUME TypeOK, [Next]_vars, WakeupComing, ~HandleWakeupRead
    PROVE  WakeupComing'
<1> USE SizesAssumption DEF SizesAssumption, TypeOK, WakeupComing, loopVars, queueVars
<1>1. ASSUME NEW t \in Threads, NEW f \in Functors, QueueInLoop(t, f)
      PROVE  WakeupComing'
  BY <1>1 DEF QueueInLoop, CanCall
<1>2. ASSUME NEW t \in Threads, Quit(t)
      PROVE  WakeupComing'
  BY <1>2 DEF Quit, CanCall
<1>3. ASSUME NEW t \in Threads, Wakeup(t)
      PROVE  WakeupComing'
  BY <1>3 DEF Wakeup, EventFdWrite
<1>4. CASE UNCHANGED <<wakeupFd, signalling>>
  BY <1>4
<1>5. QED
  BY <1>1, <1>2, <1>3, <1>4 DEF Next, LoopStep, Call, Threads, StartLoop, CheckQuit, Poll,
     HandleEvent, SwapFunctors, RunFunctor, CallbackReturns, EndFunctors, PollNothing,
     QuitAgain, RunInLoop, BecomeReady, Stopped, vars

\* A callback runs only while the loop handles events or runs its batch, so the
\* owner calls into its own loop only then, or before loop().
CallbackPhase == running => pc \in {"events", "functors", "aborted"}

\* A batch is left over only while it is being run.
BatchPhase == functors # << >> => pc \in {"functors", "aborted"}

\* The inductive invariant: without CallbackPhase the owner could queue a functor,
\* or quit, just before it sleeps, when it writes no wakeup; without BatchPhase a
\* swap could lose functors.
LoopInv == TypeOK /\ CallbackPhase /\ BatchPhase /\ NoLostWakeup /\ NoLostQuit

\* CallbackPhase is inductive by itself.
LEMMA CallbackPhaseStep ==
    ASSUME TypeOK, CallbackPhase, [Next]_vars
    PROVE  CallbackPhase'
<1> USE DEF TypeOK, LoopStates, CallbackPhase, loopVars, queueVars, Threads
<1>1. CASE UNCHANGED <<pc, running>>
  BY <1>1
<1>2. CASE LoopStep
  BY <1>2 DEF LoopStep, StartLoop, CheckQuit, Poll, HandleWakeupRead, HandleEvent,
     SwapFunctors, RunFunctor, CallbackReturns, EndFunctors, Wakeup
<1>3. CASE PollNothing
  BY <1>3 DEF PollNothing
<1>4. ASSUME NEW t \in Threads, QuitAgain(t)
      PROVE  CallbackPhase'
  BY <1>4 DEF QuitAgain
<1>5. QED
  BY <1>1, <1>2, <1>3, <1>4 DEF Next, Call, QueueInLoop, Quit, Wakeup, RunInLoop,
     BecomeReady, Stopped, vars

\* BatchPhase is inductive by itself.
LEMMA BatchPhaseStep ==
    ASSUME TypeOK, BatchPhase, [Next]_vars
    PROVE  BatchPhase'
<1> USE DEF TypeOK, LoopStates, BatchPhase, loopVars, queueVars, Threads
<1>1. CASE UNCHANGED <<pc, functors>>
  BY <1>1
<1>2. CASE LoopStep
  BY <1>2 DEF LoopStep, StartLoop, CheckQuit, Poll, HandleWakeupRead, HandleEvent,
     SwapFunctors, RunFunctor, CallbackReturns, EndFunctors, Wakeup
<1>3. CASE PollNothing
  BY <1>3 DEF PollNothing
<1>4. ASSUME NEW t \in Threads, QuitAgain(t)
      PROVE  BatchPhase'
  BY <1>4 DEF QuitAgain
<1>5. QED
  BY <1>1, <1>2, <1>3, <1>4 DEF Next, Call, QueueInLoop, Quit, Wakeup, RunInLoop,
     BecomeReady, Stopped, vars

\* queueInLoop either signals the loop, or is called where no wakeup is needed:
\* before loop(), or by a handler whose loop has yet to take its functors.
LEMMA QueueSignals ==
    ASSUME TypeOK, CallbackPhase, NEW t \in Threads, NEW f \in Functors, QueueInLoop(t, f),
           ~signalling'[t]
    PROVE  t = Owner /\ pc \in {"init", "events"}
  BY DEF QueueInLoop, CanCall, CallingPendingFunctors, TypeOK, LoopStates, CallbackPhase

\* NoLostWakeup survives every step.
LEMMA NoLostWakeupStep ==
    ASSUME TypeOK, CallbackPhase, NoLostWakeup, [Next]_vars
    PROVE  NoLostWakeup'
<1> USE DEF NoLostWakeup, loopVars, queueVars
<1>1. ASSUME NEW t \in Threads, NEW f \in Functors, QueueInLoop(t, f)
      PROVE  NoLostWakeup'
  <2>1. CASE signalling'[t]
    BY <2>1 DEF WakeupComing
  <2>2. CASE ~signalling'[t]
    <3>1. t = Owner /\ pc \in {"init", "events"}
      BY <2>2, <1>1, QueueSignals
    <3>2. CASE pc = "events"
      BY <3>2, <1>1 DEF QueueInLoop
    <3>3. CASE pc = "init"
      <4>1. early' = early \cup {f}
        BY <1>1, <3>1, <3>3 DEF QueueInLoop
      <4>2. Contents(pendingFunctors') = Contents(pendingFunctors) \cup {f}
        BY <1>1, ContentsAppend DEF QueueInLoop, TypeOK
      <4>3. WakeupComing => WakeupComing'
        BY WakeupComingKept, <3>3 DEF HandleWakeupRead
      <4>4. QED
        BY <4>1, <4>2, <4>3, <3>3
    <3>4. QED
      BY <3>1, <3>2, <3>3
  <2>3. QED
    BY <2>1, <2>2
<1>2. CASE HandleWakeupRead
  BY <1>2 DEF HandleWakeupRead
<1>3. CASE SwapFunctors
  BY <1>3, ContentsEmpty DEF SwapFunctors
<1>4. CASE ~HandleWakeupRead /\ UNCHANGED <<pendingFunctors, early>>
  <2>1. WakeupComing => WakeupComing'
    BY <1>4, WakeupComingKept
  <2>2. Contents(pendingFunctors)' = Contents(pendingFunctors)
    BY <1>4 DEF Contents
  <2>3. CASE pc \notin {"events", "aborted"}
    BY <2>1, <2>2, <2>3, <1>4
  <2>4. CASE pc \in {"events", "aborted"} /\ pc' = pc
    BY <2>4
  <2>5. CASE pc \in {"events", "aborted"} /\ pc' # pc
    \* Only the swap and an abort leave these states.
    <3>1. pc' = "aborted" \/ SwapFunctors
      BY <2>5 DEF Next, LoopStep, Call, StartLoop, CheckQuit, Poll, HandleWakeupRead,
         HandleEvent, RunFunctor, CallbackReturns, EndFunctors, Wakeup, PollNothing,
         QueueInLoop, Quit, QuitAgain, RunInLoop, BecomeReady, Stopped, vars
    <3>2. QED
      BY <3>1, <1>3
  <2>6. QED
    BY <2>3, <2>4, <2>5
<1>5. QED
  BY <1>1, <1>2, <1>3, <1>4 DEF Next, LoopStep, Call, StartLoop, CheckQuit, Poll,
     HandleWakeupRead, HandleEvent, SwapFunctors, RunFunctor, CallbackReturns, EndFunctors,
     Wakeup, PollNothing, Quit, QuitAgain, RunInLoop, BecomeReady, Stopped, vars

\* NoLostQuit survives every step.
LEMMA NoLostQuitStep ==
    ASSUME TypeOK, CallbackPhase, NoLostQuit, [Next]_vars
    PROVE  NoLostQuit'
<1> USE DEF NoLostQuit, loopVars, queueVars
<1>1. ASSUME NEW t \in Threads, Quit(t)
      PROVE  NoLostQuit'
  <2>1. CASE t = Owner
    BY <2>1, <1>1 DEF Quit, CanCall, CallbackPhase
  <2>2. CASE t # Owner
    <3>1. signalling'[t]
      BY <2>2, <1>1 DEF Quit, TypeOK
    <3>2. QED
      BY <3>1 DEF WakeupComing
  <2>3. QED
    BY <2>1, <2>2
<1>2. CASE CheckQuit
  BY <1>2 DEF CheckQuit, TypeOK
<1>3. CASE UNCHANGED <<pc, quit>> /\ ~HandleWakeupRead
  BY <1>3, WakeupComingKept
<1>4. CASE pc' # "poll"
  BY <1>4
<1>5. QED
  BY <1>1, <1>2, <1>3, <1>4 DEF Next, LoopStep, Call, StartLoop, Poll, HandleWakeupRead,
     HandleEvent, SwapFunctors, RunFunctor, CallbackReturns, EndFunctors, Wakeup, PollNothing,
     QueueInLoop, QuitAgain, RunInLoop, BecomeReady, Stopped, vars

\* The inductive invariant holds in every reachable state.
THEOREM LoopInvariance == Spec => []LoopInv
<1>1. Init => LoopInv
  <2>1. Init => TypeOK
    BY InitType
  <2>2. Init => CallbackPhase /\ BatchPhase /\ NoLostWakeup /\ NoLostQuit
    BY ContentsEmpty DEF Init, CallbackPhase, BatchPhase, NoLostWakeup, NoLostQuit
  <2>3. QED
    BY <2>1, <2>2 DEF LoopInv
<1>2. LoopInv /\ [Next]_vars => LoopInv'
  BY TypeStep, CallbackPhaseStep, BatchPhaseStep, NoLostWakeupStep, NoLostQuitStep DEF LoopInv
<1>3. QED
  BY <1>1, <1>2, PTL DEF Spec

\* No wakeup is lost: functors posted while the loop runs its batch, checks quit_
\* or sleeps always come with a write to the eventfd, done or about to be done, and
\* so does a quit() that the loop has not seen.
THEOREM NeverSleptOn == Spec => []SleepsOnNothing
  BY LoopInvariance, PTL DEF LoopInv, SleepsOnNothing

-----------------------------------------------------------------------------
(* The loop implements the task queue.                                     *)

\* Running the head of a batch shortens the batch and whatever is queued behind it.
LEMMA ConcatHeadTail ==
    ASSUME NEW S, NEW s \in Seq(S), NEW r \in Seq(S), s # << >>
    PROVE  /\ s \o r # << >>
           /\ Head(s \o r) = Head(s)
           /\ Tail(s \o r) = Tail(s) \o r
<1>1. s \o r # << >> /\ Head(s \o r) = Head(s)
  OBVIOUS
<1>2. Tail(s \o r) = Tail(s) \o r
  <2>1. Tail(s \o r) \in Seq(S) /\ Tail(s) \o r \in Seq(S)
    OBVIOUS
  <2>2. Len(Tail(s \o r)) = Len(Tail(s) \o r)
    OBVIOUS
  <2>3. \A i \in 1 .. Len(Tail(s \o r)) : Tail(s \o r)[i] = (Tail(s) \o r)[i]
    OBVIOUS
  <2>4. QED
    BY <2>1, <2>2, <2>3, SeqEqual
<1>3. QED
  BY <1>1, <1>2

\* Queueing behind the pending functors is queueing behind batch and pending ones.
LEMMA ConcatAppend ==
    ASSUME NEW S, NEW s \in Seq(S), NEW r \in Seq(S), NEW x \in S
    PROVE  s \o Append(r, x) = Append(s \o r, x)
  OBVIOUS

\* The empty sequence is a unit of concatenation: the swap moves, it does not change
\* the order.
LEMMA ConcatEmpty ==
    ASSUME NEW S, NEW s \in Seq(S)
    PROVE  s \o << >> = s /\ << >> \o s = s
  OBVIOUS

\* Every step of the loop is a step of the task queue or leaves it unchanged.
LEMMA RefinementStep ==
    ASSUME TypeOK, BatchPhase, [Next]_vars
    PROVE  [TQ!Next]_TQ!vars
<1> USE DEF TypeOK, TQ!vars, TQ!Next, loopVars, queueVars
<1>1. ASSUME NEW t \in Threads, NEW f \in Functors, QueueInLoop(t, f)
      PROVE  [TQ!Next]_TQ!vars
  <2>1. functors' \o pendingFunctors' = Append(functors \o pendingFunctors, f)
    BY <1>1, ConcatAppend DEF QueueInLoop
  <2>2. TQ!Post(f)
    BY <2>1, <1>1 DEF QueueInLoop, TQ!Post
  <2>3. QED
    BY <2>2
<1>2. ASSUME NEW f \in Functors, RunInLoop(f)
      PROVE  [TQ!Next]_TQ!vars
  <2>1. TQ!RunNow(f)
    BY <1>2 DEF RunInLoop, TQ!RunNow
  <2>2. QED
    BY <2>1
<1>3. CASE RunFunctor
  <2>1. TQ!RunNext
    BY <1>3, ConcatHeadTail DEF RunFunctor, TQ!RunNext
  <2>2. QED
    BY <2>1
<1>4. CASE SwapFunctors
  <2>0. functors = << >>
    BY <1>4 DEF SwapFunctors, BatchPhase
  <2>1. functors' \o pendingFunctors' = functors \o pendingFunctors
    BY <1>4, <2>0, ConcatEmpty DEF SwapFunctors
  <2>2. QED
    BY <2>1, <1>4 DEF SwapFunctors
<1>5. CASE UNCHANGED <<functors, pendingFunctors, issued, ran>>
  <2>1. (pc' \in {"done", "aborted"}) = (pc \in {"done", "aborted"}) \/ TQ!Close
    BY <1>5 DEF TQ!Close, Next, LoopStep, Call, StartLoop, CheckQuit, Poll, HandleWakeupRead,
       HandleEvent, SwapFunctors, RunFunctor, CallbackReturns, EndFunctors, Wakeup,
       PollNothing, QueueInLoop, Quit, QuitAgain, RunInLoop, BecomeReady, Stopped, vars
  <2>2. QED
    BY <2>1, <1>5
<1>6. QED
  BY <1>1, <1>2, <1>3, <1>4, <1>5 DEF Next, LoopStep, Call, StartLoop, CheckQuit, Poll,
     HandleWakeupRead, HandleEvent, SwapFunctors, CallbackReturns, EndFunctors, Wakeup,
     PollNothing, Quit, QuitAgain, BecomeReady, Stopped, vars

\* The event loop implements the task queue: functors handed to the loop run at most
\* once, the queued ones in the order they were queued, and none after loop() returned.
THEOREM ImplementsTaskQueue == Spec => TaskQueueSafe
<1>1. Init => TQ!Init
  BY ConcatEmpty DEF Init, TQ!Init
<1>2. LoopInv /\ [Next]_vars => [TQ!Next]_TQ!vars
  BY RefinementStep DEF LoopInv
<1>3. QED
  BY <1>1, <1>2, LoopInvariance, PTL DEF Spec, TaskQueueSafe, TQ!Spec
=============================================================================
