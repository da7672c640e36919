----------------------------- MODULE TaskQueue -----------------------------
(***************************************************************************)
(* What an event loop promises to the threads that hand it work            *)
(* (EventLoopff::runInLoop and EventLoopff::queueInLoop): every functor    *)
(* runs at most once, on the loop's thread, and the queued ones run in the *)
(* order in which they were queued, none of them after the loop has        *)
(* stopped.  How the loop is woken up is not visible here.                 *)
(***************************************************************************)
EXTENDS Sequences

CONSTANT Functors      \* the tasks that may be handed to the loop

VARIABLES queue,       \* the functors queued and not yet run, oldest first
          ran,         \* the functors run so far, in order
          issued,      \* the functors handed to the loop so far
          open         \* FALSE once the loop has stopped

vars == <<queue, ran, issued, open>>

Init ==
    /\ queue = << >>
    /\ ran = << >>
    /\ issued = {}
    /\ open = TRUE

Post(f) ==
    /\ f \notin issued
    /\ issued' = issued \cup {f}
    /\ queue' = Append(queue, f)
    /\ UNCHANGED <<ran, open>>

\* A functor handed over by the loop's own thread runs at once.
RunNow(f) ==
    /\ f \notin issued
    /\ issued' = issued \cup {f}
    /\ ran' = Append(ran, f)
    /\ UNCHANGED <<queue, open>>

RunNext ==
    /\ open
    /\ queue # << >>
    /\ ran' = Append(ran, Head(queue))
    /\ queue' = Tail(queue)
    /\ UNCHANGED <<issued, open>>

Close ==
    /\ open
    /\ open' = FALSE
    /\ UNCHANGED <<queue, ran, issued>>

Next ==
    \/ \E f \in Functors : Post(f) \/ RunNow(f)
    \/ RunNext
    \/ Close

Spec == Init /\ [][Next]_vars
=============================================================================
