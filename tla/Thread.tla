------------------------------- MODULE Thread -------------------------------
(***************************************************************************)
(* Threadff and the CountDownLatchff in it, as operators on a record: what *)
(* the new thread, the thread that starts it and the one that joins it do. *)
(* Each operator is one critical section of the latch or one system call.  *)
(***************************************************************************)
EXTENDS Integers

\* body: "none", "born" (pthread_create has returned), "running" (func_), "ended".
\* tid:  tid_ has been stored.
\* count, asleep: the latch, and whether the starter sleeps in its wait().
ThreadType == [body    : {"none", "born", "running", "ended"},
               tid     : BOOLEAN,
               count   : 0 .. 1,
               asleep  : BOOLEAN,
               started : BOOLEAN,
               joined  : BOOLEAN]

NewThread == [body |-> "none", tid |-> FALSE, count |-> 1, asleep |-> FALSE,
              started |-> FALSE, joined |-> FALSE]

\* start(), up to latch_.wait().
Started(t) == [t EXCEPT !.started = TRUE, !.body = "born"]

\* CountDownLatchff::wait(): it returns when the count is zero, and sleeps otherwise.
LatchOpen(t) == t.count = 0
LatchWaited(t) == [t EXCEPT !.asleep = TRUE]

\* Faulty: the thread counts down before it stores its tid, and never does.
CountedDownFirst(t) == [t EXCEPT !.count = 0, !.asleep = FALSE, !.body = "running"]

\* ThreadData::runInThread(), up to func_(): tid_ is stored, and countDown() notifies at zero.
CountedDown(t) == [t EXCEPT !.tid = TRUE, !.count = @ - 1,
                            !.asleep = @ /\ t.count # 1, !.body = "running"]

Ended(t) == [t EXCEPT !.body = "ended"]

\* join() returns when the thread has ended.
Joined(t) == [t EXCEPT !.joined = TRUE]
=============================================================================
