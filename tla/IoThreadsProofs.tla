-------------------------- MODULE IoThreadsProofs --------------------------
(***************************************************************************)
(* For any number of I/O threads, descriptors and connections: where only  *)
(* the destructor quits the loops, no assertion fails and nothing that is  *)
(* gone is used, but the loop by the wakeup() at the end of quit(); and    *)
(* the connections are always spread evenly.                               *)
(***************************************************************************)
EXTENDS IoThreads, SequenceTheorems, TLAPS

\* A thread's latch, the place it has got to, loop_ and quit_ go together.
ThreadInv ==
    \A i \in Ids :
        /\ threads[i].count = IF threads[i].body \in {"none", "born"} THEN 1 ELSE 0
        /\ io[i] = "none" <=> threads[i].body \in {"none", "born"}
        /\ io[i] = "done" <=> threads[i].body = "ended"
        /\ i \notin Workers => threads[i].body = "none"
        /\ loop[i] <=> io[i] \in {"enter", "loop", "left"}
        /\ io[i] \in {"left", "cleared", "done"} => quit[i]

Starting == owner \in {"start", "latch", "wait", "asleep"}

\* Threads are started in order, and only the destructor has quit those it has come to.
OwnerInv ==
    /\ owner # "new" => at \in 1 .. numThreads + 1
    /\ owner \in {"latch", "wait", "asleep", "quit", "wakeup", "join"} => at \in Workers
    /\ owner = "new" => \A i \in Ids : threads[i].body = "none"
    /\ Starting => \A i \in Ids : i > at => threads[i].body = "none"
    /\ owner = "start" => \A i \in Ids : i = at => threads[i].body = "none"
    /\ ~othersQuit => \A i \in Ids : quit[i] =>
          \/ owner \in {"stop", "quit", "wakeup", "join", "gone"} /\ i < at
          \/ owner \in {"wakeup", "join"} /\ i = at

\* The pool has the loops of the threads started so far, in their order, each published.
LoopsInv ==
    /\ Len(loops) = IF owner = "new" THEN 0 ELSE IF Starting THEN at - 1 ELSE numThreads
    /\ \A k \in DOMAIN loops : loops[k] = k /\ io[k] \notin {"none", "init", "publish"}

\* What is destroyed has been joined; only wakeup() may come too late for its loop.
FaultInv ==
    ~othersQuit => faults \subseteq {"wakeupFd"} /\ \A i \in destroyed : io[i] = "done"

\* The loops before the next one have been given one connection more than those from it on;
\* what a loop was given does not wait any more.
Lead(i) == IF i < next THEN 1 ELSE 0
SpreadInv ==
    /\ owner = "new" \/ Starting => next = 1 /\ \A i \in {0} \cup Ids : given[i] = 0
    /\ IF loops = << >> THEN next = 1 ELSE next \in DOMAIN loops /\ given[0] = 0
    /\ \A i, j \in DOMAIN loops : given[i] + Lead(j) = given[j] + Lead(i)
    /\ \A i \in {0} \cup Ids : given[i] + acceptor.waiting <= arrived

\* The inductive invariant.
IoInv == TypeOK /\ ThreadInv /\ OwnerInv /\ LoopsInv /\ FaultInv /\ SpreadInv

-----------------------------------------------------------------------------
(* What the operators do.                                                  *)

LEMMA ThreadOperations ==
    ASSUME NEW t \in ThreadType
    PROVE  /\ Started(t) \in ThreadType /\ Started(t).body = "born" /\ Started(t).count = t.count
           /\ LatchWaited(t) \in ThreadType
           /\ LatchWaited(t).body = t.body /\ LatchWaited(t).count = t.count
           /\ Ended(t) \in ThreadType /\ Ended(t).body = "ended" /\ Ended(t).count = t.count
           /\ Joined(t) \in ThreadType /\ Joined(t).body = t.body /\ Joined(t).count = t.count
<1> USE DEF ThreadType
<1>1. Started(t) \in ThreadType /\ Started(t).body = "born" /\ Started(t).count = t.count
  BY DEF Started
<1>2. LatchWaited(t) \in ThreadType /\ LatchWaited(t).body = t.body /\ LatchWaited(t).count = t.count
  BY DEF LatchWaited
<1>3. Ended(t) \in ThreadType /\ Ended(t).body = "ended" /\ Ended(t).count = t.count
  BY DEF Ended
<1>4. Joined(t) \in ThreadType /\ Joined(t).body = t.body /\ Joined(t).count = t.count
  BY DEF Joined
<1> QED BY <1>1, <1>2, <1>3, <1>4

LEMMA ThreadBegins ==
    ASSUME NEW t \in ThreadType, t.count = 1
    PROVE  /\ CountedDown(t) \in ThreadType
           /\ CountedDown(t).body = "running" /\ CountedDown(t).count = 0
<1> DEFINE u == [t EXCEPT !.asleep = FALSE, !.tid = TRUE]
           v == [u EXCEPT !.count = 0]
<1>1. (t.asleep /\ t.count # 1) = FALSE /\ t.count - 1 = 0
  OBVIOUS
<1>2. CountedDown(t) = [t EXCEPT !.tid = TRUE, !.count = t.count - 1,
                                 !.asleep = (t.asleep /\ t.count # 1), !.body = "running"]
  BY Zenon DEF CountedDown
<1>3. CountedDown(t) = [t EXCEPT !.tid = TRUE, !.count = 0, !.asleep = FALSE, !.body = "running"]
  BY <1>1, <1>2, Zenon
<1>4. CountedDown(t) = [v EXCEPT !.body = "running"]
  BY <1>3 DEF ThreadType
<1>5. u \in ThreadType
  BY DEF ThreadType
<1> HIDE DEF u
<1>6. v \in ThreadType /\ v.count = 0
  BY <1>5 DEF ThreadType
<1> HIDE DEF v
<1> QED BY <1>4, <1>6 DEF ThreadType

\* A connection that is accepted or refused is one that waited.
LEMMA AcceptorOperations ==
    ASSUME NEW a \in AcceptorType(MaxFds)
    PROVE  /\ /\ Listening(a) \in AcceptorType(MaxFds) /\ Listening(a).waiting = a.waiting
              /\ [a EXCEPT !.waiting = @ + 1] \in AcceptorType(MaxFds)
              /\ [a EXCEPT !.waiting = @ + 1].waiting = a.waiting + 1
           /\ a.open > 0 => /\ [a EXCEPT !.open = @ - 1] \in AcceptorType(MaxFds)
                            /\ [a EXCEPT !.open = @ - 1].waiting = a.waiting
           /\ /\ [a EXCEPT !.listening = FALSE, !.idle = FALSE] \in AcceptorType(MaxFds)
              /\ [a EXCEPT !.listening = FALSE, !.idle = FALSE].waiting = a.waiting
           /\ a.waiting > 0 /\ MayAccept(a, MaxFds) =>
                 Accepted(a) \in AcceptorType(MaxFds) /\ Accepted(a).waiting = a.waiting - 1
           /\ a.waiting > 0 =>
                 Refused(a, MaxFds) \in AcceptorType(MaxFds) /\ Refused(a, MaxFds).waiting <= a.waiting
<1> USE IoAssumption DEF AcceptorType
<1>1. /\ Listening(a) \in AcceptorType(MaxFds) /\ Listening(a).waiting = a.waiting
      /\ [a EXCEPT !.waiting = @ + 1] \in AcceptorType(MaxFds)
      /\ [a EXCEPT !.waiting = @ + 1].waiting = a.waiting + 1
  <2>1. Listening(a) \in AcceptorType(MaxFds) /\ Listening(a).waiting = a.waiting
    BY DEF Listening
  <2>2. /\ [a EXCEPT !.waiting = @ + 1] \in AcceptorType(MaxFds)
        /\ [a EXCEPT !.waiting = @ + 1].waiting = a.waiting + 1
    OBVIOUS
  <2> QED BY <2>1, <2>2
<1>2. a.open > 0 => /\ [a EXCEPT !.open = @ - 1] \in AcceptorType(MaxFds)
                    /\ [a EXCEPT !.open = @ - 1].waiting = a.waiting
  OBVIOUS
<1>3. /\ [a EXCEPT !.listening = FALSE, !.idle = FALSE] \in AcceptorType(MaxFds)
      /\ [a EXCEPT !.listening = FALSE, !.idle = FALSE].waiting = a.waiting
  OBVIOUS
<1>4. ASSUME a.waiting > 0, MayAccept(a, MaxFds)
      PROVE  Accepted(a) \in AcceptorType(MaxFds) /\ Accepted(a).waiting = a.waiting - 1
  <2>1. a.open + 1 \in 0 .. MaxFds
    BY <1>4 DEF MayAccept, Used
  <2> DEFINE taken == [a EXCEPT !.waiting = a.waiting - 1]
  <2>2. taken \in AcceptorType(MaxFds) /\ taken.waiting = a.waiting - 1 /\ taken.open = a.open
    BY <1>4
  <2>3. Accepted(a) = [taken EXCEPT !.open = a.open + 1]
    BY DEF Accepted
  <2> HIDE DEF taken
  <2> QED BY <2>1, <2>2, <2>3
<1>5. ASSUME a.waiting > 0
      PROVE  Refused(a, MaxFds) \in AcceptorType(MaxFds) /\ Refused(a, MaxFds).waiting <= a.waiting
  <2> DEFINE freed == [a EXCEPT !.idle = FALSE]
  <2>1. freed \in AcceptorType(MaxFds) /\ freed.waiting = a.waiting
    OBVIOUS
  <2>2. Refused(a, MaxFds) = IF MayAccept(freed, MaxFds) THEN [freed EXCEPT !.waiting = @ - 1] ELSE freed
    BY DEF Refused
  <2> HIDE DEF freed
  <2>3. /\ [freed EXCEPT !.waiting = @ - 1] \in AcceptorType(MaxFds)
        /\ [freed EXCEPT !.waiting = @ - 1].waiting <= a.waiting
    BY <1>5, <2>1
  <2> QED BY <2>1, <2>2, <2>3
<1> QED BY <1>1, <1>2, <1>3, <1>4, <1>5

-----------------------------------------------------------------------------
(* Initially.                                                              *)

LEMMA IoInit == Init => IoInv
<1> SUFFICES ASSUME Init PROVE IoInv
  OBVIOUS
<1>1. NewThread \in ThreadType /\ NewThread.body = "none" /\ NewThread.count = 1
  BY DEF NewThread, ThreadType
<1>2. NewAcceptor \in AcceptorType(MaxFds) /\ NewAcceptor.waiting = 0
  BY IoAssumption DEF NewAcceptor, AcceptorType
<1>3. TypeOK
  <2>1. << >> \in Seq(Ids) /\ 0 \in 0 .. MaxThreads + 1 /\ 1 \in 1 .. MaxThreads + 1
        /\ 0 \in 0 .. MaxArrivals
    BY IoAssumption
  <2> QED BY <1>1, <1>2, <2>1 DEF Init, TypeOK
<1>4. ThreadInv /\ OwnerInv
  BY <1>1 DEF Init, ThreadInv, OwnerInv, Starting
<1>5. LoopsInv /\ FaultInv
  BY EmptySeq DEF Init, LoopsInv, FaultInv
<1>6. SpreadInv
  <2>1. DOMAIN loops = {}
    BY EmptySeq DEF Init
  <2> QED BY <1>2, <2>1 DEF Init, SpreadInv
<1> QED BY <1>3, <1>4, <1>5, <1>6 DEF IoInv

-----------------------------------------------------------------------------
(* What a step leaves alone.                                               *)

LEMMA IoTypes ==
    ASSUME IoInv
    PROVE  /\ numThreads \in Nat /\ Ids \subseteq Nat /\ Workers \subseteq Ids
           /\ at \in Nat /\ next \in Nat /\ arrived \in Nat /\ Len(loops) \in Nat
           /\ DOMAIN loops = 1 .. Len(loops) /\ DOMAIN loops \subseteq Ids
           /\ loops = << >> <=> Len(loops) = 0
           /\ acceptor \in AcceptorType(MaxFds) /\ acceptor.waiting \in Nat
           /\ threads \in [Ids -> ThreadType]
           /\ \A i \in {0} \cup Ids : given[i] \in Nat
<1> USE IoAssumption DEF IoInv, TypeOK
<1>1. numThreads \in 0 .. MaxThreads /\ Ids \subseteq Nat /\ Workers \subseteq Ids
  BY DEF Ids, Workers
<1>2. Len(loops) \in Nat /\ DOMAIN loops = 1 .. Len(loops) /\ (loops = << >> <=> Len(loops) = 0)
  BY LenProperties, EmptySeq
<1>3. Len(loops) <= numThreads
  BY <1>1, <1>2 DEF LoopsInv, OwnerInv, Starting
<1>4. DOMAIN loops \subseteq Ids
  BY <1>1, <1>2, <1>3 DEF Ids
<1>5. acceptor \in AcceptorType(MaxFds) /\ acceptor.waiting \in Nat
  BY DEF AcceptorType
<1> QED BY <1>1, <1>2, <1>4, <1>5

LEMMA SpreadKept ==
    ASSUME IoInv, UNCHANGED <<next, given, loops>>,
           arrived' \in Nat, acceptor'.waiting \in Nat,
           arrived' - acceptor'.waiting >= arrived - acceptor.waiting,
           owner' = "new" \/ Starting' => owner = "new" \/ Starting
    PROVE  SpreadInv'
<1>1. /\ arrived \in Nat /\ acceptor.waiting \in Nat
      /\ \A i \in {0} \cup Ids : given[i] \in Nat
  BY IoTypes
<1>2. \A i \in {0} \cup Ids : given[i] + acceptor.waiting <= arrived
  BY DEF IoInv, SpreadInv
<1>3. \A i \in {0} \cup Ids : given'[i] + acceptor'.waiting <= arrived'
  BY <1>1, <1>2
<1>4. \A i \in Nat : Lead(i)' = Lead(i)
  BY DEF Lead
<1>5. \A i, j \in DOMAIN loops' : given'[i] + Lead(j)' = given'[j] + Lead(i)'
  BY <1>4, IoTypes DEF IoInv, SpreadInv, Lead
<1>6. IF loops' = << >> THEN next' = 1 ELSE next' \in DOMAIN loops' /\ given'[0] = 0
  BY DEF IoInv, SpreadInv
<1>7. owner' = "new" \/ Starting' => next' = 1 /\ \A i \in {0} \cup Ids : given'[i] = 0
  BY DEF IoInv, SpreadInv
<1> QED BY <1>3, <1>5, <1>6, <1>7 DEF SpreadInv, Lead

\* No connection comes or goes.
LEMMA SpreadUnchanged ==
    ASSUME IoInv, UNCHANGED <<next, given, loops, acceptor, arrived>>,
           owner' = "new" \/ Starting' => owner = "new" \/ Starting
    PROVE  SpreadInv'
BY IoTypes, SpreadKept

LEMMA LoopsKept ==
    ASSUME IoInv, UNCHANGED <<loops, numThreads>>,
           \A i \in Ids : io[i] \notin {"none", "init", "publish"} => io'[i] \notin {"none", "init", "publish"},
           Len(loops) = IF owner' = "new" THEN 0 ELSE IF Starting' THEN at' - 1 ELSE numThreads
    PROVE  LoopsInv'
BY IoTypes DEF IoInv, LoopsInv

-----------------------------------------------------------------------------
(* start(), in the base loop's thread.                                     *)

LEMMA StartStep == ASSUME IoInv, Start PROVE IoInv'
<1> USE IoTypes DEF IoInv, Start, setup, thread, pool
<1>1. TypeOK'
  BY IoAssumption DEF TypeOK
<1>2. ThreadInv'
  BY DEF ThreadInv, Workers
<1>3. OwnerInv'
  BY DEF OwnerInv, Starting, Workers
<1>4. LoopsInv'
  BY LoopsKept DEF LoopsInv, Starting
<1>5. SpreadInv'
  BY SpreadUnchanged
<1>6. FaultInv'
  BY DEF FaultInv
<1> QED BY <1>1, <1>2, <1>3, <1>4, <1>5, <1>6

LEMMA CreateThreadStep == ASSUME IoInv, CreateThread PROVE IoInv'
<1> USE DEF IoInv
<1>1. /\ owner = "start" /\ at \in Workers /\ owner' = "latch"
      /\ threads' = [threads EXCEPT ![at] = Started(threads[at])]
      /\ UNCHANGED <<numThreads, othersQuit, at, io, loop, quit, loops, next, given, acceptor,
                     arrived, destroyed, faults>>
  BY DEF CreateThread, setup, pool
<1>2. /\ Started(threads[at]) \in ThreadType /\ Started(threads[at]).body = "born"
      /\ Started(threads[at]).count = threads[at].count
  BY <1>1, IoTypes, ThreadOperations
<1>3. threads[at].body = "none" /\ threads[at].count = 1
  BY <1>1, IoTypes DEF OwnerInv, ThreadInv
<1>4. TypeOK'
  BY <1>1, <1>2 DEF TypeOK
<1>5. ThreadInv'
  BY <1>1, <1>2, <1>3, IoTypes DEF ThreadInv, Workers
<1>6. OwnerInv'
  BY <1>1, <1>2, <1>3, IoTypes DEF OwnerInv, Starting, Workers
<1>7. LoopsInv'
  BY <1>1, LoopsKept DEF LoopsInv, Starting
<1>8. SpreadInv' /\ FaultInv'
  BY <1>1, SpreadUnchanged DEF FaultInv, Starting
<1> QED BY <1>4, <1>5, <1>6, <1>7, <1>8

LEMMA WaitForThreadStep == ASSUME IoInv, WaitForThread PROVE IoInv'
<1> USE DEF IoInv
<1>1. /\ owner = "latch" /\ at \in Workers
      /\ \/ owner' = "wait" /\ threads' = threads
         \/ owner' = owner /\ threads' = [threads EXCEPT ![at] = LatchWaited(threads[at])]
      /\ UNCHANGED <<numThreads, othersQuit, at, io, loop, quit, loops, next, given, acceptor,
                     arrived, destroyed, faults>>
  BY DEF WaitForThread, setup, pool, OwnerInv
<1>2. /\ LatchWaited(threads[at]) \in ThreadType
      /\ LatchWaited(threads[at]).body = threads[at].body
      /\ LatchWaited(threads[at]).count = threads[at].count
  BY <1>1, IoTypes, ThreadOperations
<1>3. TypeOK'
  BY <1>1, <1>2 DEF TypeOK
<1>4. \A i \in Ids : threads'[i].body = threads[i].body /\ threads'[i].count = threads[i].count
  BY <1>1, <1>2, IoTypes
<1>5. ThreadInv'
  BY <1>1, <1>4 DEF ThreadInv, Workers
<1>6. OwnerInv'
  BY <1>1, <1>4 DEF OwnerInv, Starting, Workers
<1>7. LoopsInv'
  BY <1>1, LoopsKept DEF LoopsInv, Starting
<1>8. SpreadInv' /\ FaultInv'
  BY <1>1, SpreadUnchanged DEF FaultInv, Starting
<1> QED BY <1>3, <1>5, <1>6, <1>7, <1>8

LEMMA WaitForLoopStep == ASSUME IoInv, WaitForLoop \/ OwnerWakes PROVE IoInv'
<1> USE DEF IoInv
<1>1. /\ owner \in {"wait", "asleep"} /\ at \in Workers
      /\ UNCHANGED <<numThreads, othersQuit, threads, io, loop, quit, next, given, acceptor,
                     arrived, destroyed, faults>>
  BY DEF WaitForLoop, OwnerWakes, setup, thread, pool, OwnerInv
<1>2. ThreadInv'
  BY <1>1 DEF ThreadInv, Workers
<1>3. FaultInv'
  BY <1>1 DEF FaultInv
<1>4. CASE owner' \in {"wait", "asleep"} /\ UNCHANGED <<loops, at>>
  <2>1. TypeOK' /\ OwnerInv'
    BY <1>1, <1>4 DEF TypeOK, OwnerInv, Starting, Workers
  <2>2. LoopsInv'
    BY <1>1, <1>4, LoopsKept DEF LoopsInv, Starting
  <2>3. SpreadInv'
    BY <1>1, <1>4, SpreadUnchanged DEF Starting
  <2> QED BY <1>2, <1>3, <2>1, <2>2, <2>3
<1>5. CASE loop[at] /\ owner' = "start" /\ loops' = Append(loops, at) /\ at' = at + 1
  <2>1. /\ loops \in Seq(Ids) /\ at \in Ids /\ at \in Nat /\ Len(loops) = at - 1
        /\ numThreads \in 0 .. MaxThreads /\ at <= numThreads
    BY <1>1, IoTypes DEF TypeOK, LoopsInv, Starting, Workers
  <2>2. /\ loops' \in Seq(Ids) /\ Len(loops') = at /\ DOMAIN loops' = 1 .. at
        /\ \A k \in 1 .. at - 1 : loops'[k] = loops[k]
        /\ loops'[at] = at
        /\ DOMAIN loops = 1 .. at - 1
    BY <1>5, <2>1, IoTypes, AppendProperties, LenProperties
  <2>3. loops' # << >> /\ 1 \in 1 .. at
    BY <2>1, <2>2, EmptySeq
  <2>4. TypeOK'
    BY <1>1, <1>5, <2>1, <2>2, IoAssumption DEF TypeOK
  <2>5. OwnerInv'
    <3>1. at' \in 1 .. numThreads + 1
      BY <1>1, <1>5, IoTypes DEF Workers
    <3> QED BY <1>1, <1>5, <3>1, IoTypes DEF OwnerInv, Starting, Workers
  <2>6. LoopsInv'
    <3>1. io[at] \in {"enter", "loop", "left"}
      BY <1>5, <2>1 DEF ThreadInv
    <3>2. \A k \in 1 .. at : k = at \/ k \in 1 .. at - 1
      BY <2>1
    <3>3. \A k \in DOMAIN loops' : loops'[k] = k /\ io'[k] \notin {"none", "init", "publish"}
      BY <1>1, <2>2, <3>1, <3>2 DEF LoopsInv
    <3> QED BY <1>5, <2>1, <2>2, <3>3 DEF LoopsInv, Starting
  <2>7. SpreadInv'
    <3>1. next = 1 /\ \A i \in {0} \cup Ids : given[i] = 0
      BY <1>1 DEF SpreadInv, Starting
    <3>2. DOMAIN loops' \subseteq Ids /\ DOMAIN loops' \subseteq Nat \ {0}
      BY <2>1, <2>2, IoAssumption DEF Ids
    <3>3. \A i \in DOMAIN loops' : Lead(i)' = 0 /\ given'[i] = 0
      BY <1>1, <3>1, <3>2 DEF Lead
    <3>4. \A i, j \in DOMAIN loops' : given'[i] + Lead(j)' = given'[j] + Lead(i)'
      BY <3>3
    <3>5. next' \in DOMAIN loops' /\ given'[0] = 0
      BY <1>1, <2>2, <2>3, <3>1
    <3> QED BY <1>1, <2>3, <3>1, <3>4, <3>5 DEF SpreadInv, Lead
  <2> QED BY <1>2, <1>3, <2>4, <2>5, <2>6, <2>7
<1> QED BY <1>1, <1>4, <1>5 DEF WaitForLoop, OwnerWakes, pool

LEMMA ListenStep == ASSUME IoInv, Listen PROVE IoInv'
<1> USE DEF IoInv
<1>1. /\ owner = "start" /\ at \notin Workers /\ owner' = "serve"
      /\ acceptor' = Listening(acceptor)
      /\ UNCHANGED <<numThreads, othersQuit, at, threads, io, loop, quit, loops, next, given,
                     arrived, destroyed, faults>>
  BY DEF Listen, setup, thread, pool
<1>2. acceptor' \in AcceptorType(MaxFds) /\ acceptor'.waiting = acceptor.waiting
  BY <1>1, IoTypes, AcceptorOperations
<1>3. TypeOK' /\ ThreadInv'
  BY <1>1, <1>2 DEF TypeOK, ThreadInv, Workers
<1>4. at = numThreads + 1
  BY <1>1, IoTypes DEF OwnerInv, Workers
<1>5. OwnerInv'
  BY <1>1 DEF OwnerInv, Starting, Workers
<1>6. LoopsInv'
  BY <1>1, <1>4, IoTypes, LoopsKept DEF LoopsInv, Starting
<1>7. SpreadInv' /\ FaultInv'
  BY <1>1, <1>2, IoTypes, SpreadKept DEF FaultInv, Starting
<1> QED BY <1>3, <1>5, <1>6, <1>7

-----------------------------------------------------------------------------
(* The I/O threads.                                                        *)

LEMMA BeginStep == ASSUME IoInv, NEW i \in Workers, Begin(i) PROVE IoInv'
<1> USE DEF IoInv
<1>0. i \in Ids /\ Workers \subseteq Ids
  BY IoTypes
<1>1. /\ threads[i].body = "born"
      /\ threads' = [threads EXCEPT ![i] = CountedDown(threads[i])]
      /\ io' = [io EXCEPT ![i] = "init"]
      /\ UNCHANGED <<numThreads, othersQuit, owner, at, loop, quit, loops, next, given, acceptor,
                     arrived, destroyed, faults>>
  BY DEF Begin, setup, pool
<1>2. threads[i].count = 1 /\ io[i] = "none" /\ ~loop[i]
  BY <1>0, <1>1 DEF ThreadInv, TypeOK
<1>3. /\ CountedDown(threads[i]) \in ThreadType
      /\ CountedDown(threads[i]).body = "running" /\ CountedDown(threads[i]).count = 0
  BY <1>0, <1>2, IoTypes, ThreadBegins
<1>4. TypeOK'
  <2>1. threads' \in [Ids -> ThreadType]
    BY <1>1, <1>3 DEF TypeOK
  <2>2. io' \in [Ids -> {"none", "init", "publish", "enter", "loop", "left", "cleared", "done"}]
    BY <1>1 DEF TypeOK
  <2> QED BY <1>1, <2>1, <2>2 DEF TypeOK
<1>5. ThreadInv'
  <2>1. ASSUME NEW j \in Ids, j # i
        PROVE  threads'[j] = threads[j] /\ io'[j] = io[j]
    BY <1>1, <2>1, IoTypes DEF TypeOK
  <2>2. threads'[i] = CountedDown(threads[i]) /\ io'[i] = "init"
    BY <1>0, <1>1, IoTypes DEF TypeOK
  <2> QED BY <1>0, <1>1, <1>2, <1>3, <2>1, <2>2 DEF ThreadInv, Workers
<1>6. OwnerInv'
  BY <1>0, <1>1, <1>3, IoTypes DEF OwnerInv, Starting, Workers
<1>7. LoopsInv'
  BY <1>1, <1>2, LoopsKept DEF LoopsInv, Starting, TypeOK
<1>8. SpreadInv'
  BY <1>1, SpreadUnchanged DEF Starting
<1>9. FaultInv'
  BY <1>1, <1>2 DEF FaultInv, TypeOK
<1> QED BY <1>4, <1>5, <1>6, <1>7, <1>8, <1>9

\* Steps of a thread that only take it on, and set loop_.
LEMMA PublishStep ==
    ASSUME IoInv, NEW i \in Workers, InitCallbackReturns(i) \/ PublishLoop(i) \/ EnterLoop(i) \/ LeaveLoop(i)
    PROVE  IoInv'
<1> USE DEF IoInv
<1>0. i \in Ids /\ Workers \subseteq Ids
  BY IoTypes
<1>1. /\ \/ io[i] = "init" /\ io' = [io EXCEPT ![i] = "publish"] /\ loop' = loop
         \/ io[i] = "publish" /\ io' = [io EXCEPT ![i] = "enter"] /\ loop' = [loop EXCEPT ![i] = TRUE]
         \/ io[i] = "enter" /\ io' = [io EXCEPT ![i] = "loop"] /\ loop' = loop
         \/ io[i] = "loop" /\ quit[i] /\ io' = [io EXCEPT ![i] = "left"] /\ loop' = loop
      /\ owner' = owner \/ (owner = "asleep" /\ owner' = "wait")
      /\ UNCHANGED <<numThreads, othersQuit, at, threads, quit, loops, next, given, acceptor,
                     arrived, destroyed, faults>>
  BY DEF InitCallbackReturns, PublishLoop, EnterLoop, LeaveLoop, setup, thread, pool, LoopNotified
<1>2. TypeOK'
  BY <1>0, <1>1 DEF TypeOK
<1>3. ThreadInv'
  BY <1>0, <1>1 DEF ThreadInv, Workers, TypeOK
<1>4. OwnerInv'
  BY <1>1 DEF OwnerInv, Starting, Workers
<1>5. LoopsInv'
  BY <1>0, <1>1, LoopsKept DEF LoopsInv, Starting, TypeOK
<1>6. SpreadInv'
  BY <1>1, SpreadUnchanged DEF Starting
<1>7. FaultInv'
  BY <1>0, <1>1 DEF FaultInv, TypeOK
<1> QED BY <1>2, <1>3, <1>4, <1>5, <1>6, <1>7

\* The thread's last steps look at an EventLoopThreadff that has not been destroyed.
LEMMA ClearLoopStep == ASSUME IoInv, NEW i \in Workers, ClearLoop(i) PROVE IoInv'
<1> USE DEF IoInv
<1>0. i \in Ids /\ Workers \subseteq Ids
  BY IoTypes
<1>1. /\ io[i] = "left" /\ io' = [io EXCEPT ![i] = "cleared"] /\ loop' = [loop EXCEPT ![i] = FALSE]
      /\ faults' = faults \cup Found("thread", i \in destroyed)
      /\ UNCHANGED <<numThreads, othersQuit, owner, at, threads, quit, loops, next, given,
                     acceptor, arrived, destroyed>>
  BY DEF ClearLoop, setup, pool
<1>2. TypeOK'
  BY <1>0, <1>1 DEF TypeOK, Found
<1>3. ThreadInv'
  BY <1>0, <1>1 DEF ThreadInv, Workers, TypeOK
<1>4. OwnerInv'
  BY <1>1 DEF OwnerInv, Starting, Workers
<1>5. LoopsInv'
  BY <1>0, <1>1, LoopsKept DEF LoopsInv, Starting, TypeOK
<1>6. SpreadInv'
  BY <1>1, SpreadUnchanged DEF Starting
<1>7. FaultInv'
  <2> SUFFICES ASSUME ~othersQuit PROVE faults' \subseteq {"wakeupFd"} /\ \A j \in destroyed : io'[j] = "done"
    BY <1>1 DEF FaultInv
  <2>1. faults \subseteq {"wakeupFd"} /\ i \notin destroyed /\ \A j \in destroyed : io[j] = "done"
    BY <1>1 DEF FaultInv
  <2> QED BY <1>0, <1>1, <2>1 DEF TypeOK, Found
<1> QED BY <1>2, <1>3, <1>4, <1>5, <1>6, <1>7

LEMMA EndThreadStep == ASSUME IoInv, NEW i \in Workers, EndThread(i) PROVE IoInv'
<1> USE DEF IoInv
<1>0. i \in Ids /\ Workers \subseteq Ids
  BY IoTypes
<1>1. /\ io[i] = "cleared" /\ io' = [io EXCEPT ![i] = "done"]
      /\ threads' = [threads EXCEPT ![i] = Ended(threads[i])]
      /\ faults' = faults \cup Found("thread", i \in destroyed)
      /\ UNCHANGED <<numThreads, othersQuit, owner, at, loop, quit, loops, next, given,
                     acceptor, arrived, destroyed>>
  BY DEF EndThread, setup, pool
<1>2. /\ Ended(threads[i]) \in ThreadType /\ Ended(threads[i]).body = "ended"
      /\ Ended(threads[i]).count = threads[i].count
      /\ threads[i].body \notin {"none", "born"}
  BY <1>0, <1>1, IoTypes, ThreadOperations DEF ThreadInv
<1>3. TypeOK'
  BY <1>0, <1>1, <1>2 DEF TypeOK, Found
<1>4. ThreadInv'
  BY <1>0, <1>1, <1>2, IoTypes DEF ThreadInv, Workers, TypeOK
<1>5. OwnerInv'
  BY <1>0, <1>1, <1>2, IoTypes DEF OwnerInv, Starting, Workers
<1>6. LoopsInv'
  BY <1>0, <1>1, LoopsKept DEF LoopsInv, Starting, TypeOK
<1>7. SpreadInv'
  BY <1>1, SpreadUnchanged DEF Starting
<1>8. FaultInv'
  <2> SUFFICES ASSUME ~othersQuit PROVE faults' \subseteq {"wakeupFd"} /\ \A j \in destroyed : io'[j] = "done"
    BY <1>1 DEF FaultInv
  <2>1. faults \subseteq {"wakeupFd"} /\ i \notin destroyed /\ \A j \in destroyed : io[j] = "done"
    BY <1>1 DEF FaultInv
  <2> QED BY <1>0, <1>1, <2>1 DEF TypeOK, Found
<1> QED BY <1>3, <1>4, <1>5, <1>6, <1>7, <1>8

LEMMA CallbackQuitsStep == ASSUME IoInv, NEW i \in Workers, CallbackQuits(i) PROVE IoInv'
<1> USE DEF IoInv
<1>0. i \in Ids /\ Workers \subseteq Ids
  BY IoTypes
<1>1. /\ othersQuit /\ quit' = [quit EXCEPT ![i] = TRUE]
      /\ UNCHANGED <<numThreads, othersQuit, owner, at, threads, io, loop, loops, next, given,
                     acceptor, arrived, destroyed, faults>>
  BY DEF CallbackQuits, setup, pool
<1>2. TypeOK' /\ ThreadInv'
  BY <1>0, <1>1 DEF TypeOK, ThreadInv, Workers
<1>3. OwnerInv' /\ FaultInv'
  BY <1>1 DEF OwnerInv, Starting, Workers, FaultInv
<1>4. LoopsInv'
  BY <1>1, LoopsKept DEF LoopsInv, Starting
<1>5. SpreadInv'
  BY <1>1, SpreadUnchanged DEF Starting
<1> QED BY <1>2, <1>3, <1>4, <1>5

-----------------------------------------------------------------------------
(* Serving.                                                                *)

LEMMA ClientsStep == ASSUME IoInv, ClientConnects \/ ConnectionCloses PROVE IoInv'
<1> USE DEF IoInv
<1>1. UNCHANGED <<numThreads, othersQuit, owner, at, threads, io, loop, quit, loops, next, given,
                  destroyed, faults>>
  BY DEF ClientConnects, ConnectionCloses, setup, thread, pool
<1>2. /\ acceptor' \in AcceptorType(MaxFds) /\ arrived' \in 0 .. MaxArrivals
      /\ arrived' - acceptor'.waiting >= arrived - acceptor.waiting
  <2>1. CASE ClientConnects
    <3>1. /\ acceptor' \in AcceptorType(MaxFds) /\ acceptor'.waiting = acceptor.waiting + 1
          /\ arrived' = arrived + 1 /\ arrived < MaxArrivals
      BY <2>1, IoTypes, AcceptorOperations DEF ClientConnects
    <3> QED BY <3>1, IoTypes, IoAssumption
  <2>2. CASE ConnectionCloses
    <3>1. acceptor' \in AcceptorType(MaxFds) /\ acceptor'.waiting = acceptor.waiting
      BY <2>2, IoTypes, AcceptorOperations DEF ConnectionCloses
    <3> QED BY <2>2, <3>1, IoTypes DEF ConnectionCloses, TypeOK
  <2> QED BY <2>1, <2>2
<1>3. acceptor'.waiting \in Nat
  BY <1>2 DEF AcceptorType
<1>4. TypeOK' /\ ThreadInv'
  BY <1>1, <1>2 DEF TypeOK, ThreadInv, Workers
<1>5. OwnerInv' /\ FaultInv'
  BY <1>1 DEF OwnerInv, Starting, Workers, FaultInv
<1>6. LoopsInv'
  BY <1>1, LoopsKept DEF LoopsInv, Starting
<1>7. SpreadInv'
  BY <1>1, <1>2, <1>3, SpreadKept, IoAssumption DEF Starting
<1> QED BY <1>4, <1>5, <1>6, <1>7

\* getNextLoop() goes round the loops.
LEMMA GiveSpreads ==
    ASSUME IoInv, owner = "serve", GiveToNextLoop, UNCHANGED <<owner, loops, arrived>>,
           acceptor'.waiting = acceptor.waiting - 1
    PROVE  SpreadInv'
<1> DEFINE L == Len(loops)
<1>1. /\ L \in Nat /\ DOMAIN loops = 1 .. L /\ 1 .. L \subseteq Ids /\ (loops = << >> <=> L = 0)
      /\ next \in Nat /\ arrived \in Nat /\ acceptor.waiting \in Nat
      /\ \A i \in {0} \cup Ids : given[i] \in Nat
      /\ given \in [{0} \cup Ids -> 0 .. MaxArrivals] /\ 0 \notin Ids
  BY IoTypes DEF IoInv, TypeOK, Ids
<1>2. /\ IF loops = << >> THEN next = 1 ELSE next \in 1 .. L /\ given[0] = 0
      /\ \A i, j \in 1 .. L : given[i] + Lead(j) = given[j] + Lead(i)
      /\ \A i \in {0} \cup Ids : given[i] + acceptor.waiting <= arrived
      /\ \A k \in 1 .. L : loops[k] = k
  BY <1>1 DEF IoInv, SpreadInv, LoopsInv
<1>3. ~Starting /\ owner # "new" /\ ~Starting' /\ owner' # "new"
  BY DEF Starting
<1> HIDE DEF L
<1>4. CASE loops = << >>
  <2>1. given' = [given EXCEPT ![0] = given[0] + 1] /\ next' = 1
    BY <1>2, <1>4 DEF GiveToNextLoop
  <2>2. \A i \in {0} \cup Ids : given'[i] + acceptor'.waiting <= arrived
    <3>1. given'[0] = given[0] + 1 /\ \A i \in Ids : given'[i] = given[i]
      BY <1>1, <2>1
    <3> QED BY <1>1, <1>2, <3>1
  <2> QED BY <1>1, <1>3, <1>4, <2>1, <2>2 DEF SpreadInv
<1>5. CASE loops # << >>
  <2>1. /\ next \in 1 .. L /\ given' = [given EXCEPT ![next] = given[next] + 1]
        /\ next' = IF next + 1 > L THEN 1 ELSE next + 1
    BY <1>2, <1>5 DEF GiveToNextLoop, NextIndex, L
  <2>2. given'[next] = given[next] + 1 /\ \A i \in ({0} \cup Ids) \ {next} : given'[i] = given[i]
    BY <1>1, <2>1
  <2>3. \A i \in {0} \cup Ids : given'[i] + acceptor'.waiting <= arrived
    BY <1>1, <1>2, <2>2
  <2>4. \A i \in 1 .. L : given'[i] \in Nat /\ given[i] \in Nat
    BY <1>1, <2>2
  <2>5. ASSUME NEW i \in 1 .. L, NEW j \in 1 .. L
        PROVE  given'[i] + Lead(j)' = given'[j] + Lead(i)'
    <3>1. \A k \in 1 .. L : given'[k] = given[k] + (IF k = next THEN 1 ELSE 0)
      BY <1>1, <2>1, <2>2, <2>4
    <3>2. given[i] + Lead(j) = given[j] + Lead(i)
      BY <1>2
    <3>3. /\ i \in Nat \ {0} /\ i <= L /\ j \in Nat \ {0} /\ j <= L
          /\ next \in Nat \ {0} /\ next <= L /\ L \in Nat
      BY <1>1, <2>1
    <3>4. /\ given[i] \in Nat /\ given'[i] = given[i] + (IF i = next THEN 1 ELSE 0)
          /\ given[j] \in Nat /\ given'[j] = given[j] + (IF j = next THEN 1 ELSE 0)
      BY <2>4, <3>1
    <3>5. CASE next + 1 > L
      <4>1. next' = 1 /\ next = L
        BY <2>1, <3>3, <3>5
      <4>2. Lead(i)' = 0 /\ Lead(j)' = 0
        BY <3>3, <4>1 DEF Lead
      <4>3. /\ Lead(i) = IF i = next THEN 0 ELSE 1
            /\ Lead(j) = IF j = next THEN 0 ELSE 1
        BY <3>3, <4>1 DEF Lead
      <4> QED BY <3>2, <3>4, <4>2, <4>3
    <3>6. CASE ~(next + 1 > L)
      <4>1. next' = next + 1
        BY <2>1, <3>6
      <4>2. /\ Lead(i)' = IF i = next THEN 1 ELSE Lead(i)
            /\ Lead(j)' = IF j = next THEN 1 ELSE Lead(j)
        BY <3>3, <4>1 DEF Lead
      <4>3. /\ Lead(i) \in Nat /\ (i = next => Lead(i) = 0)
            /\ Lead(j) \in Nat /\ (j = next => Lead(j) = 0)
        BY <3>3 DEF Lead
      <4> QED BY <3>2, <3>4, <4>2, <4>3
    <3> QED BY <3>5, <3>6
  <2>6. next' \in 1 .. L /\ given'[0] = 0
    BY <1>1, <1>2, <1>5, <2>1, <2>2
  <2> QED BY <1>1, <1>3, <1>5, <2>3, <2>5, <2>6 DEF SpreadInv, Lead
<1> QED BY <1>4, <1>5

LEMMA HandleReadStep == ASSUME IoInv, HandleRead PROVE IoInv'
<1> USE DEF IoInv
<1>1. /\ owner = "serve" /\ acceptor.waiting > 0
      /\ UNCHANGED <<numThreads, othersQuit, owner, at, threads, io, loop, quit, loops, arrived,
                     destroyed>>
  BY DEF HandleRead, setup, thread
<1>2. ThreadInv' /\ OwnerInv'
  BY <1>1 DEF ThreadInv, OwnerInv, Starting, Workers
<1>3. LoopsInv'
  BY <1>1, LoopsKept DEF LoopsInv, Starting
<1>4. CASE ~MayAccept(acceptor, MaxFds)
  <2>1. /\ acceptor' = Refused(acceptor, MaxFds) /\ UNCHANGED <<given, next, faults>>
    BY <1>4 DEF HandleRead
  <2>2. acceptor' \in AcceptorType(MaxFds) /\ acceptor'.waiting <= acceptor.waiting
    BY <1>1, <2>1, IoTypes, AcceptorOperations
  <2>3. acceptor'.waiting \in Nat
    BY <2>2 DEF AcceptorType
  <2>4. TypeOK' /\ FaultInv'
    BY <1>1, <2>1, <2>2 DEF TypeOK, FaultInv
  <2>5. SpreadInv'
    BY <1>1, <2>1, <2>2, <2>3, IoTypes, SpreadKept DEF Starting
  <2> QED BY <1>2, <1>3, <2>4, <2>5
<1>5. CASE MayAccept(acceptor, MaxFds)
  <2>1. acceptor' = Accepted(acceptor) /\ GiveToNextLoop
    BY <1>5 DEF HandleRead
  <2>2. acceptor' \in AcceptorType(MaxFds) /\ acceptor'.waiting = acceptor.waiting - 1
    BY <1>1, <1>5, <2>1, IoTypes, AcceptorOperations
  <2>3. SpreadInv'
    BY <1>1, <2>1, <2>2, GiveSpreads
  <2>4. loops # << >> => next \in DOMAIN loops /\ loops[next] = next /\ next \in Ids
    BY IoTypes DEF SpreadInv, LoopsInv
  <2>5. TypeOK'
    <3>1. acceptor'.waiting \in Nat /\ MaxArrivals \in Nat /\ arrived \in 0 .. MaxArrivals
      BY <2>2, IoAssumption DEF AcceptorType, TypeOK
    <3>2. \E c \in {0} \cup Ids : given' = [given EXCEPT ![c] = given[c] + 1]
      BY <2>1, <2>4 DEF GiveToNextLoop
    <3>3. /\ \A i \in {0} \cup Ids : given'[i] \in Nat
          /\ DOMAIN given' = {0} \cup Ids /\ given' = [i \in {0} \cup Ids |-> given'[i]]
      <4>1. PICK c \in {0} \cup Ids : given' = [given EXCEPT ![c] = given[c] + 1]
        BY <3>2
      <4>2. given \in [{0} \cup Ids -> Nat]
        BY IoTypes DEF TypeOK
      <4>3. given' \in [{0} \cup Ids -> Nat]
        BY <4>1, <4>2
      <4> QED BY <4>3
    <3>4. \A i \in {0} \cup Ids : given'[i] + acceptor'.waiting <= arrived
      BY <1>1, <2>3 DEF SpreadInv
    <3>5. \A i \in {0} \cup Ids : given'[i] \in 0 .. MaxArrivals
      BY <3>1, <3>3, <3>4
    <3>6. given' \in [{0} \cup Ids -> 0 .. MaxArrivals]
      BY <3>3, <3>5
    <3>7. next' \in 1 .. MaxThreads + 1
      <4>1. next' = next \/ next' \in DOMAIN loops
        BY <1>1, <2>3 DEF SpreadInv, GiveToNextLoop
      <4>2. DOMAIN loops \subseteq 1 .. MaxThreads
        BY IoTypes DEF Ids
      <4> QED BY <4>1, <4>2, IoAssumption DEF TypeOK
    <3>8. faults' \subseteq {"assert", "thread", "loop", "wakeupFd"}
      BY <2>1 DEF GiveToNextLoop, TypeOK, Found
    <3> QED BY <1>1, <2>2, <3>6, <3>7, <3>8 DEF TypeOK
  <2>6. FaultInv'
    <3> SUFFICES ASSUME ~othersQuit PROVE faults' \subseteq {"wakeupFd"} /\ \A j \in destroyed : io[j] = "done"
      BY <1>1 DEF FaultInv
    <3>1. loops # << >> => Alive(next)
      BY <1>1, <2>4, IoTypes DEF LoopsInv, ThreadInv, OwnerInv, Alive
    <3>2. faults' = faults
      BY <2>1, <2>4, <3>1 DEF GiveToNextLoop, TypeOK, Found
    <3> QED BY <3>2 DEF FaultInv
  <2> QED BY <1>2, <1>3, <2>3, <2>5, <2>6
<1> QED BY <1>4, <1>5

-----------------------------------------------------------------------------
(* The destructors.                                                        *)

\* The destructor finds every loop running that no callback has quit.
LEMMA NotYetQuit ==
    ASSUME IoInv, ~othersQuit, owner \in {"stop", "quit"}, at \in Workers
    PROVE  loop[at] /\ Alive(at) /\ ~quit[at]
<1> USE DEF IoInv
<1>1. at \in Ids /\ at \in Nat /\ at \in DOMAIN loops
  BY IoTypes DEF LoopsInv, Starting, Workers
<1>2. ~quit[at]
  BY <1>1 DEF OwnerInv
<1>3. io[at] \notin {"none", "init", "publish"} /\ io[at] \notin {"left", "cleared", "done"}
  BY <1>1, <1>2 DEF LoopsInv, ThreadInv
<1>4. io[at] \in {"enter", "loop"}
  BY <1>1, <1>3 DEF TypeOK
<1> QED BY <1>1, <1>2, <1>4 DEF ThreadInv, Alive

LEMMA DestroyStep == ASSUME IoInv, Destroy PROVE IoInv'
<1> USE DEF IoInv
<1>1. /\ owner = "serve" /\ owner' = "stop" /\ at' = 1
      /\ UNCHANGED <<numThreads, othersQuit, threads, io, loop, quit, loops, next, given, acceptor,
                     arrived, destroyed, faults>>
  BY DEF Destroy, setup, thread, pool
<1>2. TypeOK' /\ ThreadInv'
  BY <1>1, IoAssumption DEF TypeOK, ThreadInv, Workers
<1>3. OwnerInv' /\ FaultInv'
  BY <1>1, IoTypes DEF OwnerInv, Starting, Workers, FaultInv
<1>4. LoopsInv'
  BY <1>1, LoopsKept DEF LoopsInv, Starting
<1>5. SpreadInv'
  BY <1>1, SpreadUnchanged DEF Starting
<1> QED BY <1>2, <1>3, <1>4, <1>5

LEMMA CheckLoopStep == ASSUME IoInv, CheckLoop PROVE IoInv'
<1> USE DEF IoInv
<1>1. /\ owner = "stop" /\ at \in Workers /\ owner' \in {"stop", "quit"}
      /\ UNCHANGED <<numThreads, othersQuit, threads, io, loop, quit, loops, next, given, acceptor,
                     arrived, faults>>
      /\ \/ owner' = "quit" /\ at' = at /\ destroyed' = destroyed
         \/ ~loop[at] /\ owner' = "stop" /\ at' = at + 1 /\ destroyed' = destroyed \cup {at}
  BY DEF CheckLoop, setup, thread, pool
<1>2. at' \in 1 .. numThreads + 1 /\ numThreads \in 0 .. MaxThreads /\ at \in Ids /\ at \in Nat
  BY <1>1, IoTypes DEF Workers, TypeOK
<1>3. TypeOK' /\ ThreadInv'
  <2>1. at' \in 0 .. MaxThreads + 1
    BY <1>2, IoAssumption
  <2> QED BY <1>1, <1>2, <2>1 DEF TypeOK, ThreadInv, Workers
<1>4. ~othersQuit => owner' = "quit" /\ at' = at /\ destroyed' = destroyed
  BY <1>1, NotYetQuit
<1>5. OwnerInv'
  <2>1. ~othersQuit => \A i \in Ids : quit[i] => i < at
    BY <1>1 DEF OwnerInv
  <2> QED BY <1>1, <1>2, <1>4, <2>1 DEF OwnerInv, Starting, Workers
<1>6. FaultInv'
  BY <1>1, <1>4 DEF FaultInv
<1>7. LoopsInv'
  BY <1>1, LoopsKept DEF LoopsInv, Starting
<1>8. SpreadInv'
  BY <1>1, SpreadUnchanged DEF Starting
<1> QED BY <1>3, <1>5, <1>6, <1>7, <1>8

LEMMA QuitLoopStep == ASSUME IoInv, QuitLoop PROVE IoInv'
<1> USE DEF IoInv
<1>1. /\ owner = "quit" /\ owner' = "wakeup" /\ at \in Workers /\ at \in Ids
      /\ quit' = [quit EXCEPT ![at] = TRUE]
      /\ faults' = faults \cup Found("loop", ~Alive(at)) \cup Found("assert", quit[at])
      /\ UNCHANGED <<numThreads, othersQuit, at, threads, io, loop, loops, next, given, acceptor,
                     arrived, destroyed>>
  BY IoTypes DEF QuitLoop, setup, pool, OwnerInv
<1>2. TypeOK' /\ ThreadInv'
  BY <1>1 DEF TypeOK, ThreadInv, Workers, Found
<1>3. OwnerInv'
  BY <1>1, IoTypes DEF OwnerInv, Starting, Workers, TypeOK
<1>4. FaultInv'
  BY <1>1, NotYetQuit DEF FaultInv, Found
<1>5. LoopsInv'
  BY <1>1, LoopsKept DEF LoopsInv, Starting
<1>6. SpreadInv'
  BY <1>1, SpreadUnchanged DEF Starting
<1> QED BY <1>2, <1>3, <1>4, <1>5, <1>6

LEMMA WakeupStep == ASSUME IoInv, Wakeup PROVE IoInv'
<1> USE DEF IoInv
<1>1. /\ owner = "wakeup" /\ owner' = "join" /\ at \in Workers
      /\ faults' = faults \cup Found("wakeupFd", ~Alive(at))
      /\ UNCHANGED <<numThreads, othersQuit, at, threads, io, loop, quit, loops, next, given,
                     acceptor, arrived, destroyed>>
  BY DEF Wakeup, setup, thread, pool, OwnerInv
<1>2. TypeOK' /\ ThreadInv'
  BY <1>1 DEF TypeOK, ThreadInv, Workers, Found
<1>3. OwnerInv'
  BY <1>1 DEF OwnerInv, Starting, Workers
<1>4. FaultInv'
  BY <1>1 DEF FaultInv, Found
<1>5. LoopsInv'
  BY <1>1, LoopsKept DEF LoopsInv, Starting
<1>6. SpreadInv'
  BY <1>1, SpreadUnchanged DEF Starting
<1> QED BY <1>2, <1>3, <1>4, <1>5, <1>6

LEMMA JoinStep == ASSUME IoInv, Join PROVE IoInv'
<1> USE DEF IoInv
<1>1. /\ owner = "join" /\ owner' = "stop" /\ at \in Workers /\ at \in Ids /\ at \in Nat
      /\ at' = at + 1 /\ destroyed' = destroyed \cup {at} /\ threads[at].body = "ended"
      /\ threads' = [threads EXCEPT ![at] = Joined(threads[at])]
      /\ UNCHANGED <<numThreads, othersQuit, io, loop, quit, loops, next, given, acceptor,
                     arrived, faults>>
  BY IoTypes DEF Join, setup, pool, OwnerInv
<1>2. /\ Joined(threads[at]) \in ThreadType /\ Joined(threads[at]).body = threads[at].body
      /\ Joined(threads[at]).count = threads[at].count
  BY <1>1, IoTypes, ThreadOperations
<1>3. at' \in 1 .. numThreads + 1 /\ at' \in 0 .. MaxThreads + 1
  BY <1>1, IoTypes, IoAssumption DEF Workers, TypeOK
<1>4. TypeOK'
  BY <1>1, <1>2, <1>3 DEF TypeOK
<1>5. \A i \in Ids : threads'[i].body = threads[i].body /\ threads'[i].count = threads[i].count
  BY <1>1, <1>2, IoTypes
<1>6. ThreadInv'
  BY <1>1, <1>5 DEF ThreadInv, Workers
<1>7. OwnerInv'
  <2>1. ~othersQuit => \A i \in Ids : quit[i] => i < at \/ i = at
    BY <1>1 DEF OwnerInv
  <2>2. ~othersQuit => \A i \in Ids : quit'[i] => i < at'
    BY <1>1, <2>1, IoTypes
  <2> QED BY <1>1, <1>3, <2>2 DEF OwnerInv, Starting, Workers
<1>8. FaultInv'
  <2>1. io[at] = "done"
    BY <1>1 DEF ThreadInv
  <2> QED BY <1>1, <2>1 DEF FaultInv
<1>9. LoopsInv'
  BY <1>1, LoopsKept DEF LoopsInv, Starting
<1>10. SpreadInv'
  BY <1>1, SpreadUnchanged DEF Starting
<1> QED BY <1>4, <1>6, <1>7, <1>8, <1>9, <1>10

LEMMA CloseAcceptorStep == ASSUME IoInv, CloseAcceptor PROVE IoInv'
<1> USE DEF IoInv
<1>1. /\ owner = "stop" /\ owner' = "gone"
      /\ acceptor' = [acceptor EXCEPT !.listening = FALSE, !.idle = FALSE]
      /\ UNCHANGED <<numThreads, othersQuit, at, threads, io, loop, quit, loops, next, given,
                     arrived, destroyed, faults>>
  BY DEF CloseAcceptor, setup, thread, pool
<1>2. acceptor' \in AcceptorType(MaxFds) /\ acceptor'.waiting = acceptor.waiting
  BY <1>1, IoTypes, AcceptorOperations
<1>3. TypeOK' /\ ThreadInv'
  BY <1>1, <1>2 DEF TypeOK, ThreadInv, Workers
<1>4. OwnerInv' /\ FaultInv'
  BY <1>1 DEF OwnerInv, Starting, Workers, FaultInv
<1>5. LoopsInv'
  BY <1>1, LoopsKept DEF LoopsInv, Starting
<1>6. SpreadInv'
  BY <1>1, <1>2, IoTypes, SpreadKept DEF Starting
<1> QED BY <1>3, <1>4, <1>5, <1>6

-----------------------------------------------------------------------------

LEMMA IoStep == IoInv /\ [Next]_vars => IoInv'
<1> SUFFICES ASSUME IoInv, [Next]_vars PROVE IoInv'
  OBVIOUS
<1>1. CASE Start
  BY <1>1, StartStep
<1>2. CASE CreateThread \/ WaitForThread \/ WaitForLoop \/ OwnerWakes \/ Listen
  BY <1>2, CreateThreadStep, WaitForThreadStep, WaitForLoopStep, ListenStep
<1>3. CASE Destroy \/ CheckLoop \/ QuitLoop \/ Wakeup \/ Join \/ CloseAcceptor
  BY <1>3, DestroyStep, CheckLoopStep, QuitLoopStep, WakeupStep, JoinStep, CloseAcceptorStep
<1>4. CASE HandleRead \/ ClientConnects \/ ConnectionCloses
  BY <1>4, HandleReadStep, ClientsStep
<1>5. ASSUME NEW i \in Workers, ThreadStep(i) \/ CallbackQuits(i) PROVE IoInv'
  BY <1>5, BeginStep, PublishStep, ClearLoopStep, EndThreadStep, CallbackQuitsStep DEF ThreadStep
<1>6. CASE UNCHANGED vars
  <2> USE DEF IoInv
  <2>1. UNCHANGED <<numThreads, othersQuit, owner, at, threads, io, loop, quit, loops, next, given,
                    acceptor, arrived, destroyed, faults>>
    BY <1>6 DEF vars, setup, thread, pool
  <2>2. TypeOK' /\ ThreadInv' /\ OwnerInv' /\ FaultInv'
    BY <2>1 DEF TypeOK, ThreadInv, OwnerInv, Starting, Workers, FaultInv
  <2>3. LoopsInv'
    BY <2>1, LoopsKept DEF LoopsInv, Starting
  <2>4. SpreadInv'
    BY <2>1, SpreadUnchanged DEF Starting
  <2> QED BY <2>2, <2>3, <2>4
<1> QED BY <1>1, <1>2, <1>3, <1>4, <1>5, <1>6 DEF Next, OwnerStep

\* The inductive invariant of a server's threads, their pool and its acceptor.
THEOREM IoInvariance == Spec => []IoInv
BY IoInit, IoStep, PTL DEF Spec

\* Where only the destructor quits the loops, each is quit once, an EventLoopThreadff object is
\* gone only when its thread does not use it any more, and connections go to loops that run.
\* One use comes too late: wakeup() of a loop that has seen quit_ and is gone already.
THEOREM OnlyTheWakeupIsLate == Spec => []NoFault
<1>1. IoInv => NoFault
  <2> SUFFICES ASSUME IoInv, ~othersQuit
               PROVE  faults \subseteq {"wakeupFd"} /\ (owner = "serve" => \A i \in ToSet(loops) : Alive(i) /\ loop[i])
    BY DEF NoFault
  <2> USE DEF IoInv
  <2>1. faults \subseteq {"wakeupFd"}
    BY DEF FaultInv
  <2>2. ASSUME owner = "serve", NEW i \in ToSet(loops) PROVE Alive(i) /\ loop[i]
    <3>1. i \in DOMAIN loops /\ i \in Ids
      BY IoTypes DEF ToSet, LoopsInv
    <3>2. ~quit[i] /\ io[i] \notin {"none", "init", "publish"}
      BY <2>2, <3>1 DEF OwnerInv, LoopsInv
    <3>3. io[i] \in {"enter", "loop"}
      BY <3>1, <3>2 DEF ThreadInv, TypeOK
    <3> QED BY <3>1, <3>3 DEF ThreadInv, Alive
  <2> QED BY <2>1, <2>2
<1> QED BY <1>1, IoInvariance, PTL

\* Whatever was accepted, refused and closed, any two loops of the pool have been given the
\* same number of connections, or one more.
THEOREM ConnectionsSpread == Spec => []EvenSpread
<1>1. IoInv => EvenSpread
  <2> SUFFICES ASSUME IoInv PROVE EvenSpread
    OBVIOUS
  <2> USE DEF IoInv
  <2>1. owner = "serve" => Len(loops) = numThreads
    BY DEF LoopsInv, Starting
  <2>2. ASSUME NEW i \in DOMAIN loops, NEW j \in DOMAIN loops PROVE given[i] <= given[j] + 1
    <3>1. given[i] \in Nat /\ given[j] \in Nat
      BY IoTypes
    <3>2. Lead(i) \in 0 .. 1 /\ Lead(j) \in 0 .. 1
      BY DEF Lead
    <3>3. given[i] + Lead(j) = given[j] + Lead(i)
      BY DEF SpreadInv
    <3> QED BY <3>1, <3>2, <3>3
  <2> QED BY <2>1, <2>2 DEF EvenSpread, SpreadInv
<1> QED BY <1>1, IoInvariance, PTL
=============================================================================
