-------------------------- MODULE TimerQueueProofs --------------------------
(***************************************************************************)
(* For any users, addresses and times: both sets of the queue have the     *)
(* same timers, each object is in one place and so is deleted once, the    *)
(* timerfd is set in time, and a timer that is cancelled does not come     *)
(* back, although its address and even its batch are used again.           *)
(***************************************************************************)
EXTENDS TimerQueue, WellFoundedInduction, SequenceTheorems, TLAPS

Tasks == [task : {"add", "cancel"}, timer : Addresses, seq : SequencesUsed]
TimerIds == [timer : Addresses, seq : SequencesUsed, made : SequencesUsed]
Adders == [by : Others, timer : Addresses, made : SequencesUsed]

\* The addresses of a set of nodes, and of the tasks of a queue that add a timer.
AddressesOf(nodes) == {n[2] : n \in nodes}
QueuedIn(q) == {q[i].timer : i \in {j \in DOMAIN q : q[j].task = "add"}}

\* A task that adds a timer has the sequence of an object that no other task adds.
QueueInv ==
    /\ queue \in Seq(Tasks)
    /\ ids \subseteq TimerIds /\ adding \subseteq Adders
    /\ \A j \in DOMAIN queue : queue[j].task = "add" => queue[j].seq = heap[queue[j].timer].seq
    /\ \A j, k \in DOMAIN queue :
          queue[j].task = "add" /\ queue[k].task = "add" /\ queue[j].timer = queue[k].timer => j = k

\* Sequences are those of timers created, each of one live object.
SequenceInv ==
    /\ \A a \in Addresses : heap[a].seq <= created
    /\ \A a, b \in Addresses : Live(a) /\ Live(b) /\ heap[a].seq = heap[b].seq => a = b

\* There is a batch only while the handler is at work.
BatchInv == at = "idle" => expired = {}

\* A timer that was cancelled and is still there is in the batch, and marked.
CancelInv ==
    \A s \in cancelled :
        /\ s <= created
        /\ \A a \in Addresses : Live(a) /\ heap[a].seq = s =>
              a \in AddressesOf(expired) /\ <<a, s>> \in cancelingTimers

\* The inductive invariant.
TimerInv ==
    Accounted /\ SetsAgree /\ Armed /\ QueueInv /\ SequenceInv /\ BatchInv /\ CancelInv

-----------------------------------------------------------------------------
(* The earliest of some nodes.                                             *)

\* A set of natural numbers has a least one.
LEMMA LeastExists ==
    ASSUME NEW S \in SUBSET Nat, S # {}
    PROVE  \E m \in S : \A n \in S : m <= n
<1>1. IsWellFoundedOn(OpToRel(<, Nat), Nat)
  BY NatLessThanWellFounded
<1>2. PICK m \in S : \A n \in S : ~(<<n, m>> \in OpToRel(<, Nat))
  BY <1>1, WFMin
<1>3. \A n \in S : ~(n < m)
  BY <1>2 DEF OpToRel
<1> QED BY <1>3

LEMMA EarliestIsLeast ==
    ASSUME NEW nodes \in SUBSET (Times \X Addresses), nodes # {}
    PROVE  /\ Earliest(nodes) \in Times
           /\ \A n \in nodes : Earliest(nodes) <= n[1]
           /\ \E n \in nodes : Earliest(nodes) = n[1]
<1> DEFINE S == {n[1] : n \in nodes}
<1>1. S \in SUBSET Nat /\ S # {} /\ S \subseteq Times
  BY DelaysAssumption DEF Times
<1>2. \E m \in S : \A k \in S : m <= k
  BY <1>1, LeastExists
<1>3. \E m \in S : \A n \in nodes : m <= n[1]
  BY <1>2
<1>4. Earliest(nodes) \in S /\ \A n \in nodes : Earliest(nodes) <= n[1]
  BY <1>3 DEF Earliest
<1> QED BY <1>1, <1>4

LEMMA ShortestWait ==
    ASSUME NEW x \in Nat, NEW y \in Nat, x <= y
    PROVE  TimeToWait(x) \in Nat /\ 1 <= TimeToWait(x) /\ TimeToWait(x) <= TimeToWait(y)
BY DEF TimeToWait

\* A timerfd is set in time if it is for each timer.
SetFor(fd, nodes) == fd >= 0 /\ \A n \in nodes : fd <= TimeToWait(n[1])

LEMMA SetForEach ==
    ASSUME NEW nodes \in SUBSET (Times \X Addresses), nodes # {}, NEW fd \in Int
    PROVE  fd \in 0 .. TimeToWait(Earliest(nodes)) <=> SetFor(fd, nodes)
<1>1. /\ Earliest(nodes) \in Nat
      /\ \A n \in nodes : n[1] \in Nat /\ Earliest(nodes) <= n[1]
      /\ \E n \in nodes : Earliest(nodes) = n[1]
  BY EarliestIsLeast, DelaysAssumption DEF Times
<1>2. /\ TimeToWait(Earliest(nodes)) \in Nat
      /\ \A n \in nodes : /\ TimeToWait(n[1]) \in Nat
                          /\ TimeToWait(Earliest(nodes)) <= TimeToWait(n[1])
  BY <1>1, ShortestWait
<1> QED BY <1>1, <1>2 DEF SetFor

-----------------------------------------------------------------------------
(* The tasks in the loop's queue.                                          *)

LEMMA QueuedGrows ==
    ASSUME NEW q \in Seq(Tasks), NEW e \in Tasks
    PROVE  /\ Append(q, e) \in Seq(Tasks)
           /\ QueuedIn(Append(q, e)) =
                 QueuedIn(q) \cup (IF e.task = "add" THEN {e.timer} ELSE {})
           /\ \A j \in DOMAIN Append(q, e) :
                 Append(q, e)[j] = e \/ (j \in DOMAIN q /\ Append(q, e)[j] = q[j])
           /\ \A j, k \in DOMAIN Append(q, e) : j \notin DOMAIN q /\ k \notin DOMAIN q => j = k
<1>1. /\ Append(q, e) \in Seq(Tasks) /\ Len(q) \in Nat
      /\ DOMAIN q = 1 .. Len(q) /\ DOMAIN Append(q, e) = 1 .. Len(q) + 1
      /\ \A k \in 1 .. Len(q) : Append(q, e)[k] = q[k]
      /\ Append(q, e)[Len(q) + 1] = e
  BY AppendProperties, LenProperties
<1>2. \A k \in 1 .. Len(q) + 1 : k \in 1 .. Len(q) \/ k = Len(q) + 1
  BY <1>1
<1>3. Len(q) + 1 \in 1 .. Len(q) + 1 /\ 1 .. Len(q) \subseteq 1 .. Len(q) + 1
  BY <1>1
<1> QED BY <1>1, <1>2, <1>3 DEF QueuedIn

LEMMA QueuedShrinks ==
    ASSUME NEW q \in Seq(Tasks), q # << >>,
           \A j, k \in DOMAIN q :
              q[j].task = "add" /\ q[k].task = "add" /\ q[j].timer = q[k].timer => j = k
    PROVE  /\ Head(q) \in Tasks /\ Tail(q) \in Seq(Tasks)
           /\ 1 \in DOMAIN q /\ Head(q) = q[1]
           /\ QueuedIn(Tail(q)) = QueuedIn(q) \ (IF Head(q).task = "add" THEN {Head(q).timer} ELSE {})
           /\ \A j \in DOMAIN Tail(q) : j + 1 \in DOMAIN q /\ Tail(q)[j] = q[j + 1]
           /\ \A j \in DOMAIN Tail(q) : j \in Nat
<1>1. /\ Head(q) \in Tasks /\ Tail(q) \in Seq(Tasks) /\ Len(q) \in Nat \ {0}
      /\ DOMAIN q = 1 .. Len(q) /\ DOMAIN Tail(q) = 1 .. Len(q) - 1
      /\ \A k \in 1 .. Len(q) - 1 : Tail(q)[k] = q[k + 1]
      /\ Head(q) = q[1] /\ 1 \in 1 .. Len(q)
  BY HeadTailProperties, LenProperties
<1>2. \A j \in 1 .. Len(q) : j = 1 \/ (j - 1 \in 1 .. Len(q) - 1 /\ q[j] = Tail(q)[j - 1])
  BY <1>1
<1>3. \A j \in 1 .. Len(q) - 1 : j + 1 \in 1 .. Len(q) /\ Tail(q)[j] = q[j + 1] /\ j + 1 # 1
  BY <1>1
<1>4. ASSUME NEW a PROVE a \in QueuedIn(Tail(q)) <=>
                         a \in QueuedIn(q) /\ ~(Head(q).task = "add" /\ a = Head(q).timer)
  <2>1. ASSUME a \in QueuedIn(Tail(q))
        PROVE  a \in QueuedIn(q) /\ ~(Head(q).task = "add" /\ a = Head(q).timer)
    <3>1. PICK j \in 1 .. Len(q) - 1 : Tail(q)[j].task = "add" /\ Tail(q)[j].timer = a
      BY <1>1, <2>1 DEF QueuedIn
    <3>2. j + 1 \in 1 .. Len(q) /\ q[j + 1].task = "add" /\ q[j + 1].timer = a /\ j + 1 # 1
      BY <1>3, <3>1
    <3> QED BY <1>1, <3>2 DEF QueuedIn
  <2>2. ASSUME a \in QueuedIn(q), ~(Head(q).task = "add" /\ a = Head(q).timer)
        PROVE  a \in QueuedIn(Tail(q))
    <3>1. PICK j \in 1 .. Len(q) : q[j].task = "add" /\ q[j].timer = a
      BY <1>1, <2>2 DEF QueuedIn
    <3>2. j - 1 \in 1 .. Len(q) - 1 /\ q[j] = Tail(q)[j - 1]
      BY <1>1, <1>2, <2>2, <3>1
    <3> QED BY <1>1, <3>1, <3>2 DEF QueuedIn
  <2> QED BY <2>1, <2>2
<1>5. QueuedIn(Tail(q)) = QueuedIn(q) \ (IF Head(q).task = "add" THEN {Head(q).timer} ELSE {})
  BY <1>4
<1> QED BY <1>1, <1>3, <1>5

-----------------------------------------------------------------------------
(* Objects and the places they are in.                                     *)

TimerType == [live : BOOLEAN, seq : SequencesUsed, left : Times, interval : Intervals \cup {0}]

LEMMA TypesOfConstants ==
    /\ Times \subseteq Nat /\ SequencesUsed \subseteq Nat /\ 0 \in Times /\ 0 \in SequencesUsed
    /\ Delays \subseteq Times /\ Intervals \cup {0} \subseteq Times
    /\ Disarmed \in Int /\ Disarmed < 0
BY DelaysAssumption, BoundsAssumption DEF Times, SequencesUsed, Disarmed

LEMMA FreeIsFree ==
    Free \in TimerType /\ ~Free.live /\ Free.seq = 0
BY TypesOfConstants DEF Free, TimerType

\* A delete keeps the sequence, and the passage of time all but the time left.
LEMMA TimerRecords ==
    ASSUME NEW t \in TimerType
    PROVE  /\ /\ [Free EXCEPT !.seq = t.seq] \in TimerType
              /\ ~[Free EXCEPT !.seq = t.seq].live
              /\ [Free EXCEPT !.seq = t.seq].seq = t.seq
           /\ \A x \in Times :
                 /\ [t EXCEPT !.left = x] \in TimerType
                 /\ [t EXCEPT !.left = x].left = x
                 /\ [t EXCEPT !.left = x].seq = t.seq
                 /\ [t EXCEPT !.left = x].live <=> t.live
                 /\ [t EXCEPT !.left = x].interval = t.interval
BY TypesOfConstants DEF TimerType, Free

LEMMA HeapType ==
    ASSUME TypeOK
    PROVE  /\ heap \in [Addresses -> TimerType]
           /\ \A a \in Addresses : /\ heap[a].seq \in SequencesUsed /\ heap[a].left \in Times
                                   /\ heap[a].interval \in Intervals \cup {0}
BY DEF TypeOK, TimerType

\* The two sets, from the addresses of the timers in them.
LEMMA PlacesNow ==
    ASSUME TimerInv
    PROVE  /\ AddressesOf(timers) \subseteq Addresses
           /\ AddressesOf(expired) \subseteq Addresses
           /\ timers = {<<heap[a].left, a>> : a \in AddressesOf(timers)}
           /\ activeTimers = {<<a, heap[a].seq>> : a \in AddressesOf(timers)}
           /\ {a \in Addresses : heap[a].live} =
                 AddressesOf(timers) \cup AddressesOf(expired) \cup QueuedIn(queue)
           /\ AddressesOf(timers) \cap AddressesOf(expired) = {}
           /\ QueuedIn(queue) \cap (AddressesOf(timers) \cup AddressesOf(expired)) = {}
<1> USE DEF TimerInv
<1>1. timers \subseteq Times \X Addresses /\ expired \subseteq Times \X Addresses
  BY DEF Accounted, TypeOK
<1>2. \A n \in timers : n = <<n[1], n[2]>> /\ n[2] \in Addresses
  BY <1>1
<1>3. AddressesOf(timers) \subseteq Addresses /\ AddressesOf(expired) \subseteq Addresses
  BY <1>1 DEF AddressesOf
<1>4. timers = {<<heap[a].left, a>> : a \in AddressesOf(timers)}
  <2>1. \A n \in timers : n = <<heap[n[2]].left, n[2]>>
    BY <1>2 DEF SetsAgree
  <2>2. \A a \in AddressesOf(timers) : <<heap[a].left, a>> \in timers
    BY <1>2, <2>1 DEF AddressesOf
  <2> QED BY <2>1, <2>2 DEF AddressesOf
<1>5. activeTimers = {<<a, heap[a].seq>> : a \in AddressesOf(timers)}
  BY DEF SetsAgree, Entry, AddressesOf
<1>6. AddressesOf(timers \cup expired) = AddressesOf(timers) \cup AddressesOf(expired)
  BY DEF AddressesOf
<1>7. QueuedIn(queue) = Queued
  BY DEF QueuedIn, Queued
<1> QED BY <1>3, <1>4, <1>5, <1>6, <1>7 DEF Accounted, Live, AddressesOf

LEMMA PlacesAgain ==
    ASSUME TypeOK', NEW T \in SUBSET Addresses,
           timers' = {<<heap'[a].left, a>> : a \in T},
           activeTimers' = {<<a, heap'[a].seq>> : a \in T},
           {a \in Addresses : heap'[a].live} = T \cup AddressesOf(expired') \cup QueuedIn(queue'),
           T \cap AddressesOf(expired') = {},
           QueuedIn(queue') \cap (T \cup AddressesOf(expired')) = {}
    PROVE  SetsAgree' /\ Accounted' /\ AddressesOf(timers') = T
<1>0. /\ \A n \in timers' : heap'[n[2]].left = n[1] /\ n[2] \in T
      /\ \A a \in T : \E n \in timers' : n[2] = a
  <2>1. \A a \in T : <<heap'[a].left, a>> \in timers' /\ <<heap'[a].left, a>>[2] = a
    OBVIOUS
  <2>2. \A a \in T : \E n \in timers' : n[2] = a
    BY <2>1
  <2>3. \A n \in timers' : heap'[n[2]].left = n[1] /\ n[2] \in T
    OBVIOUS
  <2> QED BY <2>2, <2>3
<1>1. AddressesOf(timers') = T
  BY <1>0 DEF AddressesOf
<1>2. SetsAgree'
  <2>1. activeTimers' = {<<n[2], heap'[n[2]].seq>> : n \in timers'}
    BY <1>0
  <2>2. \A m, n \in timers' : m[2] = n[2] => m = n
    OBVIOUS
  <2> QED BY <1>0, <2>1, <2>2 DEF SetsAgree, Entry
<1>3. AddressesOf(timers' \cup expired') = T \cup AddressesOf(expired')
  BY <1>1 DEF AddressesOf
<1>4. QueuedIn(queue') = Queued'
  BY DEF QueuedIn, Queued
<1>5. Accounted'
  BY <1>1, <1>3, <1>4 DEF Accounted, Live, AddressesOf
<1> QED BY <1>1, <1>2, <1>5

-----------------------------------------------------------------------------
(* The timerfd.                                                            *)

LEMMA ArmedNow ==
    ASSUME TypeOK, Armed, at = "idle"
    PROVE  timers # {} => SetFor(timerFd, timers)
<1>1. timers \in SUBSET (Times \X Addresses) /\ timerFd \in Int
  BY TypesOfConstants DEF TypeOK
<1> QED BY <1>1, SetForEach DEF Armed

LEMMA ArmedAgain ==
    ASSUME TypeOK', at' = "idle" /\ timers' # {} => SetFor(timerFd', timers')
    PROVE  Armed'
<1>1. timers' \in SUBSET (Times \X Addresses) /\ timerFd' \in Int
  BY TypesOfConstants DEF TypeOK
<1>2. at' = "idle" /\ timers' # {} => timerFd' \in 0 .. TimeToWait(Earliest(timers'))
  BY <1>1, SetForEach
<1> QED BY <1>2 DEF Armed, TimeToWait, Earliest

\* insertTimer: timerFd_ is set anew when the timer is the earliest one.
LEMMA AddingArms ==
    ASSUME TypeOK, NEW a \in Addresses, NEW seq, NEW left \in Times, AddTimerInLoop(a, seq, left)
    PROVE  /\ timerFd' \in Times \cup {Disarmed}
           /\ (timers # {} => SetFor(timerFd, timers)) => SetFor(timerFd', timers')
<1> USE TypesOfConstants
<1>0. /\ timers \in SUBSET (Times \X Addresses) /\ timerFd \in Times \cup {Disarmed}
      /\ \A n \in timers : n[1] \in Nat
      /\ timers' = timers \cup {<<left, a>>} /\ <<left, a>>[1] = left /\ left \in Nat
  BY DEF TypeOK, AddTimerInLoop
<1>1. /\ TimeToWait(left) \in Times /\ 1 <= TimeToWait(left)
  BY DelaysAssumption DEF TimeToWait, Times
<1>2. PICK changed \in EarliestChanged(left) :
          timerFd' = IF changed THEN TimeToWait(left) ELSE timerFd
  BY DEF AddTimerInLoop
<1>3. CASE timers = {} \/ left < Earliest(timers) \/ (left = 0 /\ changed)
  <2>1. timerFd' = TimeToWait(left)
    BY <1>2, <1>3 DEF EarliestChanged
  <2>2. \A n \in timers : left <= n[1]
    <3>1. CASE timers # {} /\ left < Earliest(timers)
      BY <1>0, <3>1, EarliestIsLeast
    <3> QED BY <1>0, <1>3, <3>1
  <2>3. \A n \in timers' : TimeToWait(left) <= TimeToWait(n[1])
    BY <1>0, <2>2, ShortestWait
  <2>4. TimeToWait(left) >= 0
    BY <1>0, ShortestWait
  <2>5. SetFor(timerFd', timers')
    BY <2>1, <2>3, <2>4 DEF SetFor
  <2> QED BY <1>1, <2>1, <2>5
<1>4. CASE timers # {} /\ ~(left < Earliest(timers)) /\ ~(left = 0 /\ changed)
  <2>1. timerFd' = timerFd
    BY <1>2, <1>4 DEF EarliestChanged
  <2>2. PICK n \in timers : n[1] <= left
    <3>1. PICK n \in timers : Earliest(timers) = n[1]
      BY <1>0, <1>4, EarliestIsLeast
    <3> QED BY <1>0, <1>4, <3>1
  <2>3. TimeToWait(n[1]) <= TimeToWait(left) /\ TimeToWait(n[1]) \in Nat /\ TimeToWait(left) \in Nat
    BY <1>0, <2>2, ShortestWait
  <2>4. SetFor(timerFd, timers) => SetFor(timerFd', timers')
    BY <1>0, <2>1, <2>3 DEF SetFor
  <2> QED BY <1>0, <1>4, <2>1, <2>4
<1> QED BY <1>3, <1>4

-----------------------------------------------------------------------------
(* Calls that create a timer.                                              *)

\* new Timerff: a new sequence, at an address where nothing lives.
LEMMA NewTimerKeeps ==
    ASSUME TimerInv, NEW a \in Addresses, NEW left \in Times, NEW interval \in Intervals \cup {0},
           NewTimer(a, left, interval), UNCHANGED <<cancelled, cancelingTimers, expired>>
    PROVE  /\ created + 1 \in SequencesUsed /\ created' = created + 1
           /\ heap' \in [Addresses -> TimerType]
           /\ heap'[a].left = left /\ heap'[a].seq = created + 1
           /\ \A b \in Addresses \ {a} : heap'[b] = heap[b]
           /\ {b \in Addresses : heap'[b].live} = {b \in Addresses : heap[b].live} \cup {a}
           /\ a \notin {b \in Addresses : heap[b].live}
           /\ SequenceInv' /\ CancelInv'
<1> USE TypesOfConstants DEF TimerInv
<1> DEFINE t == [live |-> TRUE, seq |-> created + 1, left |-> left, interval |-> interval]
<1>0. /\ heap \in [Addresses -> TimerType] /\ created \in SequencesUsed
      /\ \A b \in Addresses : heap[b].seq \in SequencesUsed
  BY HeapType DEF Accounted, TypeOK
<1>1. /\ created < MaxTimers /\ created' = created + 1 /\ ~heap[a].live
      /\ heap' = [heap EXCEPT ![a] = t]
  BY DEF NewTimer, Live
<1>2. created + 1 \in SequencesUsed
  BY <1>0, <1>1, BoundsAssumption DEF SequencesUsed
<1>3. t \in TimerType /\ t.live /\ t.seq = created + 1 /\ t.left = left
  BY <1>2 DEF TimerType
<1> HIDE DEF t
<1>4. heap' \in [Addresses -> TimerType] /\ heap'[a] = t /\ \A b \in Addresses \ {a} : heap'[b] = heap[b]
  BY <1>0, <1>1, <1>3
<1>5. {b \in Addresses : heap'[b].live} = {b \in Addresses : heap[b].live} \cup {a}
  BY <1>3, <1>4
<1>6. SequenceInv'
  <2>1. \A b \in Addresses : heap'[b].seq <= created'
    <3>1. \A b \in Addresses \ {a} : heap'[b].seq <= created
      BY <1>4 DEF SequenceInv
    <3>2. heap'[a].seq <= created'
      BY <1>0, <1>1, <1>3, <1>4
    <3>3. \A b \in Addresses \ {a} : heap'[b].seq \in Nat
      BY <1>0, <1>4
    <3> QED BY <1>0, <1>1, <3>1, <3>2, <3>3
  <2>2. ASSUME NEW b \in Addresses, NEW c \in Addresses, heap'[b].live, heap'[c].live,
               heap'[b].seq = heap'[c].seq
        PROVE  b = c
    BY <1>0, <1>3, <1>4, <2>2 DEF SequenceInv, Live
  <2> QED BY <2>1, <2>2 DEF SequenceInv, Live
<1>7. CancelInv'
  <2> SUFFICES ASSUME NEW s \in cancelled
               PROVE  /\ s <= created'
                      /\ \A b \in Addresses : heap'[b].live /\ heap'[b].seq = s =>
                            b \in AddressesOf(expired) /\ <<b, s>> \in cancelingTimers
    BY DEF CancelInv, Live
  <2>1. s <= created /\ s \in Nat
    BY DEF CancelInv, Accounted, TypeOK
  <2>2. \A b \in Addresses \ {a} : heap'[b].live /\ heap'[b].seq = s =>
            b \in AddressesOf(expired) /\ <<b, s>> \in cancelingTimers
    BY <1>4 DEF CancelInv, Live
  <2>3. heap'[a].seq # s
    BY <1>0, <1>3, <1>4, <2>1
  <2> QED BY <1>0, <1>1, <2>1, <2>2, <2>3
<1> QED BY <1>1, <1>2, <1>3, <1>4, <1>5, <1>6, <1>7

\* A queue whose tasks add timers that are left alone.
LEMMA QueueKept ==
    ASSUME TimerInv, UNCHANGED queue, ids' \subseteq TimerIds, adding' \subseteq Adders,
           \A b \in Addresses : b \in QueuedIn(queue) => heap'[b].seq = heap[b].seq
    PROVE  QueueInv'
<1>1. \A j \in DOMAIN queue : queue[j].task = "add" =>
          queue[j].timer \in QueuedIn(queue) /\ queue[j].timer \in Addresses
  <2>1. \A j \in DOMAIN queue : queue[j] \in Tasks
    BY LenProperties, ElementOfSeq DEF TimerInv, QueueInv
  <2> QED BY <2>1 DEF QueuedIn, Tasks
<1> QED BY <1>1 DEF TimerInv, QueueInv

LEMMA AddTimerStep ==
    ASSUME TimerInv, NEW a \in Addresses, NEW left \in Delays, NEW interval \in Intervals,
           AddTimer(a, left, interval)
    PROVE  TimerInv'
<1> USE TypesOfConstants
<1> DEFINE T == AddressesOf(timers)
           E == AddressesOf(expired)
<1>0. /\ at \in {"idle", "callback"} /\ left \in Times /\ TypeOK
      /\ NewTimer(a, left, interval) /\ AddTimerInLoop(a, created + 1, left)
      /\ ids' = ids \cup {[timer |-> a, seq |-> created + 1, made |-> created + 1]}
      /\ UNCHANGED <<cancelingTimers, at, expired, toRun, late, reported, queue, adding, cancelled>>
  BY DEF AddTimer, loopVars, TimerInv, Accounted
<1>1. /\ created + 1 \in SequencesUsed /\ created' = created + 1
      /\ heap' \in [Addresses -> TimerType]
      /\ heap'[a].left = left /\ heap'[a].seq = created + 1
      /\ \A b \in Addresses \ {a} : heap'[b] = heap[b]
      /\ {b \in Addresses : heap'[b].live} = {b \in Addresses : heap[b].live} \cup {a}
      /\ a \notin {b \in Addresses : heap[b].live}
      /\ SequenceInv' /\ CancelInv'
  BY <1>0, NewTimerKeeps
<1>2. /\ timers' = timers \cup {<<left, a>>}
      /\ activeTimers' = activeTimers \cup {<<a, created + 1>>}
      /\ timerFd' \in Times \cup {Disarmed}
      /\ (timers # {} => SetFor(timerFd, timers)) => SetFor(timerFd', timers')
  BY <1>0, AddingArms DEF AddTimerInLoop
<1>3. /\ T \subseteq Addresses /\ E \subseteq Addresses
      /\ timers = {<<heap[b].left, b>> : b \in T}
      /\ activeTimers = {<<b, heap[b].seq>> : b \in T}
      /\ {b \in Addresses : heap[b].live} = T \cup E \cup QueuedIn(queue)
      /\ T \cap E = {} /\ QueuedIn(queue) \cap (T \cup E) = {}
  BY PlacesNow
<1>4. TypeOK'
  BY <1>0, <1>1, <1>2 DEF TypeOK, TimerType
<1> HIDE DEF T, E
<1>5. SetsAgree' /\ Accounted'
  <2>1. timers' = {<<heap'[b].left, b>> : b \in T \cup {a}}
    BY <1>1, <1>2, <1>3
  <2>2. activeTimers' = {<<b, heap'[b].seq>> : b \in T \cup {a}}
    BY <1>1, <1>2, <1>3
  <2>3. AddressesOf(expired') = E /\ QueuedIn(queue') = QueuedIn(queue)
    BY <1>0 DEF E
  <2>4. T \cup {a} \in SUBSET Addresses
    BY <1>3
  <2>5. {b \in Addresses : heap'[b].live} = (T \cup {a}) \cup AddressesOf(expired') \cup QueuedIn(queue')
    BY <1>1, <1>3, <2>3
  <2>6. /\ (T \cup {a}) \cap AddressesOf(expired') = {}
        /\ QueuedIn(queue') \cap ((T \cup {a}) \cup AddressesOf(expired')) = {}
    BY <1>1, <1>3, <2>3
  <2> QED BY <1>4, <2>1, <2>2, <2>4, <2>5, <2>6, PlacesAgain
<1>6. Armed'
  BY <1>0, <1>2, <1>4, ArmedNow, ArmedAgain DEF TimerInv
<1>7. QueueInv'
  <2>1. ids' \subseteq TimerIds /\ adding' \subseteq Adders
    BY <1>0, <1>1 DEF TimerInv, QueueInv, TimerIds
  <2>2. \A b \in Addresses : b \in QueuedIn(queue) => heap'[b].seq = heap[b].seq
    BY <1>1, <1>3
  <2> QED BY <1>0, <2>1, <2>2, QueueKept
<1> QED BY <1>0, <1>1, <1>5, <1>6, <1>7 DEF TimerInv, BatchInv

\* The heap after a delete: the sequence stays, and nothing else is touched.
LEMMA DeleteKeeps ==
    ASSUME heap \in [Addresses -> TimerType], NEW a \in Addresses,
           heap' = [heap EXCEPT ![a] = Deleted(a)]
    PROVE  /\ heap' \in [Addresses -> TimerType]
           /\ \A b \in Addresses : heap'[b].seq = heap[b].seq
           /\ \A b \in Addresses \ {a} : heap'[b] = heap[b]
           /\ ~heap'[a].live
<1>1. heap[a] \in TimerType
  OBVIOUS
<1>2. Deleted(a) \in TimerType /\ ~Deleted(a).live /\ Deleted(a).seq = heap[a].seq
  BY <1>1, TimerRecords DEF Deleted
<1> QED BY <1>2

\* cancelInLoop: a timer in the queue leaves it, one of a batch is marked.
LEMMA CancelInLoopKeeps ==
    ASSUME TimerInv, NEW id, id.timer \in Addresses, id.seq \in SequencesUsed, CancelInLoop(id),
           UNCHANGED <<created, at, expired, toRun, late, reported>>,
           QueuedIn(queue') = QueuedIn(queue)
    PROVE  /\ Accounted' /\ SetsAgree' /\ Armed' /\ SequenceInv' /\ BatchInv' /\ CancelInv'
           /\ \A b \in Addresses : heap'[b].seq = heap[b].seq
<1> USE TypesOfConstants
<1> DEFINE T == AddressesOf(timers)
           E == AddressesOf(expired)
           a == id.timer
           s == id.seq
<1>0. /\ TypeOK /\ heap \in [Addresses -> TimerType]
      /\ \A b \in Addresses : heap[b].seq \in SequencesUsed /\ heap[b].left \in Times
      /\ AddressesOf(expired') = E
  BY HeapType DEF TimerInv, Accounted
<1>1. /\ T \subseteq Addresses /\ E \subseteq Addresses
      /\ timers = {<<heap[b].left, b>> : b \in T}
      /\ activeTimers = {<<b, heap[b].seq>> : b \in T}
      /\ {b \in Addresses : heap[b].live} = T \cup E \cup QueuedIn(queue)
      /\ T \cap E = {} /\ QueuedIn(queue) \cap (T \cup E) = {}
  BY PlacesNow
<1>2. {Entry(n[2]) : n \in expired} = {<<b, heap[b].seq>> : b \in E}
  BY DEF Entry, AddressesOf
<1>3. /\ \A b, c \in Addresses : heap[b].live /\ heap[c].live /\ heap[b].seq = heap[c].seq => b = c
      /\ \A b \in Addresses : heap[b].seq <= created
  BY DEF TimerInv, SequenceInv, Live
<1>4. \A k \in cancelled :
        /\ k <= created
        /\ \A b \in Addresses : heap[b].live /\ heap[b].seq = k => b \in E /\ <<b, k>> \in cancelingTimers
  BY DEF TimerInv, CancelInv, Live
<1>5. (at = "idle" => E = {}) /\ BatchInv'
  BY DEF TimerInv, BatchInv, AddressesOf
<1>6. CASE <<a, s>> \in activeTimers
  <2>1. /\ timers' = timers \ {<<heap[a].left, a>>}
        /\ activeTimers' = activeTimers \ {<<a, heap[a].seq>>}
        /\ heap' = [heap EXCEPT ![a] = Deleted(a)]
        /\ UNCHANGED <<cancelingTimers, timerFd>> /\ cancelled' = cancelled \cup {s}
    BY <1>6 DEF CancelInLoop, Erase, Entry
  <2>2. a \in T /\ s = heap[a].seq /\ a \in Addresses
    BY <1>1, <1>6
  <2>3. /\ heap' \in [Addresses -> TimerType]
        /\ \A b \in Addresses : heap'[b].seq = heap[b].seq
        /\ \A b \in Addresses \ {a} : heap'[b] = heap[b]
        /\ ~heap'[a].live
    BY <1>0, <2>1, <2>2, DeleteKeeps
  <2>4. TypeOK'
    BY <1>0, <2>1, <2>3 DEF TypeOK, TimerType
  <2> HIDE DEF T, E, a, s
  <2>5. Accounted' /\ SetsAgree'
    <3>1. timers' = {<<heap'[b].left, b>> : b \in T \ {a}}
      BY <1>1, <2>1, <2>2, <2>3
    <3>2. activeTimers' = {<<b, heap'[b].seq>> : b \in T \ {a}}
      BY <1>1, <2>1, <2>2, <2>3
    <3>3. {b \in Addresses : heap'[b].live} = (T \ {a}) \cup E \cup QueuedIn(queue)
      BY <1>1, <2>2, <2>3
    <3>4. (T \ {a}) \cap E = {} /\ QueuedIn(queue) \cap ((T \ {a}) \cup E) = {}
      BY <1>1
    <3>5. T \ {a} \in SUBSET Addresses
      BY <1>1
    <3> QED BY <1>0, <2>4, <3>1, <3>2, <3>3, <3>4, <3>5, PlacesAgain
  <2>6. Armed'
    <3>1. timers' \subseteq timers /\ timerFd' = timerFd /\ at' = at
      BY <2>1
    <3>2. at' = "idle" /\ timers' # {} => SetFor(timerFd', timers')
      BY <1>0, <3>1, ArmedNow DEF SetFor, TimerInv
    <3> QED BY <2>4, <3>2, ArmedAgain
  <2>7. SequenceInv'
    BY <1>3, <2>3 DEF SequenceInv, Live
  <2>8. CancelInv'
    <3> SUFFICES ASSUME NEW k \in cancelled \cup {s}
                 PROVE  /\ k <= created
                        /\ \A b \in Addresses : heap'[b].live /\ heap'[b].seq = k =>
                              b \in E /\ <<b, k>> \in cancelingTimers
      BY <1>0, <2>1 DEF CancelInv, Live
    <3>1. CASE k \in cancelled
      BY <1>4, <2>3, <3>1
    <3>2. CASE k = s
      BY <1>1, <1>3, <2>2, <2>3, <3>2
    <3> QED BY <3>1, <3>2
  <2> QED BY <1>5, <2>3, <2>5, <2>6, <2>7, <2>8
<1>7. CASE <<a, s>> \notin activeTimers
  <2>1. /\ UNCHANGED <<timers, activeTimers, heap, timerFd>>
        /\ cancelingTimers' = IF at = "idle" THEN cancelingTimers ELSE cancelingTimers \cup {<<a, s>>}
        /\ cancelled' = IF <<a, s>> \in {<<b, heap[b].seq>> : b \in E} THEN cancelled \cup {s} ELSE cancelled
    BY <1>2, <1>7 DEF CancelInLoop
  <2>2. TypeOK'
    <3>1. cancelingTimers' \subseteq Addresses \X SequencesUsed
      BY <1>0, <2>1 DEF TypeOK
    <3>2. cancelled' \subseteq SequencesUsed
      BY <1>0, <2>1 DEF TypeOK
    <3> HIDE <2>1 DEF a, s
    <3>3. UNCHANGED <<timers, activeTimers, heap, timerFd>>
      BY <2>1
    <3> QED BY <1>0, <3>1, <3>2, <3>3 DEF TypeOK
  <2>3. Accounted' /\ SetsAgree'
    BY <1>0, <1>1, <2>1, <2>2, PlacesAgain, SMTT(30)
  <2>4. Armed' /\ SequenceInv'
    BY <2>1 DEF TimerInv, Armed, SequenceInv, Live, TimeToWait, Earliest
  <2> HIDE DEF T, E, a, s
  <2>5. CancelInv'
    <3> SUFFICES ASSUME NEW k \in cancelled'
                 PROVE  /\ k <= created
                        /\ \A b \in Addresses : heap[b].live /\ heap[b].seq = k =>
                              b \in E /\ <<b, k>> \in cancelingTimers'
      BY <1>0, <2>1 DEF CancelInv, Live
    <3>1. CASE k \in cancelled
      BY <1>4, <2>1, <3>1
    <3>2. CASE k \notin cancelled
      <4>1. k = s /\ <<a, s>> \in {<<b, heap[b].seq>> : b \in E}
        BY <2>1, <3>2
      <4>2. a \in E /\ s = heap[a].seq /\ a \in Addresses
        BY <1>1, <4>1
      <4>3. heap[a].live /\ <<a, s>> \in cancelingTimers'
        BY <1>1, <1>5, <2>1, <4>2
      <4> QED BY <1>3, <4>1, <4>2, <4>3
    <3> QED BY <3>1, <3>2
  <2> QED BY <1>5, <2>1, <2>3, <2>4, <2>5
<1> QED BY <1>6, <1>7

LEMMA CancelStep ==
    ASSUME TimerInv, NEW id \in ids, Cancel(id)
    PROVE  TimerInv'
<1>1. id.timer \in Addresses /\ id.seq \in SequencesUsed
  BY DEF TimerInv, QueueInv, TimerIds
<1>2. /\ CancelInLoop(id)
      /\ UNCHANGED <<created, at, expired, toRun, late, reported, queue, ids, adding>>
  BY DEF Cancel, loopVars, callerVars
<1>3. /\ Accounted' /\ SetsAgree' /\ Armed' /\ SequenceInv' /\ BatchInv' /\ CancelInv'
      /\ \A b \in Addresses : heap'[b].seq = heap[b].seq
  BY <1>1, <1>2, CancelInLoopKeeps
<1>4. QueueInv'
  BY <1>2, <1>3, QueueKept DEF TimerInv, QueueInv
<1> QED BY <1>3, <1>4 DEF TimerInv

-----------------------------------------------------------------------------
(* Calls of other threads.                                                 *)

\* The parts that depend on neither the queue nor the calls in progress.
LEMMA TimersKept ==
    ASSUME TimerInv, TypeOK', QueuedIn(queue') = QueuedIn(queue),
           UNCHANGED <<heap, created, timers, activeTimers, cancelingTimers, expired, cancelled>>
    PROVE  Accounted' /\ SetsAgree' /\ SequenceInv' /\ CancelInv'
<1>1. Accounted' /\ SetsAgree'
  BY PlacesNow, PlacesAgain
<1>2. SequenceInv' /\ CancelInv'
  BY DEF TimerInv, SequenceInv, CancelInv, Live
<1> QED BY <1>1, <1>2

LEMMA QueueAddTimerStep ==
    ASSUME TimerInv, NEW t \in Others, NEW a \in Addresses, NEW left \in Delays,
           NEW interval \in Intervals, QueueAddTimer(t, a, left, interval)
    PROVE  TimerInv'
<1> USE TypesOfConstants
<1> DEFINE T == AddressesOf(timers)
           E == AddressesOf(expired)
           task == [task |-> "add", timer |-> a, seq |-> created + 1]
<1>0. /\ left \in Times /\ TypeOK /\ NewTimer(a, left, interval)
      /\ queue' = Append(queue, task)
      /\ adding' = adding \cup {[by |-> t, timer |-> a, made |-> created + 1]}
      /\ UNCHANGED <<timers, activeTimers, timerFd, cancelingTimers, at, expired, toRun, late,
                     reported, ids, cancelled>>
  BY DEF QueueAddTimer, loopVars, TimerInv, Accounted
<1>1. /\ created + 1 \in SequencesUsed /\ created' = created + 1
      /\ heap' \in [Addresses -> TimerType]
      /\ heap'[a].left = left /\ heap'[a].seq = created + 1
      /\ \A b \in Addresses \ {a} : heap'[b] = heap[b]
      /\ {b \in Addresses : heap'[b].live} = {b \in Addresses : heap[b].live} \cup {a}
      /\ a \notin {b \in Addresses : heap[b].live}
      /\ SequenceInv' /\ CancelInv'
  BY <1>0, NewTimerKeeps
<1>2. /\ T \subseteq Addresses /\ E \subseteq Addresses
      /\ timers = {<<heap[b].left, b>> : b \in T}
      /\ activeTimers = {<<b, heap[b].seq>> : b \in T}
      /\ {b \in Addresses : heap[b].live} = T \cup E \cup QueuedIn(queue)
      /\ T \cap E = {} /\ QueuedIn(queue) \cap (T \cup E) = {}
  BY PlacesNow
<1>3. TypeOK'
  BY <1>0, <1>1 DEF TypeOK, TimerType
<1>4. task \in Tasks /\ queue \in Seq(Tasks) /\ task.task = "add" /\ task.timer = a /\ task.seq = created + 1
  BY <1>1 DEF TimerInv, QueueInv, Tasks
<1> HIDE DEF T, E, task
<1>5. /\ queue' \in Seq(Tasks) /\ QueuedIn(queue') = QueuedIn(queue) \cup {a}
      /\ \A j \in DOMAIN queue' : queue'[j] = task \/ (j \in DOMAIN queue /\ queue'[j] = queue[j])
      /\ \A j, k \in DOMAIN queue' : j \notin DOMAIN queue /\ k \notin DOMAIN queue => j = k
      /\ \A j \in DOMAIN queue : queue'[j] = queue[j]
  <2>1. \A j \in DOMAIN queue : queue'[j] = queue[j]
    BY <1>0, <1>4, AppendProperties, LenProperties
  <2> QED BY <1>0, <1>4, <2>1, QueuedGrows
<1>6. SetsAgree' /\ Accounted'
  <2>1. timers' = {<<heap'[b].left, b>> : b \in T}
    BY <1>0, <1>1, <1>2
  <2>2. activeTimers' = {<<b, heap'[b].seq>> : b \in T}
    BY <1>0, <1>1, <1>2
  <2>3. AddressesOf(expired') = E
    BY <1>0 DEF E
  <2>4. {b \in Addresses : heap'[b].live} = T \cup AddressesOf(expired') \cup QueuedIn(queue')
    BY <1>1, <1>2, <1>5, <2>3
  <2>5. /\ T \cap AddressesOf(expired') = {}
        /\ QueuedIn(queue') \cap (T \cup AddressesOf(expired')) = {}
    BY <1>1, <1>2, <1>5, <2>3
  <2>6. T \in SUBSET Addresses
    BY <1>2
  <2> QED BY <1>3, <2>1, <2>2, <2>4, <2>5, <2>6, PlacesAgain
<1>7. Armed' /\ BatchInv'
  BY <1>0 DEF TimerInv, Armed, TimeToWait, Earliest, BatchInv
<1>8. QueueInv'
  <2>1. ids' \subseteq TimerIds /\ adding' \subseteq Adders
    BY <1>0, <1>1 DEF TimerInv, QueueInv, Adders
  <2>2. \A j \in DOMAIN queue : queue[j].task = "add" =>
            /\ queue[j].timer \in QueuedIn(queue) /\ queue[j].timer \in Addresses
            /\ queue[j].timer # a
            /\ queue[j].seq = heap'[queue[j].timer].seq
    <3>1. \A j \in DOMAIN queue : queue[j] \in Tasks
      BY <1>4, LenProperties, ElementOfSeq
    <3>2. \A j \in DOMAIN queue : queue[j].task = "add" =>
              queue[j].timer \in QueuedIn(queue) /\ queue[j].timer \in Addresses
      BY <3>1 DEF QueuedIn, Tasks
    <3> QED BY <1>1, <1>2, <3>2 DEF TimerInv, QueueInv
  <2>3. \A j \in DOMAIN queue' : queue'[j].task = "add" => queue'[j].seq = heap'[queue'[j].timer].seq
    BY <1>1, <1>4, <1>5, <2>2
  <2>4. ASSUME NEW j \in DOMAIN queue', NEW k \in DOMAIN queue', queue'[j].task = "add",
               queue'[k].task = "add", queue'[j].timer = queue'[k].timer
        PROVE  j = k
    <3>1. CASE j \in DOMAIN queue /\ k \in DOMAIN queue
      BY <1>5, <2>4, <3>1 DEF TimerInv, QueueInv
    <3>2. CASE j \notin DOMAIN queue /\ k \notin DOMAIN queue
      BY <1>5, <3>2
    <3>3. CASE j \in DOMAIN queue /\ k \notin DOMAIN queue
      BY <1>4, <1>5, <2>2, <2>4, <3>3
    <3>4. CASE j \notin DOMAIN queue /\ k \in DOMAIN queue
      BY <1>4, <1>5, <2>2, <2>4, <3>4
    <3> QED BY <3>1, <3>2, <3>3, <3>4
  <2> QED BY <1>5, <2>1, <2>3, <2>4 DEF QueueInv
<1> QED BY <1>1, <1>6, <1>7, <1>8 DEF TimerInv

LEMMA ReturnTimerIdStep ==
    ASSUME TimerInv, NEW call \in adding, ReturnTimerId(call)
    PROVE  TimerInv'
<1> USE TypesOfConstants
<1>1. /\ call.timer \in Addresses /\ call.made \in SequencesUsed
      /\ ids \subseteq TimerIds /\ adding \subseteq Adders /\ TypeOK
  BY DEF TimerInv, QueueInv, Adders, Accounted
<1>2. heap[call.timer].seq \in SequencesUsed
  BY <1>1, HeapType
<1>3. PICK seq \in SequencesUsed :
         ids' = ids \cup {[timer |-> call.timer, seq |-> seq, made |-> call.made]}
  BY <1>2 DEF ReturnTimerId
<1>4. /\ adding' = adding \ {call}
      /\ UNCHANGED <<heap, timers, activeTimers, timerFd, cancelingTimers, at, expired, toRun,
                     late, reported, created, queue, cancelled>>
  BY DEF ReturnTimerId, timerVars, loopVars
<1>5. ids' \subseteq TimerIds /\ adding' \subseteq Adders
  BY <1>1, <1>3, <1>4 DEF TimerIds
<1>6. QueueInv'
  BY <1>4, <1>5, QueueKept
<1>7. TypeOK'
  BY <1>1, <1>4 DEF TypeOK
<1>8. Armed' /\ BatchInv'
  BY <1>4 DEF TimerInv, Armed, TimeToWait, Earliest, BatchInv
<1> QED BY <1>4, <1>6, <1>7, <1>8, TimersKept DEF TimerInv

LEMMA QueueCancelStep ==
    ASSUME TimerInv, NEW id \in ids, QueueCancel(id)
    PROVE  TimerInv'
<1> USE TypesOfConstants
<1> DEFINE task == [task |-> "cancel", timer |-> id.timer, seq |-> id.seq]
<1>1. /\ id.timer \in Addresses /\ id.seq \in SequencesUsed
      /\ ids \subseteq TimerIds /\ adding \subseteq Adders /\ TypeOK /\ queue \in Seq(Tasks)
  BY DEF TimerInv, QueueInv, TimerIds, Accounted
<1>2. task \in Tasks /\ task.task # "add"
  BY <1>1 DEF Tasks
<1>3. /\ queue' = Append(queue, task)
      /\ UNCHANGED <<heap, timers, activeTimers, timerFd, cancelingTimers, at, expired, toRun,
                     late, reported, created, adding, ids, cancelled>>
  BY DEF QueueCancel, timerVars, loopVars
<1> HIDE DEF task
<1>4. /\ queue' \in Seq(Tasks) /\ QueuedIn(queue') = QueuedIn(queue)
      /\ \A j \in DOMAIN queue' : queue'[j].task = "add" => j \in DOMAIN queue /\ queue'[j] = queue[j]
  <2>1. /\ queue' \in Seq(Tasks)
        /\ QueuedIn(queue') = QueuedIn(queue) \cup (IF task.task = "add" THEN {task.timer} ELSE {})
        /\ \A j \in DOMAIN queue' : queue'[j] = task \/ (j \in DOMAIN queue /\ queue'[j] = queue[j])
    BY <1>1, <1>2, <1>3, QueuedGrows
  <2> QED BY <1>2, <2>1
<1>5. QueueInv'
  BY <1>1, <1>3, <1>4 DEF TimerInv, QueueInv
<1>6. TypeOK'
  BY <1>1, <1>3 DEF TypeOK
<1>7. Armed' /\ BatchInv'
  BY <1>3, SMTT(30) DEF TimerInv, Armed, TimeToWait, Earliest, BatchInv
<1> QED BY <1>3, <1>4, <1>5, <1>6, <1>7, TimersKept DEF TimerInv

-----------------------------------------------------------------------------
(* The loop's thread.                                                      *)

\* What is left of the queue when its first task has been taken from it.
LEMMA QueueTaken ==
    ASSUME TimerInv, queue # << >>, queue' = Tail(queue), UNCHANGED <<ids, adding>>,
           \A b \in Addresses : heap'[b].seq = heap[b].seq
    PROVE  QueueInv'
<1>1. /\ queue \in Seq(Tasks) /\ ids \subseteq TimerIds /\ adding \subseteq Adders
      /\ \A j \in DOMAIN queue : queue[j].task = "add" => queue[j].seq = heap[queue[j].timer].seq
      /\ \A j, k \in DOMAIN queue :
            queue[j].task = "add" /\ queue[k].task = "add" /\ queue[j].timer = queue[k].timer => j = k
  BY DEF TimerInv, QueueInv
<1>2. /\ queue' \in Seq(Tasks)
      /\ \A j \in DOMAIN queue' : j \in Nat /\ j + 1 \in DOMAIN queue /\ queue'[j] = queue[j + 1]
  BY <1>1, QueuedShrinks
<1>3. \A j \in DOMAIN queue : queue[j].timer \in Addresses
  <2>1. \A j \in DOMAIN queue : queue[j] \in Tasks
    BY <1>1, LenProperties, ElementOfSeq
  <2> QED BY <2>1 DEF Tasks
<1>4. \A j \in DOMAIN queue' : queue'[j].task = "add" => queue'[j].seq = heap'[queue'[j].timer].seq
  BY <1>1, <1>2, <1>3
<1>5. ASSUME NEW j \in DOMAIN queue', NEW k \in DOMAIN queue', queue'[j].task = "add",
             queue'[k].task = "add", queue'[j].timer = queue'[k].timer
      PROVE  j = k
  <2>1. j + 1 = k + 1
    BY <1>1, <1>2, <1>5
  <2> QED BY <1>2, <2>1
<1> QED BY <1>1, <1>2, <1>4, <1>5 DEF QueueInv

LEMMA RunTaskStep ==
    ASSUME TimerInv, RunTask
    PROVE  TimerInv'
<1> USE TypesOfConstants
<1> DEFINE T == AddressesOf(timers)
           E == AddressesOf(expired)
           task == Head(queue)
           a == task.timer
<1>0. /\ at = "idle" /\ queue # << >> /\ queue' = Tail(queue) /\ TypeOK
      /\ UNCHANGED <<at, expired, toRun, late, reported, created, adding, ids>>
  BY DEF RunTask, loopVars, TimerInv, Accounted
<1>1. /\ queue \in Seq(Tasks)
      /\ \A j \in DOMAIN queue : queue[j].task = "add" => queue[j].seq = heap[queue[j].timer].seq
      /\ \A j, k \in DOMAIN queue :
            queue[j].task = "add" /\ queue[k].task = "add" /\ queue[j].timer = queue[k].timer => j = k
  BY DEF TimerInv, QueueInv
<1>2. /\ task \in Tasks /\ 1 \in DOMAIN queue /\ task = queue[1]
      /\ QueuedIn(queue') = QueuedIn(queue) \ (IF task.task = "add" THEN {a} ELSE {})
  BY <1>0, <1>1, QueuedShrinks
<1>3. a \in Addresses /\ task.seq \in SequencesUsed
  BY <1>2 DEF Tasks
<1>4. CASE task.task = "add"
  <2>1. /\ AddTimerInLoop(a, task.seq, heap[a].left)
        /\ UNCHANGED <<heap, cancelingTimers, cancelled>>
    BY <1>4 DEF RunTask
  <2>2. a \in QueuedIn(queue) /\ task.seq = heap[a].seq
    BY <1>1, <1>2, <1>4 DEF QueuedIn
  <2>3. heap[a].left \in Times /\ heap \in [Addresses -> TimerType] /\ heap[a].seq \in SequencesUsed
    BY <1>0, <1>3, HeapType
  <2>4. /\ timers' = timers \cup {<<heap[a].left, a>>}
        /\ activeTimers' = activeTimers \cup {<<a, heap[a].seq>>}
        /\ timerFd' \in Times \cup {Disarmed}
        /\ (timers # {} => SetFor(timerFd, timers)) => SetFor(timerFd', timers')
    BY <1>0, <1>3, <2>1, <2>2, <2>3, AddingArms DEF AddTimerInLoop
  <2>5. /\ T \subseteq Addresses /\ E \subseteq Addresses
        /\ timers = {<<heap[b].left, b>> : b \in T}
        /\ activeTimers = {<<b, heap[b].seq>> : b \in T}
        /\ {b \in Addresses : heap[b].live} = T \cup E \cup QueuedIn(queue)
        /\ T \cap E = {} /\ QueuedIn(queue) \cap (T \cup E) = {}
    BY PlacesNow
  <2>6. QueuedIn(queue') = QueuedIn(queue) \ {a}
    BY <1>2, <1>4
  <2> HIDE DEF T, E, task, a
  <2>7. TypeOK'
    <3>1. timers' \subseteq Times \X Addresses /\ activeTimers' \subseteq Addresses \X SequencesUsed
      BY <1>0, <1>3, <2>3, <2>4 DEF TypeOK
    <3> QED BY <1>0, <2>1, <2>4, <3>1 DEF TypeOK
  <2>8. SetsAgree' /\ Accounted'
    <3>1. timers' = {<<heap'[b].left, b>> : b \in T \cup {a}}
      BY <2>1, <2>4, <2>5
    <3>2. activeTimers' = {<<b, heap'[b].seq>> : b \in T \cup {a}}
      BY <2>1, <2>4, <2>5
    <3>3. AddressesOf(expired') = E /\ T \cup {a} \in SUBSET Addresses
      BY <1>0, <1>3, <2>5 DEF E
    <3>4. {b \in Addresses : heap'[b].live} = (T \cup {a}) \cup AddressesOf(expired') \cup QueuedIn(queue')
      BY <2>1, <2>2, <2>5, <2>6, <3>3
    <3>5. /\ (T \cup {a}) \cap AddressesOf(expired') = {}
          /\ QueuedIn(queue') \cap ((T \cup {a}) \cup AddressesOf(expired')) = {}
      BY <2>2, <2>5, <2>6, <3>3
    <3> QED BY <2>7, <3>1, <3>2, <3>3, <3>4, <3>5, PlacesAgain
  <2>9. Armed'
    BY <1>0, <2>4, <2>7, ArmedNow, ArmedAgain DEF TimerInv
  <2>10. SequenceInv' /\ CancelInv' /\ BatchInv'
    BY <1>0, <2>1 DEF TimerInv, SequenceInv, CancelInv, BatchInv, Live
  <2>11. QueueInv'
    BY <1>0, <2>1, QueueTaken
  <2> QED BY <2>8, <2>9, <2>10, <2>11 DEF TimerInv
<1>5. CASE task.task # "add"
  <2>1. CancelInLoop(task)
    BY <1>5 DEF RunTask
  <2>2. QueuedIn(queue') = QueuedIn(queue)
    BY <1>2, <1>5
  <2> HIDE DEF task
  <2>3. /\ Accounted' /\ SetsAgree' /\ Armed' /\ SequenceInv' /\ BatchInv' /\ CancelInv'
        /\ \A b \in Addresses : heap'[b].seq = heap[b].seq
    BY <1>0, <1>3, <2>1, <2>2, CancelInLoopKeeps
  <2>4. QueueInv'
    BY <1>0, <2>3, QueueTaken
  <2> QED BY <2>3, <2>4 DEF TimerInv
<1> QED BY <1>4, <1>5

\* Steps that leave the timers where they are.
LEMMA PollStep ==
    ASSUME TimerInv, Poll
    PROVE  TimerInv'
<1>1. UNCHANGED <<heap, timers, activeTimers, timerFd, cancelingTimers, at, expired, toRun, late,
                  created, queue, adding, ids, cancelled>>
  BY DEF Poll, timerVars, loopVars, callerVars
<1>2. TypeOK'
  BY <1>1 DEF Poll, TimerInv, Accounted, TypeOK
<1>3. QueueInv'
  BY <1>1 DEF TimerInv, QueueInv
<1>4. Armed' /\ BatchInv'
  BY <1>1 DEF TimerInv, Armed, TimeToWait, Earliest, BatchInv
<1>5. QueuedIn(queue') = QueuedIn(queue)
  BY <1>1
<1> QED BY <1>1, <1>2, <1>3, <1>4, <1>5, TimersKept DEF TimerInv

LEMMA CallbackStep ==
    ASSUME TimerInv, RunTimer \/ CallbackReturns
    PROVE  TimerInv'
<1>1. /\ UNCHANGED <<heap, timers, activeTimers, timerFd, cancelingTimers, expired, late, reported,
                     created, queue, adding, ids, cancelled>>
      /\ toRun' \subseteq toRun /\ at' \in {"calling", "callback"} /\ at # "idle"
  BY DEF RunTimer, CallbackReturns, timerVars, callerVars
<1>2. TypeOK'
  BY <1>1 DEF TimerInv, Accounted, TypeOK
<1>3. QueueInv' /\ Armed' /\ BatchInv'
  BY <1>1 DEF TimerInv, QueueInv, Armed, BatchInv
<1> QED BY <1>1, <1>2, <1>3, TimersKept DEF TimerInv

\* handleTimerfdRead begins a batch: between batches nothing that is there was cancelled.
LEMMA HandleTimerfdReadStep ==
    ASSUME TimerInv, HandleTimerfdRead
    PROVE  TimerInv'
<1> USE TypesOfConstants
<1> DEFINE T == AddressesOf(timers)
           E == AddressesOf(expired)
           due == {b \in T : heap[b].left = 0}
<1>0. /\ at = "idle" /\ at' = "calling" /\ TypeOK
      /\ expired' = {n \in timers : n[1] = 0} /\ toRun' = expired'
      /\ timers' = timers \ expired'
      /\ activeTimers' = activeTimers \ {Entry(n[2]) : n \in expired'}
      /\ cancelingTimers' = {} /\ late' = 0 /\ reported' \in BOOLEAN
      /\ timerFd' = IF timerFd = 0 THEN Disarmed ELSE timerFd
      /\ UNCHANGED <<heap, created, queue, adding, ids, cancelled>>
  BY DEF HandleTimerfdRead, callerVars, TimerInv, Accounted
<1>1. /\ T \subseteq Addresses /\ E \subseteq Addresses
      /\ timers = {<<heap[b].left, b>> : b \in T}
      /\ activeTimers = {<<b, heap[b].seq>> : b \in T}
      /\ {b \in Addresses : heap[b].live} = T \cup E \cup QueuedIn(queue)
      /\ T \cap E = {} /\ QueuedIn(queue) \cap (T \cup E) = {}
  BY PlacesNow
<1>2. E = {} /\ expired = {}
  BY <1>0 DEF TimerInv, BatchInv, AddressesOf
<1>3. TypeOK'
  BY <1>0 DEF TypeOK
<1> HIDE DEF T
<1>4. expired' = {<<heap[b].left, b>> : b \in due} /\ AddressesOf(expired') = due
  <2>1. expired' = {<<heap[b].left, b>> : b \in due}
    BY <1>0, <1>1
  <2>2. \A b \in due : <<heap[b].left, b>> \in expired' /\ <<heap[b].left, b>>[2] = b
    BY <2>1
  <2>3. \A n \in expired' : n[2] \in due
    BY <2>1
  <2>4. AddressesOf(expired') \subseteq due
    BY <2>3 DEF AddressesOf
  <2>5. due \subseteq AddressesOf(expired')
    BY <2>2 DEF AddressesOf
  <2> HIDE DEF due
  <2> QED BY <2>1, <2>4, <2>5
<1>5. {Entry(n[2]) : n \in expired'} = {<<b, heap[b].seq>> : b \in due}
  BY <1>4 DEF Entry, AddressesOf
<1> HIDE DEF E
<1>6. SetsAgree' /\ Accounted'
  <2>1. timers' = {<<heap'[b].left, b>> : b \in T \ due}
    BY <1>0, <1>1, <1>4
  <2>2. activeTimers' = {<<b, heap'[b].seq>> : b \in T \ due}
    BY <1>0, <1>1, <1>5
  <2>3. {b \in Addresses : heap'[b].live} = (T \ due) \cup AddressesOf(expired') \cup QueuedIn(queue')
    BY <1>0, <1>1, <1>2, <1>4
  <2>4. /\ (T \ due) \cap AddressesOf(expired') = {}
        /\ QueuedIn(queue') \cap ((T \ due) \cup AddressesOf(expired')) = {}
    BY <1>0, <1>1, <1>4
  <2>5. T \ due \in SUBSET Addresses
    BY <1>1
  <2> QED BY <1>3, <2>1, <2>2, <2>3, <2>4, <2>5, PlacesAgain
<1>7. Armed' /\ BatchInv' /\ QueueInv' /\ SequenceInv'
  BY <1>0 DEF TimerInv, Armed, BatchInv, QueueInv, SequenceInv, Live
<1>8. CancelInv'
  <2>1. \A s \in cancelled : s <= created /\ \A b \in Addresses : ~(heap[b].live /\ heap[b].seq = s)
    BY <1>2 DEF TimerInv, CancelInv, Live, AddressesOf
  <2> QED BY <1>0, <2>1 DEF CancelInv, Live
<1> QED BY <1>6, <1>7, <1>8 DEF TimerInv

LEMMA LeftAfter ==
    ASSUME NEW x \in Times, NEW y \in Times
    PROVE  (IF x > y THEN x - y ELSE 0) \in Times /\ Sooner(x) \in Times
BY DelaysAssumption DEF Times, Sooner

LEMMA ResetStep ==
    ASSUME TimerInv, Reset
    PROVE  TimerInv'
<1> USE TypesOfConstants
<1> DEFINE T == AddressesOf(timers)
           E == AddressesOf(expired)
           Again(a) == heap[a].interval > 0 /\ Entry(a) \notin cancelingTimers
           again == {a \in E : Again(a)}
           Left(a)  == IF heap[a].interval > late THEN heap[a].interval - late ELSE 0
<1>0. /\ heap \in [Addresses -> TimerType] /\ TypeOK /\ late \in Times
      /\ \A b \in Addresses : /\ heap[b].seq \in SequencesUsed /\ heap[b].left \in Times
                              /\ heap[b].interval \in Times
  BY HeapType DEF TimerInv, Accounted, TypeOK
<1>1. /\ T \subseteq Addresses /\ E \subseteq Addresses
      /\ timers = {<<heap[b].left, b>> : b \in T}
      /\ activeTimers = {<<b, heap[b].seq>> : b \in T}
      /\ {b \in Addresses : heap[b].live} = T \cup E \cup QueuedIn(queue)
      /\ T \cap E = {} /\ QueuedIn(queue) \cap (T \cup E) = {}
  BY PlacesNow
<1>2. /\ {n[2] : n \in {m \in expired : Again(m[2])}} = again
      /\ {n[2] : n \in expired} = E
  BY DEF AddressesOf
<1>3. /\ at = "calling" /\ at' = "idle" /\ expired' = {} /\ late' = 0
      /\ heap' = [a \in Addresses |->
                     IF a \in again THEN [heap[a] EXCEPT !.left = Left(a)]
                     ELSE IF a \in E \ again THEN Deleted(a) ELSE heap[a]]
      /\ timers' = timers \cup {<<Left(a), a>> : a \in again}
      /\ activeTimers' = activeTimers \cup {Entry(a) : a \in again}
      /\ timerFd' = Rearmed(timers')
      /\ UNCHANGED <<toRun, cancelingTimers, reported, created, queue, adding, ids, cancelled>>
  <2>1. {n[2] : n \in {m \in expired : heap[m[2]].interval > 0 /\ Entry(m[2]) \notin cancelingTimers}} = again
    BY <1>2
  <2> HIDE DEF again, E
  <2> QED BY <1>2, <2>1 DEF Reset, callerVars
<1>4. \A a \in Addresses : Left(a) \in Times
  BY <1>0, LeftAfter
<1>5. /\ heap' \in [Addresses -> TimerType]
      /\ \A a \in Addresses : heap'[a].seq = heap[a].seq
      /\ \A a \in again : heap'[a].left = Left(a) /\ (heap'[a].live <=> heap[a].live)
      /\ \A a \in E \ again : ~heap'[a].live
      /\ \A a \in Addresses \ E : heap'[a] = heap[a]
  <2>1. again \subseteq E /\ E \subseteq Addresses
    BY <1>1
  <2> HIDE DEF again, E, Left
  <2>2. \A a \in Addresses : heap[a] \in TimerType
    BY <1>0
  <2>3. \A a \in Addresses : /\ Deleted(a) \in TimerType /\ ~Deleted(a).live
                             /\ Deleted(a).seq = heap[a].seq
    BY <2>2, TimerRecords DEF Deleted
  <2>4. \A a \in Addresses : /\ [heap[a] EXCEPT !.left = Left(a)] \in TimerType
                             /\ [heap[a] EXCEPT !.left = Left(a)].left = Left(a)
                             /\ [heap[a] EXCEPT !.left = Left(a)].seq = heap[a].seq
                             /\ [heap[a] EXCEPT !.left = Left(a)].live <=> heap[a].live
    <3> SUFFICES ASSUME NEW a \in Addresses
                 PROVE  /\ [heap[a] EXCEPT !.left = Left(a)] \in TimerType
                        /\ [heap[a] EXCEPT !.left = Left(a)].left = Left(a)
                        /\ [heap[a] EXCEPT !.left = Left(a)].seq = heap[a].seq
                        /\ [heap[a] EXCEPT !.left = Left(a)].live <=> heap[a].live
      OBVIOUS
    <3>1. heap[a] \in TimerType /\ Left(a) \in Times
      BY <1>4, <2>2
    <3>2. [heap[a] EXCEPT !.left = Left(a)] \in TimerType
      BY <3>1, TimerRecords
    <3>3. [heap[a] EXCEPT !.left = Left(a)].left = Left(a) /\ [heap[a] EXCEPT !.left = Left(a)].seq = heap[a].seq
      BY <3>1, TimerRecords
    <3>4. [heap[a] EXCEPT !.left = Left(a)].live <=> heap[a].live
      BY <3>1, TimerRecords
    <3> QED BY <3>2, <3>3, <3>4
  <2> QED BY <1>3, <2>1, <2>2, <2>3, <2>4
<1> HIDE DEF T, Left
<1>6. again \subseteq E /\ \A a \in again : Again(a)
  OBVIOUS
<1>7. \A a \in E : a \notin again => (heap[a].interval > 0 => Entry(a) \in cancelingTimers)
  OBVIOUS
<1>7a. \A a \in again : Entry(a) \notin cancelingTimers
  OBVIOUS
<1> HIDE DEF again, Again
<1> HIDE DEF E
<1>8. TypeOK'
  <2>1. timers' \subseteq Times \X Addresses
    BY <1>0, <1>1, <1>3, <1>4, <1>6 DEF TypeOK
  <2>2. activeTimers' \subseteq Addresses \X SequencesUsed
    BY <1>0, <1>1, <1>3, <1>6 DEF TypeOK, Entry
  <2>3. timerFd' \in Times \cup {Disarmed}
    <3>1. CASE timers' = {}
      BY <1>0, <1>3, <3>1 DEF Rearmed, TypeOK
    <3>2. CASE timers' # {}
      <4>1. Earliest(timers') \in Times
        BY <2>1, <3>2, EarliestIsLeast
      <4>2. TimeToWait(Earliest(timers')) \in Times
        BY <4>1, DelaysAssumption DEF TimeToWait, Times
      <4> QED BY <1>3, <3>2, <4>2 DEF Rearmed
    <3> QED BY <3>1, <3>2
  <2> QED BY <1>0, <1>3, <1>5, <2>1, <2>2, <2>3 DEF TypeOK, TimerType
<1>9. SetsAgree' /\ Accounted'
  <2>1. timers' = {<<heap'[b].left, b>> : b \in T \cup again}
    BY <1>1, <1>3, <1>5, <1>6
  <2>2. activeTimers' = {<<b, heap'[b].seq>> : b \in T \cup again}
    BY <1>1, <1>3, <1>5, <1>6 DEF Entry
  <2>3. AddressesOf(expired') = {} /\ T \cup again \in SUBSET Addresses
    BY <1>1, <1>3, <1>6 DEF AddressesOf
  <2>4. {b \in Addresses : heap'[b].live} = (T \cup again) \cup AddressesOf(expired') \cup QueuedIn(queue')
    BY <1>1, <1>3, <1>5, <1>6, <2>3
  <2>5. /\ (T \cup again) \cap AddressesOf(expired') = {}
        /\ QueuedIn(queue') \cap ((T \cup again) \cup AddressesOf(expired')) = {}
    BY <1>1, <1>3, <1>6, <2>3
  <2> QED BY <1>8, <2>1, <2>2, <2>3, <2>4, <2>5, PlacesAgain
<1>10. Armed'
  <2> SUFFICES ASSUME timers' # {} PROVE timerFd' \in 0 .. TimeToWait(Earliest(timers'))
    BY DEF Armed, TimeToWait, Earliest
  <2>1. Earliest(timers') \in Nat
    BY <1>8, EarliestIsLeast DEF TypeOK
  <2>2. TimeToWait(Earliest(timers')) \in Nat
    BY <2>1, ShortestWait
  <2>3. timerFd' = TimeToWait(Earliest(timers'))
    BY <1>3 DEF Rearmed
  <2> QED BY <2>2, <2>3
<1>11. QueueInv'
  BY <1>3, <1>5, QueueKept DEF TimerInv, QueueInv
<1>12. SequenceInv' /\ BatchInv'
  <2>1. \A b \in Addresses : heap'[b].live => heap[b].live
    BY <1>5
  <2> QED BY <1>3, <1>5, <2>1 DEF TimerInv, SequenceInv, BatchInv, Live
<1>13. CancelInv'
  <2> SUFFICES ASSUME NEW s \in cancelled
               PROVE  s <= created /\ \A b \in Addresses : ~(heap'[b].live /\ heap'[b].seq = s)
    BY <1>3 DEF CancelInv, Live
  <2>1. /\ s <= created
        /\ \A b \in Addresses : heap[b].live /\ heap[b].seq = s => b \in E /\ <<b, s>> \in cancelingTimers
    BY DEF TimerInv, CancelInv, Live, E
  <2>2. ASSUME NEW b \in Addresses, heap'[b].live, heap'[b].seq = s PROVE FALSE
    <3>1. heap[b].live /\ heap[b].seq = s /\ b \notin E \ again
      BY <1>5, <2>2
    <3>2. b \in again /\ Entry(b) \in cancelingTimers
      BY <2>1, <3>1 DEF Entry
    <3> QED BY <1>7a, <3>2
  <2> QED BY <2>1, <2>2
<1> QED BY <1>9, <1>10, <1>11, <1>12, <1>13 DEF TimerInv

-----------------------------------------------------------------------------
(* The passage of time.                                                    *)

LEMMA SoonerArms ==
    ASSUME NEW fd \in Nat, NEW x \in Nat, fd <= TimeToWait(x)
    PROVE  Sooner(fd) >= 0 /\ Sooner(fd) <= TimeToWait(Sooner(x))
BY DEF Sooner, TimeToWait

LEMMA TickStep ==
    ASSUME TimerInv, Tick
    PROVE  TimerInv'
<1> USE TypesOfConstants
<1> DEFINE T == AddressesOf(timers)
           E == AddressesOf(expired)
<1>0. /\ heap \in [Addresses -> TimerType] /\ TypeOK
      /\ \A b \in Addresses : heap[b].seq \in SequencesUsed /\ heap[b].left \in Times
  BY HeapType DEF TimerInv, Accounted
<1>1. /\ T \subseteq Addresses /\ E \subseteq Addresses
      /\ timers = {<<heap[b].left, b>> : b \in T}
      /\ activeTimers = {<<b, heap[b].seq>> : b \in T}
      /\ {b \in Addresses : heap[b].live} = T \cup E \cup QueuedIn(queue)
      /\ T \cap E = {} /\ QueuedIn(queue) \cap (T \cup E) = {}
  BY PlacesNow
<1>2. /\ heap' = [a \in Addresses |-> [heap[a] EXCEPT !.left = Sooner(@)]]
      /\ timers' = {<<Sooner(n[1]), n[2]>> : n \in timers}
      /\ timerFd' = IF timerFd = Disarmed THEN Disarmed ELSE Sooner(timerFd)
      /\ late' \in Times
      /\ UNCHANGED <<activeTimers, cancelingTimers, at, expired, toRun, reported, created, queue,
                     adding, ids, cancelled>>
  BY <1>0 DEF Tick, callerVars, TypeOK
<1>3. /\ heap' \in [Addresses -> TimerType]
      /\ \A a \in Addresses : /\ heap'[a].left = Sooner(heap[a].left) /\ heap'[a].seq = heap[a].seq
                              /\ heap'[a].live <=> heap[a].live
  <2> SUFFICES ASSUME NEW a \in Addresses
               PROVE  /\ [heap[a] EXCEPT !.left = Sooner(@)] \in TimerType
                      /\ [heap[a] EXCEPT !.left = Sooner(@)].left = Sooner(heap[a].left)
                      /\ [heap[a] EXCEPT !.left = Sooner(@)].seq = heap[a].seq
                      /\ [heap[a] EXCEPT !.left = Sooner(@)].live <=> heap[a].live
    BY <1>2
  <2>1. heap[a] \in TimerType /\ Sooner(heap[a].left) \in Times
    BY <1>0, LeftAfter
  <2> DEFINE x == Sooner(heap[a].left)
  <2>2. [heap[a] EXCEPT !.left = x] \in TimerType
    BY <2>1, TimerRecords
  <2>3. [heap[a] EXCEPT !.left = x].left = x /\ [heap[a] EXCEPT !.left = x].seq = heap[a].seq
    BY <2>1, TimerRecords
  <2>4. [heap[a] EXCEPT !.left = x].live <=> heap[a].live
    BY <2>1, TimerRecords
  <2> QED BY <2>2, <2>3, <2>4
<1> HIDE DEF T, E
<1>4. timers' = {<<Sooner(heap[b].left), b>> : b \in T}
  <2>1. \A n \in timers : \E b \in T : n[1] = heap[b].left /\ n[2] = b
    BY <1>1
  <2>2. \A b \in T : \E n \in timers : n[1] = heap[b].left /\ n[2] = b
    <3>1. \A b \in T : /\ <<heap[b].left, b>> \in timers
                       /\ <<heap[b].left, b>>[1] = heap[b].left /\ <<heap[b].left, b>>[2] = b
      BY <1>1
    <3> QED BY <3>1
  <2> QED BY <1>2, <2>1, <2>2
<1>5. TypeOK'
  <2>1. timers' \subseteq Times \X Addresses
    <3>1. \A b \in T : b \in Addresses /\ Sooner(heap[b].left) \in Times
      BY <1>0, <1>1, LeftAfter
    <3> QED BY <1>4, <3>1
  <2>2. timerFd' \in Times \cup {Disarmed}
    <3>1. timerFd \in Times => Sooner(timerFd) \in Times
      BY LeftAfter
    <3> QED BY <1>0, <1>2, <3>1 DEF TypeOK
  <2> QED BY <1>0, <1>2, <1>3, <2>1, <2>2 DEF TypeOK, TimerType
<1>6. SetsAgree' /\ Accounted'
  <2>1. timers' = {<<heap'[b].left, b>> : b \in T}
    BY <1>1, <1>3, <1>4
  <2>2. activeTimers' = {<<b, heap'[b].seq>> : b \in T}
    BY <1>1, <1>2, <1>3
  <2>3. AddressesOf(expired') = E /\ T \in SUBSET Addresses
    BY <1>1, <1>2 DEF E
  <2>4. {b \in Addresses : heap'[b].live} = T \cup AddressesOf(expired') \cup QueuedIn(queue')
    BY <1>1, <1>2, <1>3, <2>3
  <2>5. /\ T \cap AddressesOf(expired') = {}
        /\ QueuedIn(queue') \cap (T \cup AddressesOf(expired')) = {}
    BY <1>1, <1>2, <2>3
  <2> QED BY <1>5, <2>1, <2>2, <2>3, <2>4, <2>5, PlacesAgain
<1>7. Armed'
  <2>1. ASSUME at' = "idle", timers' # {} PROVE SetFor(timerFd', timers')
    <3>1. timers # {} /\ at = "idle"
      BY <1>2, <2>1
    <3>2. SetFor(timerFd, timers)
      BY <1>0, <3>1, ArmedNow DEF TimerInv
    <3>3. /\ timerFd \in Nat /\ \A n \in timers : n[1] \in Nat /\ timerFd <= TimeToWait(n[1])
      <4>1. timers \subseteq Times \X Addresses /\ timerFd \in Int
        BY <1>0 DEF TypeOK
      <4>2. timerFd >= 0 /\ \A n \in timers : timerFd <= TimeToWait(n[1])
        BY <3>2 DEF SetFor
      <4>3. \A n \in timers : n[1] \in Nat
        BY <4>1
      <4> QED BY <4>1, <4>2, <4>3
    <3>4. timerFd' = Sooner(timerFd)
      BY <1>2, <3>3
    <3>5. timerFd' >= 0
      BY <3>3, <3>4 DEF Sooner
    <3>6. \A n \in timers : timerFd' <= TimeToWait(Sooner(n[1]))
      BY <3>3, <3>4, SoonerArms
    <3>7. \A n \in timers' : \E m \in timers : n[1] = Sooner(m[1])
      BY <1>2
    <3> QED BY <3>5, <3>6, <3>7 DEF SetFor
  <2> QED BY <1>5, <2>1, ArmedAgain
<1>8. QueueInv'
  BY <1>2, <1>3, QueueKept DEF TimerInv, QueueInv
<1>9. SequenceInv' /\ BatchInv' /\ CancelInv'
  <2>1. SequenceInv' /\ BatchInv'
    BY <1>2, <1>3 DEF TimerInv, SequenceInv, BatchInv, Live
  <2>2. CancelInv'
    BY <1>2, <1>3 DEF TimerInv, CancelInv, Live
  <2> QED BY <2>1, <2>2
<1> QED BY <1>6, <1>7, <1>8, <1>9 DEF TimerInv

-----------------------------------------------------------------------------

LEMMA TimerInit == Init => TimerInv
<1> USE TypesOfConstants
<1> SUFFICES ASSUME Init PROVE TimerInv
  OBVIOUS
<1>1. TypeOK
  <2>1. heap \in [Addresses -> TimerType]
    BY FreeIsFree DEF Init
  <2> QED BY <2>1 DEF Init, TypeOK, TimerType
<1>2. \A a \in Addresses : ~heap[a].live /\ heap[a].seq = 0
  BY FreeIsFree DEF Init
<1>3. Queued = {} /\ timers = {} /\ expired = {} /\ activeTimers = {}
  BY DEF Init, Queued
<1>4. Accounted
  BY <1>1, <1>2, <1>3 DEF Accounted, Live
<1>5. SetsAgree /\ Armed
  BY <1>3 DEF SetsAgree, Armed
<1>6. QueueInv
  BY DEF Init, QueueInv
<1>7. SequenceInv /\ BatchInv /\ CancelInv
  BY <1>2, <1>3 DEF Init, SequenceInv, BatchInv, CancelInv, Live
<1> QED BY <1>4, <1>5, <1>6, <1>7 DEF TimerInv

LEMMA TimerStep == TimerInv /\ [Next]_vars => TimerInv'
<1> SUFFICES ASSUME TimerInv, [Next]_vars PROVE TimerInv'
  OBVIOUS
<1>1. ASSUME NEW a \in Addresses, NEW left \in Delays, NEW interval \in Intervals,
             AddTimer(a, left, interval)
      PROVE  TimerInv'
  BY <1>1, AddTimerStep
<1>2. ASSUME NEW a \in Addresses, NEW left \in Delays, NEW interval \in Intervals,
             NEW t \in Others, QueueAddTimer(t, a, left, interval)
      PROVE  TimerInv'
  BY <1>2, QueueAddTimerStep
<1>3. ASSUME NEW id \in ids, Cancel(id) \/ QueueCancel(id) PROVE TimerInv'
  BY <1>3, CancelStep, QueueCancelStep
<1>4. ASSUME NEW call \in adding, ReturnTimerId(call) PROVE TimerInv'
  BY <1>4, ReturnTimerIdStep
<1>5. CASE RunTask
  BY <1>5, RunTaskStep
<1>6. CASE Poll
  BY <1>6, PollStep
<1>7. CASE HandleTimerfdRead
  BY <1>7, HandleTimerfdReadStep
<1>8. CASE RunTimer \/ CallbackReturns
  BY <1>8, CallbackStep
<1>9. CASE Reset
  BY <1>9, ResetStep
<1>10. CASE Tick
  BY <1>10, TickStep
<1>11. CASE UNCHANGED vars
  <2>1. UNCHANGED <<heap, timers, activeTimers, timerFd, cancelingTimers, at, expired, toRun, late,
                    reported, created, queue, adding, ids, cancelled>>
    BY <1>11 DEF vars, timerVars, loopVars, callerVars
  <2>2. TypeOK' /\ QueueInv' /\ Armed' /\ BatchInv'
    <3>1. TypeOK' /\ BatchInv'
      BY <2>1 DEF TimerInv, Accounted, TypeOK, BatchInv
    <3>2. QueueInv'
      BY <2>1 DEF TimerInv, QueueInv
    <3>3. Armed'
      BY <2>1 DEF TimerInv, Armed, TimeToWait, Earliest
    <3> QED BY <3>1, <3>2, <3>3
  <2>3. QueuedIn(queue') = QueuedIn(queue)
    BY <2>1
  <2> QED BY <2>1, <2>2, <2>3, TimersKept DEF TimerInv
<1> QED BY <1>1, <1>2, <1>3, <1>4, <1>5, <1>6, <1>7, <1>8, <1>9, <1>10, <1>11 DEF Next, UserCall

\* The inductive invariant of a TimerQueueff, its users and its loop.
THEOREM TimerInvariance == Spec => []TimerInv
BY TimerInit, TimerStep, PTL DEF Spec

\* timers_ and activeTimers_ hold the same timers, each under the expiration time and the
\* sequence it has now, whatever was added, cancelled, called and inserted again.
THEOREM TimerSetsAgree == Spec => []SetsAgree
<1>1. TimerInv => SetsAgree
  BY DEF TimerInv
<1> QED BY <1>1, TimerInvariance, PTL

\* Every Timerff allocated is in exactly one of timers_, the batch being called and the
\* tasks of the loop, so that one delete frees it and nothing that is freed is used there.
THEOREM TimersAccounted == Spec => []Accounted
<1>1. TimerInv => Accounted
  BY DEF TimerInv
<1> QED BY <1>1, TimerInvariance, PTL

\* Between two runs of the handler timerFd_ is set, for no later than the earliest timer.
THEOREM TimerfdArmed == Spec => []Armed
<1>1. TimerInv => Armed
  BY DEF TimerInv
<1> QED BY <1>1, TimerInvariance, PTL

\* A timer cancelled while the queue has it, even in a callback of its own batch, is not
\* in activeTimers_ again, also when its address is that of a later timer.
THEOREM CancelledStayOut == Spec => []CancelHolds
<1>1. TimerInv => CancelHolds
  <2> SUFFICES ASSUME TimerInv, NEW a \in Addresses, NEW s \in cancelled, <<a, s>> \in activeTimers
               PROVE  FALSE
    BY DEF CancelHolds
  <2>1. a \in AddressesOf(timers) /\ s = heap[a].seq
    BY PlacesNow
  <2>2. heap[a].live /\ a \notin AddressesOf(expired)
    BY <2>1, PlacesNow
  <2> QED BY <2>1, <2>2 DEF TimerInv, CancelInv, Live
<1> QED BY <1>1, TimerInvariance, PTL
=============================================================================
