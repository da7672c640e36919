------------------------ MODULE TcpConnectionProofs ------------------------
(***************************************************************************)
(* At every step of TcpConnection, for every set of connections, threads   *)
(* and ways of using the library: the poller and the channels agree, the   *)
(* data goes out in order, and with assertions no channel that the loop    *)
(* still has to handle is destroyed.                                       *)
(*                                                                         *)
(* Where the users of TcpServerff are Careful, in the second part: no      *)
(* assertion of the library fails, no connection is used after its         *)
(* destruction, and the connections live as ConnectionLife promises.       *)
(***************************************************************************)
EXTENDS TcpConnection, SequenceTheorems, FiniteSetTheorems, TLAPS

Fields == DOMAIN NewConnection

\* r has the fields of a connection's record.
IsConnection(r) == r = [f \in Fields |-> r[f]]

\* What the operators on a channel need and keep.
Sane(r) == IsConnection(r) /\ Consistent(r)

\* The fields of the channel and life are the same.
SameChannel(r, s) ==
    \A f \in {"life", "events", "index", "addToLoop", "mapped", "registered", "interest"} :
        r[f] = s[f]

\* The inductive invariant.
PollerInv ==
    /\ conn = [c \in Conns |-> conn[c]]
    /\ \A c \in Conns : IsConnection(conn[c])
    /\ \A c \in Conns : conn[c].life = "freed" => ~conn[c].registered
    /\ PollerConsistent

-----------------------------------------------------------------------------
(* The operators of Channel.                                               *)

LEMMA FieldsAre ==
    Fields = {"life", "state", "reading", "out", "events", "index", "addToLoop",
              "mapped", "registered", "interest"}
  BY DEF Fields, NewConnection

\* Channelff::update and Pollerff::updateChannel: whatever events a channel asks for,
\* the poller and the kernel agree about it afterwards.
LEMMA UpdateIsConsistent ==
    ASSUME NEW r, Sane(r), NEW e
    PROVE  LET ch == Update([r EXCEPT !.events = e])
           IN  Sane(ch) /\ ch.life = r.life
  BY FieldsAre DEF Sane, IsConnection, Consistent, Update, UpdateChannel, Register,
     Unregister, IsNoneEvent, NoInterest

\* Pollerff::removeChannel, where its assertions hold: nothing of the channel is left.
LEMMA RemoveIsConsistent ==
    ASSUME NEW r, Sane(r)
    PROVE  Sane(RemoveChannel(r)) /\ RemoveChannel(r).life = r.life
  BY FieldsAre DEF Sane, IsConnection, Consistent, RemoveChannel, Unregister, IsNoneEvent,
     NoInterest

\* The fields of a connection other than its channel do not matter to the poller.
LEMMA StateIsApart ==
    ASSUME NEW r, IsConnection(r), NEW v
    PROVE  /\ IsConnection([r EXCEPT !.state = v])
           /\ SameChannel([r EXCEPT !.state = v], r)
           /\ IsConnection([r EXCEPT !.reading = v])
           /\ SameChannel([r EXCEPT !.reading = v], r)
           /\ IsConnection([r EXCEPT !.out = v])
           /\ SameChannel([r EXCEPT !.out = v], r)
  BY FieldsAre DEF IsConnection, SameChannel

LEMMA SameIsConsistent ==
    ASSUME NEW r, NEW s, SameChannel(r, s)
    PROVE  /\ Consistent(r) <=> Consistent(s)
           /\ r.life = s.life
           /\ r.mapped = s.mapped
           /\ r.registered = s.registered
  BY DEF SameChannel, Consistent, IsNoneEvent, NoInterest

-----------------------------------------------------------------------------
(* One connection changes at a time.                                       *)

LEMMA SaneAgain ==
    ASSUME PollerInv, NEW c \in Conns, NEW r, Alive(c), Sane(r), r.life = "alive",
           conn' = [conn EXCEPT ![c] = r], UNCHANGED setup
    PROVE  PollerInv'
  BY DEF PollerInv, PollerConsistent, Alive, Sane

LEMMA ApartAgain ==
    ASSUME PollerInv, NEW c, NEW v, UNCHANGED setup,
           conn' = [conn EXCEPT ![c] = [@ EXCEPT !.state = v]]
    PROVE  PollerInv'
<1>1. CASE c \in Conns
  <2>1. /\ IsConnection(conn'[c])
        /\ SameChannel(conn'[c], conn[c])
    BY <1>1, StateIsApart DEF PollerInv
  <2>2. /\ Consistent(conn'[c]) <=> Consistent(conn[c])
        /\ conn'[c].life = conn[c].life
        /\ conn'[c].mapped = conn[c].mapped
        /\ conn'[c].registered = conn[c].registered
    BY <2>1, SameIsConsistent
  <2>3. \A d \in Conns \ {c} : conn'[d] = conn[d]
    BY DEF PollerInv
  <2> QED BY <1>1, <2>1, <2>2, <2>3 DEF PollerInv, PollerConsistent, Alive
<1>2. CASE c \notin Conns
  BY <1>2 DEF PollerInv, PollerConsistent, Alive
<1> QED BY <1>1, <1>2

LEMMA SameAgain ==
    ASSUME PollerInv, UNCHANGED <<conn, setup>>
    PROVE  PollerInv'
  BY DEF PollerInv, PollerConsistent, Alive

LEMMA FailAgain ==
    ASSUME PollerInv, NEW what, Fail(what)
    PROVE  PollerInv'
  BY SameAgain DEF Fail

LEMMA AtIsSane ==
    ASSUME PollerInv, NEW c \in Conns, NEW f, At(f, c)
    PROVE  Alive(c) /\ Sane(conn[c]) /\ conn[c].life = "alive"
  BY DEF At, PollerInv, PollerConsistent, Sane, Alive

-----------------------------------------------------------------------------
(* The actions that touch a connection.                                    *)

LEMMA InitPoller == Init => PollerInv
<1> SUFFICES ASSUME Init
             PROVE  PollerInv
  OBVIOUS
<1>1. conn = [c \in Conns |-> conn[c]] /\ \A c \in Conns : conn[c] = NewConnection
  BY DEF Init
<1>2. IsConnection(NewConnection)
  BY FieldsAre DEF NewConnection, IsConnection
<1>3. /\ NewConnection.life = "unborn" /\ NewConnection.index = "kNew"
      /\ NewConnection.mapped = FALSE /\ NewConnection.addToLoop = FALSE
      /\ NewConnection.registered = FALSE
  BY DEF NewConnection
<1>4. Consistent(NewConnection)
  BY <1>3, Zenon DEF Consistent
<1> QED BY <1>1, <1>2, <1>3, <1>4 DEF PollerInv, PollerConsistent

LEMMA ApartIsSane ==
    ASSUME NEW r, Sane(r), NEW v
    PROVE  /\ Sane([r EXCEPT !.state = v]) /\ [r EXCEPT !.state = v].life = r.life
           /\ Sane([r EXCEPT !.reading = v]) /\ [r EXCEPT !.reading = v].life = r.life
           /\ Sane([r EXCEPT !.out = v]) /\ [r EXCEPT !.out = v].life = r.life
  BY StateIsApart, SameIsConsistent DEF Sane

LEMMA SwitchIsSane ==
    ASSUME NEW r, Sane(r)
    PROVE  /\ Sane(EnableReading(r)) /\ EnableReading(r).life = r.life
           /\ Sane(DisableReading(r)) /\ DisableReading(r).life = r.life
           /\ Sane(EnableWriting(r)) /\ EnableWriting(r).life = r.life
           /\ Sane(DisableWriting(r)) /\ DisableWriting(r).life = r.life
           /\ Sane(DisableAll(r)) /\ DisableAll(r).life = r.life
  BY UpdateIsConsistent DEF EnableReading, DisableReading, EnableWriting,
     DisableWriting, DisableAll

LEMMA DestructorStep ==
    ASSUME PollerInv, NEW c \in Conns, Destructor(c)
    PROVE  PollerInv'
<1> DEFINE Dies == /\ conn' = [conn EXCEPT ![c] = [Unregister(@) EXCEPT !.life = "freed"]]
                   /\ UNCHANGED <<sock, stack, ioQueue, log, others>>
<1>1. ASSUME Dies, ~conn[c].addToLoop \/ ~setup.debug
      PROVE  PollerInv'
  <2>1. Alive(c) /\ conn[c].life = "alive" /\ setup' = setup
    BY <1>1 DEF Destructor, Orphans, Alive, others, constant
  <2>2. IsConnection(conn'[c]) /\ conn'[c].life = "freed" /\ conn'[c].mapped = conn[c].mapped
        /\ ~conn'[c].registered
    BY <1>1, FieldsAre DEF PollerInv, IsConnection, Unregister
  <2>3. conn[c].mapped => ~setup.debug
    BY <1>1, <2>1 DEF PollerInv, PollerConsistent, Consistent
  <2>4. /\ conn' = [d \in Conns |-> conn'[d]]
        /\ \A d \in Conns \ {c} : conn'[d] = conn[d]
    BY <1>1 DEF PollerInv
  <2> QED BY <2>1, <2>2, <2>3, <2>4 DEF PollerInv, PollerConsistent, Alive
<1> QED BY <1>1, FailAgain DEF Destructor, Asserting

LEMMA EstablishedStep ==
    ASSUME PollerInv, NEW c \in Conns, ConnectionEstablished(c)
    PROVE  PollerInv'
<1>1. Alive(c) /\ Sane(conn[c]) /\ conn[c].life = "alive"
  BY AtIsSane DEF ConnectionEstablished
<1>2. CASE UNCHANGED setup /\ conn' =
             [conn EXCEPT ![c] = EnableReading([@ EXCEPT !.state = "kConnected"])]
  <2> DEFINE moved == [conn[c] EXCEPT !.state = "kConnected"]
  <2>1. Sane(moved) /\ moved.life = "alive"
    BY <1>1, ApartIsSane
  <2>2. Sane(EnableReading(moved)) /\ EnableReading(moved).life = "alive"
    BY <2>1, SwitchIsSane
  <2> QED BY <1>1, <1>2, <2>2, SaneAgain
<1> QED BY <1>2, FailAgain DEF ConnectionEstablished, Asserting, others, constant

LEMMA DestroyStep ==
    ASSUME PollerInv, NEW c \in Conns, ConnectionDestroy(c)
    PROVE  PollerInv'
<1>1. Alive(c) /\ Sane(conn[c]) /\ conn[c].life = "alive" /\ UNCHANGED setup
  BY AtIsSane DEF ConnectionDestroy, others, constant
<1>2. CASE conn' = [conn EXCEPT ![c] = DisableAll([@ EXCEPT !.state = "kDisconnected"])]
  <2> DEFINE moved == [conn[c] EXCEPT !.state = "kDisconnected"]
  <2>1. Sane(moved) /\ moved.life = "alive"
    BY <1>1, ApartIsSane
  <2>2. Sane(DisableAll(moved)) /\ DisableAll(moved).life = "alive"
    BY <2>1, SwitchIsSane
  <2> QED BY <1>1, <1>2, <2>2, SaneAgain
<1>3. CASE conn' = conn
  BY <1>1, <1>3, SameAgain
<1> QED BY <1>2, <1>3 DEF ConnectionDestroy

LEMMA CloseStep ==
    ASSUME PollerInv, NEW c \in Conns, HandleClose(c)
    PROVE  PollerInv'
<1>1. Alive(c) /\ Sane(conn[c]) /\ conn[c].life = "alive"
  BY AtIsSane DEF HandleClose
<1>2. CASE UNCHANGED setup /\ conn' =
             [conn EXCEPT ![c] = DisableAll([@ EXCEPT !.state = "kDisconnected"])]
  <2> DEFINE moved == [conn[c] EXCEPT !.state = "kDisconnected"]
  <2>1. Sane(moved) /\ moved.life = "alive"
    BY <1>1, ApartIsSane
  <2>2. Sane(DisableAll(moved)) /\ DisableAll(moved).life = "alive"
    BY <2>1, SwitchIsSane
  <2> QED BY <1>1, <1>2, <2>2, SaneAgain
<1> QED BY <1>2, FailAgain DEF HandleClose, Asserting, others, constant

LEMMA RemoveStep ==
    ASSUME PollerInv, NEW c \in Conns, Remove(c)
    PROVE  PollerInv'
<1>1. Alive(c) /\ Sane(conn[c]) /\ conn[c].life = "alive"
  BY AtIsSane DEF Remove
<1>2. CASE UNCHANGED setup /\ conn' = [conn EXCEPT ![c] = RemoveChannel(@)]
  <2>1. LET r == RemoveChannel(conn[c]) IN Sane(r) /\ r.life = "alive"
    BY <1>1, RemoveIsConsistent
  <2> QED BY <1>1, <1>2, <2>1, SaneAgain
<1> QED BY <1>2, FailAgain DEF Remove, Asserting, others, constant

LEMMA ReadSwitchStep ==
    ASSUME PollerInv, NEW c \in Conns, StartReadInLoop(c) \/ StopReadInLoop(c)
    PROVE  PollerInv'
<1>1. Alive(c) /\ Sane(conn[c]) /\ conn[c].life = "alive" /\ UNCHANGED setup
  BY AtIsSane DEF StartReadInLoop, StopReadInLoop, others, constant
<1> DEFINE on    == [conn[c] EXCEPT !.reading = TRUE]
           off   == [conn[c] EXCEPT !.reading = FALSE]
           start == EnableReading(on)
           stop  == DisableReading(off)
<1>2. Sane(on) /\ on.life = "alive" /\ Sane(off) /\ off.life = "alive"
  BY <1>1, ApartIsSane
<1> HIDE DEF on, off
<1>3. /\ Sane(start) /\ start.life = "alive"
      /\ Sane(stop) /\ stop.life = "alive"
  BY <1>2, SwitchIsSane
<1> USE DEF on, off
<1>4. PICK r : /\ conn' = [conn EXCEPT ![c] = r]
               /\ r = start \/ r = stop \/ r = conn[c]
  BY DEF StartReadInLoop, StopReadInLoop, PollerInv
<1>5. Sane(r) /\ r.life = "alive"
  BY <1>1, <1>3, <1>4
<1> QED BY <1>1, <1>4, <1>5, SaneAgain

LEMMA SendStep ==
    ASSUME PollerInv, NEW c \in Conns, SendInLoop(c)
    PROVE  PollerInv'
<1>1. Alive(c) /\ Sane(conn[c]) /\ conn[c].life = "alive"
  BY AtIsSane DEF SendInLoop
<1>2. ASSUME UNCHANGED setup, NEW out, NEW r, conn' = [conn EXCEPT ![c] = r],
             \/ r = conn[c]
             \/ r = [conn[c] EXCEPT !.out = out]
             \/ r = EnableWriting([conn[c] EXCEPT !.out = out])
      PROVE  PollerInv'
  <2> DEFINE filled == [conn[c] EXCEPT !.out = out]
  <2>1. Sane(filled) /\ filled.life = "alive"
    BY <1>1, ApartIsSane
  <2>2. Sane(EnableWriting(filled)) /\ EnableWriting(filled).life = "alive"
    BY <2>1, SwitchIsSane
  <2> QED BY <1>1, <1>2, <2>1, <2>2, SaneAgain
<1> QED BY <1>2, FailAgain DEF SendInLoop, Asserting, others, constant

LEMMA WriteStep ==
    ASSUME PollerInv, NEW c \in Conns, HandleWrite(c)
    PROVE  PollerInv'
<1>1. Alive(c) /\ Sane(conn[c]) /\ conn[c].life = "alive" /\ UNCHANGED setup
  BY AtIsSane DEF HandleWrite, others, constant
<1>2. PICK out, r : /\ conn' = [conn EXCEPT ![c] = r]
                    /\ \/ r = [conn[c] EXCEPT !.out = out]
                       \/ r = DisableWriting([conn[c] EXCEPT !.out = out])
  BY DEF HandleWrite
<1> DEFINE left == [conn[c] EXCEPT !.out = out]
<1>3. Sane(left) /\ left.life = "alive"
  BY <1>1, ApartIsSane
<1>4. Sane(DisableWriting(left)) /\ DisableWriting(left).life = "alive"
  BY <1>3, SwitchIsSane
<1> QED BY <1>1, <1>2, <1>3, <1>4, SaneAgain

LEMMA AcceptStep ==
    ASSUME PollerInv, NEW c \in Conns, NewConnectionAccepted(c)
    PROVE  PollerInv'
<1>1. /\ conn[c].life = "unborn" /\ UNCHANGED setup
      /\ conn' = [conn EXCEPT ![c] = [@ EXCEPT !.life = "alive"]]
  BY DEF NewConnectionAccepted, constant
<1>2. IsConnection(conn'[c]) /\ conn'[c].life = "alive"
  BY <1>1, FieldsAre DEF PollerInv, IsConnection
<1>3. \A f \in {"events", "index", "addToLoop", "mapped", "registered", "interest"} :
        conn'[c][f] = conn[c][f]
  BY <1>1, FieldsAre DEF PollerInv, IsConnection
<1>4. Consistent(conn'[c])
  BY <1>1, <1>3 DEF PollerInv, PollerConsistent, Consistent, IsNoneEvent
<1>5. /\ conn' = [d \in Conns |-> conn'[d]]
      /\ \A d \in Conns \ {c} : conn'[d] = conn[d]
  BY <1>1 DEF PollerInv
<1> QED BY <1>1, <1>2, <1>4, <1>5 DEF PollerInv, PollerConsistent, Alive

-----------------------------------------------------------------------------
(* The actions of callers: they store kDisconnecting at most.              *)

LEMMA StoreAgain ==
    ASSUME PollerInv, NEW op, NEW c, Store(op, c), UNCHANGED setup
    PROVE  PollerInv'
<1>1. CASE Stores(op)
  BY <1>1, ApartAgain DEF Store
<1>2. CASE ~Stores(op)
  BY <1>2, SameAgain DEF Store
<1> QED BY <1>1, <1>2

LEMMA CallerStep ==
    ASSUME PollerInv, NEW c,
           \/ \E op \in Operations : CallFromCallback(op, c)
           \/ \E u \in Users : UserStore(u)
           \/ TimerExpires(c)
    PROVE  PollerInv'
  BY StoreAgain, SameAgain DEF CallFromCallback, UserStore, TimerExpires, constant

-----------------------------------------------------------------------------

LEMMA QuietStep ==
    ASSUME PollerInv,
           \/ UNCHANGED vars
           \/ \E c \in Conns :
                 \/ HandleRead(c) \/ HandleError(c) \/ SendGivesUp(c) \/ ShutdownInLoop(c)
                 \/ ForceCloseInLoop(c) \/ RemoveConnection(c) \/ HandleEventWithGuard(c)
                 \/ HandleEvent(c) \/ Drop(c) \/ Peer(c)
           \/ \E u \in Users, op \in Operations, c \in Conns : UserCheck(u, op, c)
           \/ \E u \in Users : UserPush(u)
           \/ \E k \in 1 .. calls : DataGoes(k)
           \/ CallbackReturns \/ Poll \/ CheckQuit \/ UseAfterFree \/ SwapFunctors
           \/ RunFunctor \/ EndFunctors \/ LoopDestructor \/ BaseStep \/ ServerDestructor
           \/ QuitIoLoop
    PROVE  PollerInv'
<1>1. ASSUME NEW c \in Conns, RemoveConnectionInLoop(c)
      PROVE  PollerInv'
  BY <1>1, SameAgain, FailAgain DEF RemoveConnectionInLoop, Asserting, objects, constant
<1>2. ASSUME NEW c \in Conns,
             \/ HandleRead(c) \/ HandleError(c) \/ SendGivesUp(c) \/ ShutdownInLoop(c)
             \/ ForceCloseInLoop(c) \/ HandleEventWithGuard(c)
             \/ HandleEvent(c) \/ Drop(c) \/ Peer(c)
      PROVE  UNCHANGED <<conn, setup>>
  BY <1>2 DEF HandleRead, HandleError, SendGivesUp, ShutdownInLoop, ForceCloseInLoop,
     HandleEventWithGuard, HandleEvent, Drop, Peer, objects, others, constant
<1>3. ASSUME \/ UNCHANGED vars
             \/ \E u \in Users, op \in Operations, c \in Conns : UserCheck(u, op, c)
             \/ \E u \in Users : UserPush(u)
             \/ \E k \in 1 .. calls : DataGoes(k)
             \/ CallbackReturns \/ Poll \/ CheckQuit \/ SwapFunctors \/ RunFunctor
             \/ EndFunctors \/ LoopDestructor \/ ServerDestructor \/ QuitIoLoop
      PROVE  UNCHANGED <<conn, setup>>
  BY <1>3 DEF vars, UserCheck, UserPush, DataGoes, CallbackReturns, Poll, CheckQuit, SwapFunctors,
     RunFunctor, EndFunctors, LoopDestructor, ServerDestructor, QuitIoLoop, objects, others,
     constant
<1>4. ASSUME NEW c \in Conns, RemoveConnection(c)
      PROVE  PollerInv'
  BY <1>1, <1>4, SameAgain DEF RemoveConnection, objects, constant
<1>5. ASSUME BaseStep
      PROVE  PollerInv'
  BY <1>5, SameAgain, FailAgain DEF BaseStep, RemoveConnectionInLoop, Asserting, objects, constant
<1>6. ASSUME UseAfterFree
      PROVE  PollerInv'
  BY <1>6, FailAgain DEF UseAfterFree
<1> QED BY <1>2, <1>3, <1>4, <1>5, <1>6, SameAgain

LEMMA PollerStep == PollerInv /\ [Next]_vars => PollerInv'
<1> SUFFICES ASSUME PollerInv, [Next]_vars
             PROVE  PollerInv'
  OBVIOUS
<1>1. ASSUME NEW c \in Conns, Body(c)
      PROVE  PollerInv'
  BY <1>1, EstablishedStep, DestroyStep, RemoveStep, CloseStep, WriteStep, SendStep,
     ReadSwitchStep, QuietStep DEF Body
<1>2. ASSUME IoStep
      PROVE  PollerInv'
  BY <1>1, <1>2, DestructorStep, CallerStep, QuietStep DEF IoStep
<1>3. ASSUME NEW u \in Users, UserStep(u)
      PROVE  PollerInv'
  BY <1>3, CallerStep, QuietStep DEF UserStep
<1> QED BY <1>2, <1>3, CallerStep, AcceptStep, QuietStep DEF Next

\* At every step the poller's map, the indices of the channels and the kernel's epoll
\* set agree, whatever the users of the connections do; with assertions the poller
\* never has the channel of a destroyed connection.
THEOREM PollerAlwaysConsistent == Spec => []PollerConsistent
<1>1. PollerInv => PollerConsistent
  BY DEF PollerInv
<1> QED BY <1>1, InitPoller, PollerStep, PTL DEF Spec

-----------------------------------------------------------------------------
(* The types of the variables, and the order of the data.                  *)

Connections ==
    [life : {"unborn", "alive", "freed"}, state : States, reading : BOOLEAN, out : Seq(Nat),
     events : SUBSET Interest, index : Indices, addToLoop : BOOLEAN, mapped : BOOLEAN,
     registered : BOOLEAN, interest : SUBSET Interest]

Sockets ==
    [rcv : BOOLEAN, fin : BOOLEAN, rst : BOOLEAN, err : BOOLEAN, wrShut : BOOLEAN,
     wire : Seq(Nat), accepted : Nat]

Callable == Operations \ {"keep"}

UserCalls ==
    [op : {"none"}]
    \cup [op : Callable, c : Conns, n : 0 .. MaxSend, from : Nat, at : {"store", "push"}]

\* Unit i of the data from the first one on, or other bytes if some data has gone.
IsUnit(v, i, gone) == v = i \/ (v = 0 /\ gone # {})

\* A sequence of n units in order.
Units(s, n, gone) == Len(s) = n /\ \A i \in 1 .. n : IsUnit(s[i], i, gone)

\* What is written, and then what is buffered, is what was accepted, in order.
InOrder(k, r, gone) == Units(k.wire \o r.out, k.accepted, gone)

DataInv ==
    /\ conn \in [Conns -> Connections]
    /\ sock \in [Conns -> Sockets]
    /\ \A c \in Conns : InOrder(sock[c], conn[c], reused)

LoopTypes ==
    /\ stack \in Seq(FunctionType) /\ running \in Seq(FunctionType) /\ ioQueue \in Seq(FunctionType)
    /\ next \in 1 .. Len(running) + 1
    /\ phase \in {"check", "poll", "events", "functors", "exited"}
    /\ active \in [Conns -> SUBSET {"ERR", "IN", "OUT"}]

ServerTypes ==
    /\ setup \in SetupType
    /\ inMap \in SUBSET Conns /\ IsFiniteSet(inMap)
    /\ baseQueue \in Seq(Conns)
    /\ server \in {"running", "stopping", "stopped"}

UserTypes ==
    /\ timers \in SUBSET Conns /\ userRef \in SUBSET Conns
    /\ userCall \in [Users -> UserCalls]
    /\ calls \in 0 .. setup.maxCalls /\ reused \subseteq 1 .. setup.maxCalls

ConnInv == DataInv /\ LoopTypes /\ ServerTypes /\ UserTypes

\* Channelff::update leaves what is not of the channel, and the channel its type.
LEMMA UpdateIsTyped ==
    ASSUME NEW r \in Connections, NEW e \in SUBSET Interest
    PROVE  LET ch == Update([r EXCEPT !.events = e])
           IN  /\ ch \in Connections /\ ch.out = r.out /\ ch.state = r.state
               /\ ch.life = r.life /\ ch.events = e
<1> DEFINE s == [r EXCEPT !.events = e]
           t == [s EXCEPT !.addToLoop = TRUE]
<1>1. s \in Connections /\ s.out = r.out /\ s.state = r.state /\ s.life = r.life /\ s.events = e
  BY DEF Connections
<1> HIDE DEF s
<1>2. t \in Connections
  BY <1>1 DEF Connections
<1>3. t.out = s.out /\ t.state = s.state /\ t.life = s.life /\ t.events = s.events
  BY <1>1 DEF Connections
<1> HIDE DEF t
<1>4. ASSUME NEW v \in BOOLEAN, NEW i \in SUBSET Interest, NEW q \in Connections
      PROVE  LET u == [[q EXCEPT !.registered = v] EXCEPT !.interest = i]
             IN  /\ u \in Connections /\ u.out = q.out /\ u.state = q.state
                 /\ u.life = q.life /\ u.events = q.events
  <2> DEFINE a == [q EXCEPT !.registered = v]
             b == [a EXCEPT !.interest = i]
  <2>1. a \in Connections
    BY DEF Connections
  <2>2. a.out = q.out /\ a.state = q.state /\ a.life = q.life /\ a.events = q.events
    BY DEF Connections
  <2> HIDE DEF a
  <2>3. b \in Connections
    BY <2>1 DEF Connections
  <2>4. b.out = a.out /\ b.state = a.state /\ b.life = a.life /\ b.events = a.events
    BY <2>1 DEF Connections
  <2> QED BY <2>2, <2>3, <2>4 DEF a
<1>5. ASSUME NEW i \in Indices, NEW v \in BOOLEAN, NEW q \in Connections
      PROVE  LET u == [[q EXCEPT !.index = i] EXCEPT !.mapped = v]
                 w == [q EXCEPT !.index = i]
             IN  /\ u \in Connections /\ u.out = q.out /\ u.state = q.state
                 /\ u.life = q.life /\ u.events = q.events
                 /\ w \in Connections /\ w.out = q.out /\ w.state = q.state
                 /\ w.life = q.life /\ w.events = q.events
  <2> DEFINE a == [q EXCEPT !.index = i]
             b == [a EXCEPT !.mapped = v]
  <2>1. a \in Connections
    BY DEF Connections
  <2>2. a.out = q.out /\ a.state = q.state /\ a.life = q.life /\ a.events = q.events
    BY DEF Connections
  <2> HIDE DEF a
  <2>3. b \in Connections
    BY <2>1 DEF Connections
  <2>4. b.out = a.out /\ b.state = a.state /\ b.life = a.life /\ b.events = a.events
    BY <2>1 DEF Connections
  <2> QED BY <2>1, <2>2, <2>3, <2>4 DEF a
<1>6. UpdateChannel(t) \in Connections /\ UpdateChannel(t).out = t.out
      /\ UpdateChannel(t).state = t.state /\ UpdateChannel(t).life = t.life
      /\ UpdateChannel(t).events = t.events
  <2> DEFINE del == Unregister(t)
             add == Register(t)
  <2>1. t.events \in SUBSET Interest /\ {} \in SUBSET Interest
    BY <1>2 DEF Connections
  <2>2. /\ del \in Connections /\ del.out = t.out /\ del.state = t.state
        /\ del.life = t.life /\ del.events = t.events
    BY <1>2, <1>4, <2>1 DEF Unregister, NoInterest
  <2>3. /\ add \in Connections /\ add.out = t.out /\ add.state = t.state
        /\ add.life = t.life /\ add.events = t.events
    BY <1>2, <1>4, <2>1 DEF Register
  <2> HIDE DEF del, add
  <2>4. "kDeleted" \in Indices /\ "kAdded" \in Indices
    BY DEF Indices
  <2>5. LET u == [del EXCEPT !.index = "kDeleted"]
        IN  /\ u \in Connections /\ u.out = t.out /\ u.state = t.state
            /\ u.life = t.life /\ u.events = t.events
    BY <1>5, <2>2, <2>4
  <2>6. LET u == [add EXCEPT !.index = "kAdded", !.mapped = TRUE]
        IN  /\ u \in Connections /\ u.out = t.out /\ u.state = t.state
            /\ u.life = t.life /\ u.events = t.events
    BY <1>5, <2>3, <2>4
  <2> QED BY <2>5, <2>6 DEF UpdateChannel, del, add
<1> QED BY <1>1, <1>3, <1>6 DEF Update, s, t

LEMMA SwitchIsTyped ==
    ASSUME NEW r \in Connections,
           NEW ch \in {EnableReading(r), DisableReading(r), EnableWriting(r), DisableWriting(r),
                       DisableAll(r)}
    PROVE  ch \in Connections /\ ch.out = r.out /\ ch.state = r.state /\ ch.life = r.life
<1>1. r.events \in SUBSET Interest
  BY DEF Connections
<1>2. /\ r.events \cup {"IN"} \in SUBSET Interest /\ r.events \ {"IN"} \in SUBSET Interest
      /\ r.events \cup {"OUT"} \in SUBSET Interest /\ r.events \ {"OUT"} \in SUBSET Interest
      /\ NoInterest \in SUBSET Interest
  BY <1>1 DEF Interest, NoInterest
<1> QED BY <1>2, UpdateIsTyped DEF EnableReading, DisableReading, EnableWriting, DisableWriting,
     DisableAll

LEMMA RemoveIsTyped ==
    ASSUME NEW r \in Connections
    PROVE  LET ch == RemoveChannel(r)
           IN  ch \in Connections /\ ch.out = r.out /\ ch.state = r.state /\ ch.life = r.life
<1> DEFINE a == [r EXCEPT !.registered = FALSE]
           b == [a EXCEPT !.interest = NoInterest]
<1>1. a \in Connections
  BY DEF Connections
<1>2. a.out = r.out /\ a.state = r.state /\ a.life = r.life
  BY DEF Connections
<1> HIDE DEF a
<1>3. b \in Connections
  BY <1>1 DEF Connections, NoInterest
<1>4. b.out = a.out /\ b.state = a.state /\ b.life = a.life
  BY <1>1 DEF Connections
<1> HIDE DEF b
<1>5. ASSUME NEW q \in Connections
      PROVE  LET u == [q EXCEPT !.addToLoop = FALSE, !.mapped = FALSE, !.index = "kNew"]
             IN  u \in Connections /\ u.out = q.out /\ u.state = q.state /\ u.life = q.life
  <2> DEFINE x == [q EXCEPT !.addToLoop = FALSE]
             y == [x EXCEPT !.mapped = FALSE]
             z == [y EXCEPT !.index = "kNew"]
  <2>1. x \in Connections
    BY DEF Connections
  <2>2. x.out = q.out /\ x.state = q.state /\ x.life = q.life
    BY DEF Connections
  <2> HIDE DEF x
  <2>3. y \in Connections
    BY <2>1 DEF Connections
  <2>4. y.out = x.out /\ y.state = x.state /\ y.life = x.life
    BY <2>1 DEF Connections
  <2> HIDE DEF y
  <2>5. z \in Connections
    BY <2>3 DEF Connections, Indices
  <2>6. z.out = y.out /\ z.state = y.state /\ z.life = y.life
    BY <2>3 DEF Connections
  <2> QED BY <2>2, <2>4, <2>5, <2>6 DEF x, y
<1> QED BY <1>2, <1>3, <1>4, <1>5 DEF RemoveChannel, Unregister, a, b

LEMMA FieldsAreTyped ==
    ASSUME NEW r \in Connections
    PROVE  /\ \A v \in States : LET s == [r EXCEPT !.state = v]
                                IN  s \in Connections /\ s.out = r.out
                                    /\ s.state = v /\ s.life = r.life
           /\ \A v \in BOOLEAN : LET s == [r EXCEPT !.reading = v]
                                 IN  s \in Connections /\ s.out = r.out
                                     /\ s.state = r.state /\ s.life = r.life
           /\ \A v \in Seq(Nat) : LET s == [r EXCEPT !.out = v]
                                  IN  s \in Connections /\ s.out = v
                                      /\ s.state = r.state /\ s.life = r.life
           /\ \A v \in {"alive", "freed"} : LET s == [r EXCEPT !.life = v]
                                  IN  s \in Connections /\ s.out = r.out
                                      /\ s.state = r.state /\ s.life = v
<1>1. ASSUME NEW v \in States
      PROVE  [r EXCEPT !.state = v] \in Connections
  BY DEF Connections
<1>2. ASSUME NEW v \in BOOLEAN
      PROVE  [r EXCEPT !.reading = v] \in Connections
  BY DEF Connections
<1>3. ASSUME NEW v \in Seq(Nat)
      PROVE  [r EXCEPT !.out = v] \in Connections
  BY DEF Connections
<1>4. ASSUME NEW v \in {"alive", "freed"}
      PROVE  [r EXCEPT !.life = v] \in Connections
  BY DEF Connections
<1>5. ASSUME NEW v
      PROVE  /\ LET s == [r EXCEPT !.state = v]
                IN  s.out = r.out /\ s.state = v /\ s.life = r.life
             /\ LET s == [r EXCEPT !.reading = v]
                IN  s.out = r.out /\ s.state = r.state /\ s.life = r.life
             /\ LET s == [r EXCEPT !.out = v]
                IN  s.out = v /\ s.state = r.state /\ s.life = r.life
             /\ LET s == [r EXCEPT !.life = v]
                IN  s.out = r.out /\ s.state = r.state /\ s.life = v
  BY DEF Connections
<1> QED BY <1>1, <1>2, <1>3, <1>4, <1>5

\* A function that returns leaves a stack of functions.
LEMMA ReturnIsTyped ==
    ASSUME LoopTypes, stack # << >>
    PROVE  /\ Head(stack) \in FunctionType /\ Tail(stack) \in Seq(FunctionType)
           /\ Return(<< >>) => stack' \in Seq(FunctionType)
           /\ \A f \in FunctionType : Return(<<f>>) => stack' \in Seq(FunctionType)
           /\ \A f, g \in FunctionType : Return(<<f, g>>) => stack' \in Seq(FunctionType)
<1>1. Head(stack) \in FunctionType /\ Tail(stack) \in Seq(FunctionType)
  BY DEF LoopTypes
<1>2. ASSUME NEW f \in FunctionType, NEW g \in FunctionType
      PROVE  << >> \in Seq(FunctionType) /\ <<f>> \in Seq(FunctionType)
             /\ <<f, g>> \in Seq(FunctionType)
  BY <1>2
<1>3. ASSUME NEW fs \in Seq(FunctionType), Return(fs)
      PROVE  stack' \in Seq(FunctionType)
  BY <1>1, <1>3, ConcatProperties DEF Return
<1> QED BY <1>1, <1>2, <1>3

LEMMA FunctionIsTyped ==
    ASSUME NEW f \in Functions, NEW c \in Conns, NEW held \in BOOLEAN
    PROVE  Function(f, c, held) \in FunctionType
  BY BoundsAssumption DEF Function, FunctionType

LEMMA InLoopIsTyped ==
    ASSUME NEW op \in Callable \ {"forceCloseWithDelay"}, NEW c \in Conns, NEW n \in 0 .. MaxSend,
           NEW from \in Nat
    PROVE  InLoop(op, c, n, from) \in FunctionType
  BY DEF InLoop, FunctionType, Functions, Callable, Operations

LEMMA Associative ==
    \A s, t, u \in Seq(Nat) : (s \o t) \o u = s \o (t \o u)
<1> SUFFICES ASSUME NEW s \in Seq(Nat), NEW t \in Seq(Nat), NEW u \in Seq(Nat)
             PROVE  (s \o t) \o u = s \o (t \o u)
  OBVIOUS
<1> QED BY ConcatAssociative, SMTT(30)

\* A sequence is what it begins with and the rest.
LEMMA SplitAt ==
    ASSUME NEW S, NEW s \in Seq(S), NEW w \in 0 .. Len(s)
    PROVE  /\ SubSeq(s, 1, w) \in Seq(S) /\ SubSeq(s, w + 1, Len(s)) \in Seq(S)
           /\ SubSeq(s, 1, w) \o SubSeq(s, w + 1, Len(s)) = s
<1> DEFINE a == SubSeq(s, 1, w)
           b == SubSeq(s, w + 1, Len(s))
<1>1. a \in Seq(S) /\ b \in Seq(S)
  OBVIOUS
<1>2. Len(a) = w /\ Len(b) = Len(s) - w
  OBVIOUS
<1>3. (\A i \in 1 .. w : a[i] = s[i]) /\ (\A i \in 1 .. Len(s) - w : b[i] = s[i + w])
  OBVIOUS
<1> HIDE DEF a, b
<1>4. ASSUME NEW i \in 1 .. Len(s)
      PROVE  (a \o b)[i] = s[i]
  <2>1. (a \o b)[i] = IF i <= w THEN a[i] ELSE b[i - w]
    BY <1>1, <1>2, ConcatProperties
  <2>2. i > w => i - w \in 1 .. Len(s) - w /\ (i - w) + w = i
    OBVIOUS
  <2> QED BY <1>3, <2>1, <2>2
<1>5. a \o b \in Seq(S) /\ Len(a \o b) = Len(s)
  <2>1. a \o b \in Seq(S) /\ Len(a \o b) = Len(a) + Len(b)
    BY <1>1, ConcatProperties
  <2> QED BY <1>2, <2>1
<1>6. a \o b = s
  BY <1>4, <1>5, SeqEqual
<1> QED BY <1>1, <1>6 DEF a, b

\* Of n units the first w are written and the rest waits; or all of the data waits.
LEMMA SendIsInOrder ==
    ASSUME NEW a \in Nat, NEW wire \in Seq(Nat), NEW out \in Seq(Nat), NEW gone,
           Units(wire \o out, a, gone),
           NEW n \in Nat, NEW w \in 0 .. n, out = << >> \/ w = 0,
           NEW data \in Seq(Nat), Len(data) = n, \A i \in 1 .. n : IsUnit(data[i], a + i, gone)
    PROVE  /\ SubSeq(data, 1, w) \in Seq(Nat) /\ SubSeq(data, w + 1, n) \in Seq(Nat)
           /\ Units((wire \o SubSeq(data, 1, w)) \o (out \o SubSeq(data, w + 1, n)), a + n, gone)
           /\ w = n => Units((wire \o SubSeq(data, 1, w)) \o out, a + n, gone)
<1> DEFINE done == SubSeq(data, 1, w)
           rest == SubSeq(data, w + 1, n)
<1>1. data \in Seq(Nat) /\ Len(data) = n /\ \A i \in 1 .. n : IsUnit(data[i], a + i, gone)
  OBVIOUS
<1>2. done \in Seq(Nat) /\ rest \in Seq(Nat) /\ done \o rest = data
  <2>1. w \in 0 .. Len(data) /\ rest = SubSeq(data, w + 1, Len(data))
    BY <1>1
  <2> QED BY <1>1, <2>1, SplitAt
<1>4. Units((wire \o out) \o data, a + n, gone)
  <2> DEFINE all == wire \o out
  <2>1. all \in Seq(Nat) /\ Len(all) = a /\ \A i \in 1 .. a : IsUnit(all[i], i, gone)
    BY ConcatProperties DEF Units
  <2> HIDE DEF all
  <2>2. all \o data \in Seq(Nat) /\ Len(all \o data) = a + n
    BY <1>1, <2>1, ConcatProperties
  <2>4. ASSUME NEW i \in 1 .. a + n
        PROVE  IsUnit((all \o data)[i], i, gone)
    <3>1. (all \o data)[i] = IF i <= a THEN all[i] ELSE data[i - a]
      BY <1>1, <2>1, ConcatProperties
    <3>2. i > a => i - a \in 1 .. n /\ a + (i - a) = i
      OBVIOUS
    <3>3. i > a => IsUnit(data[i - a], i, gone)
      BY <1>1, <3>2
    <3>4. i <= a => IsUnit(all[i], i, gone)
      BY <2>1
    <3> QED BY <3>1, <3>3, <3>4
  <2>5. Units(all \o data, a + n, gone)
    BY <2>2, <2>4 DEF Units
  <2> QED BY <2>5 DEF all
<1>5. w = 0 => done = << >> /\ rest = data
  <2> SUFFICES ASSUME w = 0 PROVE done = << >> /\ rest = data
    OBVIOUS
  <2>1. done = << >> /\ rest = SubSeq(data, 1, Len(data))
    BY <1>1, SubSeqEmpty
  <2> QED BY <1>1, <2>1, SubSeqFull
<1>6. w = n => rest = << >>
  BY SubSeqEmpty
<1>7. data \in Seq(Nat) /\ done \in Seq(Nat) /\ rest \in Seq(Nat)
  BY <1>1, <1>2
<1> HIDE DEF done, rest
<1>8. (wire \o done) \o (out \o rest) = (wire \o out) \o data
  <2>1. CASE out = << >>
    <3>1. (wire \o done) \o rest = wire \o (done \o rest)
      BY <1>7, Associative, Zenon
    <3>2. wire \o out = wire /\ out \o rest = rest
      BY <1>7, <2>1, ConcatEmptySeq
    <3> QED BY <1>2, <3>1, <3>2
  <2>2. CASE w = 0
    <3>1. (wire \o out) \o data = wire \o (out \o data)
      BY <1>7, Associative, Zenon
    <3>2. wire \o << >> = wire
      BY ConcatEmptySeq
    <3> QED BY <1>5, <2>2, <3>1, <3>2
  <2> QED BY <2>1, <2>2
<1>9. w = n => (wire \o done) \o out = (wire \o done) \o (out \o rest)
  BY <1>6, ConcatEmptySeq
<1> QED BY <1>4, <1>7, <1>8, <1>9 DEF done, rest

LEMMA WriteIsInOrder ==
    ASSUME NEW wire \in Seq(Nat), NEW out \in Seq(Nat), NEW w \in 0 .. Len(out)
    PROVE  /\ SubSeq(out, 1, w) \in Seq(Nat) /\ SubSeq(out, w + 1, Len(out)) \in Seq(Nat)
           /\ (wire \o SubSeq(out, 1, w)) \o SubSeq(out, w + 1, Len(out)) = wire \o out
<1> DEFINE done == SubSeq(out, 1, w)
           rest == SubSeq(out, w + 1, Len(out))
<1>1. done \in Seq(Nat) /\ rest \in Seq(Nat)
  BY SplitAt
<1>2. done \o rest = out
  BY SplitAt
<1> HIDE DEF done, rest
<1>3. (wire \o done) \o rest = wire \o (done \o rest)
  BY <1>1, Associative, Zenon
<1> QED BY <1>1, <1>2, <1>3 DEF done, rest

-----------------------------------------------------------------------------
(* The data of one connection changes at a time.                           *)

LEMMA DataAgain ==
    ASSUME DataInv, NEW c \in Conns, NEW r \in Connections, NEW k \in Sockets, InOrder(k, r, reused),
           conn' = [conn EXCEPT ![c] = r], sock' = [sock EXCEPT ![c] = k], reused' = reused
    PROVE  DataInv'
<1>1. conn' \in [Conns -> Connections] /\ sock' \in [Conns -> Sockets]
  BY DEF DataInv
<1>2. ASSUME NEW d \in Conns
      PROVE  InOrder(sock'[d], conn'[d], reused')
  <2>1. CASE d = c
    BY <2>1 DEF DataInv
  <2>2. CASE d # c
    <3>1. sock'[d] = sock[d] /\ conn'[d] = conn[d]
      BY <2>2 DEF DataInv
    <3> QED BY <3>1 DEF DataInv
  <2> QED BY <2>1, <2>2
<1> QED BY <1>1, <1>2 DEF DataInv

LEMMA SameDataAgain ==
    ASSUME DataInv, UNCHANGED <<conn, sock>>, reused' = reused
    PROVE  DataInv'
  BY DEF DataInv

LEMMA ConnAgain ==
    ASSUME DataInv, NEW c \in Conns, NEW r \in Connections, r.out = conn[c].out,
           conn' = [conn EXCEPT ![c] = r], sock' = sock, reused' = reused
    PROVE  DataInv'
<1>1. sock' = [sock EXCEPT ![c] = sock[c]] /\ sock[c] \in Sockets
  BY DEF DataInv
<1>2. InOrder(sock[c], r, reused)
  BY DEF DataInv, InOrder
<1> QED BY <1>1, <1>2, DataAgain

LEMMA SockAgain ==
    ASSUME DataInv, NEW c \in Conns, NEW k \in Sockets, k.wire = sock[c].wire,
           k.accepted = sock[c].accepted, conn' = conn, sock' = [sock EXCEPT ![c] = k],
           reused' = reused
    PROVE  DataInv'
<1>1. conn' = [conn EXCEPT ![c] = conn[c]] /\ conn[c] \in Connections
  BY DEF DataInv
<1>2. InOrder(k, conn[c], reused)
  BY DEF DataInv, InOrder
<1> QED BY <1>1, <1>2, DataAgain

LEMMA FlagsAreTyped ==
    ASSUME NEW k \in Sockets, NEW v \in BOOLEAN,
           NEW s \in {[k EXCEPT !.rcv = v], [k EXCEPT !.fin = v], [k EXCEPT !.rst = v],
                      [k EXCEPT !.err = v], [k EXCEPT !.wrShut = v]}
    PROVE  s \in Sockets /\ s.wire = k.wire /\ s.accepted = k.accepted
<1>1. /\ [k EXCEPT !.rcv = v] \in Sockets /\ [k EXCEPT !.fin = v] \in Sockets
      /\ [k EXCEPT !.rst = v] \in Sockets /\ [k EXCEPT !.err = v] \in Sockets
      /\ [k EXCEPT !.wrShut = v] \in Sockets
  BY DEF Sockets
<1> QED BY <1>1 DEF Sockets

LEMMA SockSteps ==
    ASSUME DataInv, NEW c \in Conns,
           HandleRead(c) \/ HandleError(c) \/ ShutdownInLoop(c) \/ Peer(c), reused' = reused
    PROVE  DataInv'
<1>1. sock[c] \in Sockets
  BY DEF DataInv
<1>2. CASE HandleRead(c)
  <2>1. conn' = conn /\ (sock' = sock \/ sock' = [sock EXCEPT ![c] = [@ EXCEPT !.rcv = FALSE]])
    BY <1>2 DEF HandleRead
  <2> QED BY <1>1, <2>1, FlagsAreTyped, SockAgain, SameDataAgain
<1>3. CASE HandleError(c)
  <2>1. conn' = conn /\ sock' = [sock EXCEPT ![c] = [@ EXCEPT !.err = FALSE]]
    BY <1>3 DEF HandleError
  <2> QED BY <1>1, <2>1, FlagsAreTyped, SockAgain
<1>4. CASE ShutdownInLoop(c)
  <2> DEFINE v == sock[c].wrShut \/ ~IsWriting(conn[c])
  <2>1. conn' = conn /\ sock' = [sock EXCEPT ![c] = [@ EXCEPT !.wrShut = v]] /\ v \in BOOLEAN
    BY <1>4 DEF ShutdownInLoop
  <2> QED BY <1>1, <2>1, FlagsAreTyped, SockAgain
<1>5. CASE Peer(c)
  <2>1. conn' = conn
    BY <1>5 DEF Peer
  <2>2. CASE sock' = [sock EXCEPT ![c] = [@ EXCEPT !.rcv = TRUE]]
    BY <1>1, <2>1, <2>2, FlagsAreTyped, SockAgain
  <2>3. CASE sock' = [sock EXCEPT ![c] = [@ EXCEPT !.fin = TRUE]]
    BY <1>1, <2>1, <2>3, FlagsAreTyped, SockAgain
  <2>4. CASE sock' = [sock EXCEPT ![c] = [@ EXCEPT !.rst = TRUE, !.err = TRUE, !.rcv = FALSE]]
    <3> DEFINE a == [sock[c] EXCEPT !.rst = TRUE]
               b == [a EXCEPT !.err = TRUE]
               d == [b EXCEPT !.rcv = FALSE]
    <3>1. a \in Sockets /\ a.wire = sock[c].wire /\ a.accepted = sock[c].accepted
      BY <1>1, FlagsAreTyped
    <3> HIDE DEF a
    <3>2. b \in Sockets /\ b.wire = a.wire /\ b.accepted = a.accepted
      BY <3>1, FlagsAreTyped
    <3> HIDE DEF b
    <3>3. d \in Sockets /\ d.wire = b.wire /\ d.accepted = b.accepted
      BY <3>2, FlagsAreTyped
    <3>4. sock' = [sock EXCEPT ![c] = d]
      BY <2>4 DEF a, b
    <3> HIDE DEF d
    <3> QED BY <2>1, <3>1, <3>2, <3>3, <3>4, SockAgain
  <2>5. sock' \in {[sock EXCEPT ![c].rcv = TRUE], [sock EXCEPT ![c].fin = TRUE],
                   [sock EXCEPT ![c].rst = TRUE, ![c].err = TRUE, ![c].rcv = FALSE]}
    BY <1>5 DEF Peer
  <2>6. [sock EXCEPT ![c].rst = TRUE, ![c].err = TRUE, ![c].rcv = FALSE]
           = [sock EXCEPT ![c] = [@ EXCEPT !.rst = TRUE, !.err = TRUE, !.rcv = FALSE]]
    BY DEF DataInv
  <2> QED BY <2>2, <2>3, <2>4, <2>5, <2>6
<1> QED BY <1>2, <1>3, <1>4, <1>5

LEMMA ConnSteps ==
    ASSUME DataInv, NEW c \in Conns,
           \/ Destructor(c) \/ ConnectionEstablished(c) \/ ConnectionDestroy(c) \/ Remove(c)
           \/ HandleClose(c) \/ StartReadInLoop(c) \/ StopReadInLoop(c)
           \/ NewConnectionAccepted(c),
           reused' = reused
    PROVE  DataInv'
<1> DEFINE r == conn[c]
           up == EnableReading([r EXCEPT !.state = "kConnected"])
           down == DisableAll([r EXCEPT !.state = "kDisconnected"])
           on == EnableReading([r EXCEPT !.reading = TRUE])
           off == DisableReading([r EXCEPT !.reading = FALSE])
           out == RemoveChannel(r)
           freed == [Unregister(r) EXCEPT !.life = "freed"]
           born == [r EXCEPT !.life = "alive"]
<1>1. r \in Connections
  BY DEF DataInv
<1>2. up \in Connections /\ up.out = r.out
  <2> DEFINE s == [r EXCEPT !.state = "kConnected"]
  <2>1. s \in Connections /\ s.out = r.out
    BY <1>1, FieldsAreTyped DEF States
  <2> HIDE DEF s
  <2>2. EnableReading(s) \in Connections /\ EnableReading(s).out = s.out
    BY <2>1, SwitchIsTyped
  <2> QED BY <2>1, <2>2 DEF s
<1>3. down \in Connections /\ down.out = r.out
  <2> DEFINE s == [r EXCEPT !.state = "kDisconnected"]
  <2>1. s \in Connections /\ s.out = r.out
    BY <1>1, FieldsAreTyped DEF States
  <2> HIDE DEF s
  <2>2. DisableAll(s) \in Connections /\ DisableAll(s).out = s.out
    BY <2>1, SwitchIsTyped
  <2> QED BY <2>1, <2>2 DEF s
<1>4. on \in Connections /\ on.out = r.out
  <2> DEFINE s == [r EXCEPT !.reading = TRUE]
  <2>1. s \in Connections /\ s.out = r.out
    BY <1>1, FieldsAreTyped
  <2> HIDE DEF s
  <2>2. EnableReading(s) \in Connections /\ EnableReading(s).out = s.out
    BY <2>1, SwitchIsTyped
  <2> QED BY <2>1, <2>2 DEF s
<1>10. off \in Connections /\ off.out = r.out
  <2> DEFINE s == [r EXCEPT !.reading = FALSE]
  <2>1. s \in Connections /\ s.out = r.out
    BY <1>1, FieldsAreTyped
  <2> HIDE DEF s
  <2>2. DisableReading(s) \in Connections /\ DisableReading(s).out = s.out
    BY <2>1, SwitchIsTyped
  <2> QED BY <2>1, <2>2 DEF s
<1>5. out \in Connections /\ out.out = r.out
  BY <1>1, RemoveIsTyped
<1>6. born \in Connections /\ born.out = r.out
  BY <1>1, FieldsAreTyped
<1>7. freed \in Connections /\ freed.out = r.out
  <2> DEFINE a == [r EXCEPT !.registered = FALSE]
             b == [a EXCEPT !.interest = NoInterest]
  <2>1. a \in Connections /\ a.out = r.out
    BY <1>1 DEF Connections
  <2> HIDE DEF a
  <2>2. b \in Connections
    BY <2>1 DEF Connections, NoInterest
  <2>3. b.out = a.out
    BY <2>1 DEF Connections
  <2>4. b = Unregister(r)
    BY DEF Unregister, a
  <2> HIDE DEF b
  <2> QED BY <2>1, <2>2, <2>3, <2>4, FieldsAreTyped
<1> HIDE DEF up, down, on, off, out, freed, born
<1>8. \/ UNCHANGED <<conn, sock>>
      \/ /\ sock' = sock
         /\ \E s \in {up, down, on, off, out, freed, born, r} : conn' = [conn EXCEPT ![c] = s]
  <2>1. conn = [conn EXCEPT ![c] = r]
    BY DEF DataInv
  <2> QED BY <2>1 DEF Destructor, ConnectionEstablished, ConnectionDestroy, Remove, HandleClose,
       StartReadInLoop, StopReadInLoop, NewConnectionAccepted, Asserting, Fail,
       up, down, on, off, out, freed, born
<1> HIDE DEF r
<1>9. r.out = conn[c].out
  BY DEF r
<1> QED BY <1>1, <1>2, <1>3, <1>4, <1>5, <1>6, <1>7, <1>8, <1>9, <1>10, ConnAgain, SameDataAgain

LEMMA WireIsTyped ==
    ASSUME NEW k \in Sockets, NEW w \in Seq(Nat), NEW a \in Nat
    PROVE  /\ LET s == [k EXCEPT !.wire = w]
              IN  s \in Sockets /\ s.wire = w /\ s.accepted = k.accepted
           /\ LET s == [k EXCEPT !.accepted = a]
              IN  s \in Sockets /\ s.wire = k.wire /\ s.accepted = a
<1>1. [k EXCEPT !.wire = w] \in Sockets
  BY DEF Sockets
<1>2. [k EXCEPT !.accepted = a] \in Sockets
  BY DEF Sockets
<1> QED BY <1>1, <1>2 DEF Sockets

\* What is sent is written only when nothing waits to be, and buffered otherwise.
LEMMA SendKeepsData ==
    ASSUME DataInv, LoopTypes, NEW c \in Conns, SendInLoop(c), reused' = reused
    PROVE  DataInv'
<1> DEFINE n    == Head(stack).n
           r    == conn[c]
           k    == sock[c]
           data == DataFound(c, n)
<1>1. n \in Nat
  <2>1. stack # << >>
    BY DEF SendInLoop, At
  <2> QED BY <2>1, ReturnIsTyped, BoundsAssumption DEF FunctionType
<1>2. /\ r \in Connections /\ k \in Sockets /\ Units(k.wire \o r.out, k.accepted, reused)
  BY DEF DataInv, InOrder
<1>3. k.wire \in Seq(Nat) /\ k.accepted \in Nat /\ r.out \in Seq(Nat)
  BY <1>2 DEF Connections, Sockets
<1>4. CASE UNCHANGED <<conn, sock>>
  BY <1>4, SameDataAgain
<1>5. ASSUME NEW w \in (IF WritesDirectly(c) THEN Taken(c, n) ELSE {0}),
             NEW a, a = (IF WritesDirectly(c) /\ BrokenPipe(c) THEN k.accepted ELSE k.accepted + n),
             NEW wire, wire = k.wire \o SubSeq(data, 1, w),
             sock' = [sock EXCEPT ![c] = [[k EXCEPT !.wire = wire] EXCEPT !.accepted = a]],
             NEW out, out = r.out \o SubSeq(data, w + 1, n),
             NEW s, conn' = [conn EXCEPT ![c] = s],
             IF (WritesDirectly(c) /\ BrokenPipe(c)) \/ ~ n - w > 0 THEN s = r
             ELSE \/ s = [r EXCEPT !.out = out]
                  \/ s = EnableWriting([r EXCEPT !.out = out])
      PROVE  DataInv'
  <2>1. w \in 0 .. n /\ (r.out = << >> \/ w = 0)
    BY <1>1, <1>5 DEF WritesDirectly, Taken
  <2>0. /\ data \in Seq(Nat) /\ Len(data) = n
        /\ \A i \in 1 .. n : IsUnit(data[i], k.accepted + i, reused)
    BY <1>1, <1>3 DEF DataFound, IsUnit
  <2> HIDE DEF n, r, k, data
  <2>2. /\ SubSeq(data, 1, w) \in Seq(Nat) /\ SubSeq(data, w + 1, n) \in Seq(Nat)
        /\ Units(wire \o out, k.accepted + n, reused)
        /\ w = n => Units(wire \o r.out, k.accepted + n, reused)
    BY <1>1, <1>2, <1>3, <1>5, <2>0, <2>1, SendIsInOrder, ZenonT(60)
  <2>3. wire \in Seq(Nat) /\ out \in Seq(Nat) /\ a \in Nat
    <3>1. a \in Nat
      BY <1>1, <1>3, <1>5
    <3>2. wire \in Seq(Nat)
      BY <1>3, <1>5, <2>2, ConcatProperties
    <3>3. out \in Seq(Nat)
      BY <1>3, <1>5, <2>2, ConcatProperties
    <3> QED BY <3>1, <3>2, <3>3
  <2> DEFINE q == [k EXCEPT !.wire = wire]
             t == [q EXCEPT !.accepted = a]
             f == [r EXCEPT !.out = out]
  <2>4. t \in Sockets /\ t.wire = wire /\ t.accepted = a
    <3>1. q \in Sockets /\ q.wire = wire
      BY <1>2, <2>3, WireIsTyped
    <3> HIDE DEF q
    <3> QED BY <2>3, <3>1, WireIsTyped
  <2>5. f \in Connections /\ f.out = out
    BY <1>2, <2>3, FieldsAreTyped
  <2>6. sock' = [sock EXCEPT ![c] = t]
    BY <1>5
  <2> HIDE DEF t
  <2>7. CASE WritesDirectly(c) /\ BrokenPipe(c)
    <3>1. w = 0 /\ a = k.accepted /\ s = r
      BY <1>5, <2>7 DEF Taken
    <3>2. SubSeq(data, 1, w) = << >>
      BY <3>1, SubSeqEmpty
    <3>3. wire = k.wire
      BY <1>3, <1>5, <3>2, ConcatEmptySeq
    <3>4. InOrder(t, s, reused)
      BY <1>2, <2>4, <3>1, <3>3 DEF InOrder
    <3> QED BY <1>2, <1>5, <2>4, <2>6, <3>1, <3>4, DataAgain
  <2>8. CASE ~(WritesDirectly(c) /\ BrokenPipe(c)) /\ ~ n - w > 0
    <3>1. w = n /\ a = k.accepted + n /\ s = r
      BY <1>1, <1>5, <2>1, <2>8
    <3>2. InOrder(t, s, reused)
      BY <2>2, <2>4, <3>1 DEF InOrder
    <3> QED BY <1>2, <1>5, <2>4, <2>6, <3>1, <3>2, DataAgain
  <2>9. CASE ~(WritesDirectly(c) /\ BrokenPipe(c)) /\ n - w > 0
    <3>1. a = k.accepted + n /\ (s = f \/ s = EnableWriting(f))
      BY <1>5, <2>9
    <3> HIDE DEF f
    <3>2. EnableWriting(f) \in Connections /\ EnableWriting(f).out = out
      BY <2>5, SwitchIsTyped
    <3>3. s \in Connections /\ s.out = out
      BY <2>5, <3>1, <3>2
    <3>4. InOrder(t, s, reused)
      BY <2>2, <2>4, <3>1, <3>3 DEF InOrder
    <3> QED BY <1>5, <2>4, <2>6, <3>3, <3>4, DataAgain
  <2> QED BY <2>7, <2>8, <2>9
<1>6. CASE ~UNCHANGED <<conn, sock>>
  <2>1. PICK w \in (IF WritesDirectly(c) THEN Taken(c, n) ELSE {0}) :
          /\ sock' = [sock EXCEPT ![c].wire = @ \o SubSeq(data, 1, w),
                                  ![c].accepted = IF WritesDirectly(c) /\ BrokenPipe(c)
                                                  THEN @ ELSE @ + n]
          /\ LET buffered == [conn[c] EXCEPT !.out = @ \o SubSeq(data, w + 1, n)]
             IN  conn' = [conn EXCEPT ![c] =
                            IF ~(~(WritesDirectly(c) /\ BrokenPipe(c)) /\ n - w > 0) THEN @
                            ELSE IF IsWriting(@) THEN buffered ELSE EnableWriting(buffered)]
    BY <1>6 DEF SendInLoop, Asserting, Fail
  <2> DEFINE wire == k.wire \o SubSeq(data, 1, w)
             out  == r.out \o SubSeq(data, w + 1, n)
             a    == IF WritesDirectly(c) /\ BrokenPipe(c) THEN k.accepted ELSE k.accepted + n
             s    == IF ~(~(WritesDirectly(c) /\ BrokenPipe(c)) /\ n - w > 0) THEN r
                     ELSE IF IsWriting(r) THEN [r EXCEPT !.out = out]
                     ELSE EnableWriting([r EXCEPT !.out = out])
  <2>2. sock' = [sock EXCEPT ![c] = [[k EXCEPT !.wire = wire] EXCEPT !.accepted = a]]
    BY <2>1 DEF DataInv, Sockets
  <2>3. conn' = [conn EXCEPT ![c] = s]
    BY <2>1
  <2> QED BY <1>5, <2>2, <2>3
<1> QED BY <1>4, <1>6

\* What is buffered is written from its beginning.
LEMMA WriteKeepsData ==
    ASSUME DataInv, NEW c \in Conns, HandleWrite(c), reused' = reused
    PROVE  DataInv'
<1> DEFINE r == conn[c]
           k == sock[c]
<1>1. /\ r \in Connections /\ k \in Sockets /\ Units(k.wire \o r.out, k.accepted, reused)
  BY DEF DataInv, InOrder
<1>2. k.wire \in Seq(Nat) /\ k.accepted \in Nat /\ r.out \in Seq(Nat)
  BY <1>1 DEF Connections, Sockets
<1>3. PICK w \in (IF IsWriting(r) THEN Taken(c, Len(r.out)) ELSE {0}) :
        LET written == [r EXCEPT !.out = SubSeq(r.out, w + 1, Len(r.out))]
        IN  /\ sock' = [sock EXCEPT ![c].wire = @ \o SubSeq(r.out, 1, w)]
            /\ \/ conn' = [conn EXCEPT ![c] = written]
               \/ conn' = [conn EXCEPT ![c] = DisableWriting(written)]
  BY DEF HandleWrite
<1>4. w \in 0 .. Len(r.out)
  BY <1>2 DEF Taken
<1> DEFINE wire == k.wire \o SubSeq(r.out, 1, w)
           out  == SubSeq(r.out, w + 1, Len(r.out))
           t    == [k EXCEPT !.wire = wire]
           f    == [r EXCEPT !.out = out]
<1> HIDE DEF r, k
<1>5. SubSeq(r.out, 1, w) \in Seq(Nat) /\ out \in Seq(Nat) /\ wire \o out = k.wire \o r.out
  BY <1>2, <1>4, WriteIsInOrder
<1>6. wire \in Seq(Nat)
  BY <1>2, <1>5
<1> HIDE DEF wire, out
<1>7. t \in Sockets /\ t.wire = wire /\ t.accepted = k.accepted
  BY <1>1, <1>2, <1>6, WireIsTyped
<1>8. f \in Connections /\ f.out = out
  BY <1>1, <1>5, FieldsAreTyped
<1>9. sock' = [sock EXCEPT ![c] = t]
  BY <1>3 DEF wire, k
<1>10. conn' = [conn EXCEPT ![c] = f] \/ conn' = [conn EXCEPT ![c] = DisableWriting(f)]
  BY <1>3 DEF out
<1> HIDE DEF t, f
<1>11. DisableWriting(f) \in Connections /\ DisableWriting(f).out = out
  BY <1>8, SwitchIsTyped
<1>13. conn[c] = r /\ sock[c] = k
  BY DEF r, k
<1>12. InOrder(t, f, reused) /\ InOrder(t, DisableWriting(f), reused)
  BY <1>1, <1>5, <1>7, <1>8, <1>11 DEF InOrder
<1> QED BY <1>7, <1>8, <1>9, <1>10, <1>11, <1>12, DataAgain

LEMMA StoreKeepsData ==
    ASSUME DataInv, NEW op, NEW c \in Conns, Store(op, c) \/ UNCHANGED conn, sock' = sock,
           reused' = reused
    PROVE  DataInv'
<1>1. CASE UNCHANGED conn
  BY <1>1, SameDataAgain
<1>2. CASE conn' = [conn EXCEPT ![c] = [@ EXCEPT !.state = "kDisconnecting"]]
  <2> DEFINE r == [conn[c] EXCEPT !.state = "kDisconnecting"]
  <2>1. conn[c] \in Connections /\ "kDisconnecting" \in States
    BY DEF DataInv, States
  <2>2. r \in Connections /\ r.out = conn[c].out /\ conn' = [conn EXCEPT ![c] = r]
    BY <1>2, <2>1, FieldsAreTyped
  <2> HIDE DEF r
  <2> QED BY <2>2, ConnAgain
<1> QED BY <1>1, <1>2 DEF Store

\* Only DataGoes has data go.
LEMMA OnlyItGoes ==
    ASSUME Next, ~ \E k \in 1 .. calls : DataGoes(k)
    PROVE  reused' = reused
<1>1. ASSUME NEW c \in Conns, Body(c)
      PROVE  reused' = reused
  <2>1. ConnectionEstablished(c) \/ ConnectionDestroy(c) \/ Remove(c) \/ HandleClose(c) \/ HandleRead(c)
          => reused' = reused
    BY DEF ConnectionEstablished, ConnectionDestroy, Remove, HandleClose, HandleRead, Asserting, Fail,
           others, userVars
  <2>2. HandleError(c) \/ HandleWrite(c) \/ SendInLoop(c) \/ SendGivesUp(c) \/ ShutdownInLoop(c)
          => reused' = reused
    BY DEF HandleError, HandleWrite, SendInLoop, SendGivesUp, ShutdownInLoop, Asserting, Fail,
           others, userVars
  <2>3. ForceCloseInLoop(c) \/ StartReadInLoop(c) \/ StopReadInLoop(c) \/ RemoveConnection(c)
          \/ HandleEventWithGuard(c) => reused' = reused
    BY DEF ForceCloseInLoop, StartReadInLoop, StopReadInLoop, RemoveConnection, RemoveConnectionInLoop,
           HandleEventWithGuard, Asserting, Fail, others, userVars
  <2> QED BY <1>1, <2>1, <2>2, <2>3 DEF Body
<1>2. ASSUME NEW c \in Conns, Destructor(c) \/ HandleEvent(c) \/ TimerExpires(c) \/ Drop(c)
                              \/ NewConnectionAccepted(c) \/ Peer(c)
      PROVE  reused' = reused
  BY <1>2 DEF Destructor, HandleEvent, TimerExpires, Drop, NewConnectionAccepted, Peer, Asserting, Fail,
              others, userVars
<1>3. CallbackReturns \/ Poll \/ CheckQuit \/ UseAfterFree \/ SwapFunctors \/ RunFunctor \/ EndFunctors
        \/ LoopDestructor => reused' = reused
  BY DEF CallbackReturns, Poll, CheckQuit, UseAfterFree, SwapFunctors, RunFunctor, EndFunctors, LoopDestructor,
         Fail, others, userVars
<1>4. IoStep => reused' = reused
  BY <1>1, <1>2, <1>3 DEF IoStep
<1>5. BaseStep \/ ServerDestructor \/ QuitIoLoop => reused' = reused
  BY DEF BaseStep, RemoveConnectionInLoop, Asserting, Fail, ServerDestructor, QuitIoLoop, userVars
<1>6. ASSUME NEW op \in Operations, NEW c \in Conns, CallFromCallback(op, c)
      PROVE  reused' = reused
  BY <1>6 DEF CallFromCallback
<1>7. ASSUME NEW u \in Users, UserStep(u)
      PROVE  reused' = reused
  BY <1>7 DEF UserStep, UserCheck, UserStore, UserPush
<1> QED BY <1>2, <1>4, <1>5, <1>6, <1>7 DEF Next

\* Data changes as it is sent, written and lost; it never changes its order.
LEMMA DataStep ==
    ASSUME ConnInv, Next
    PROVE  DataInv'
<1> USE DEF ConnInv
<1>1. CASE \E k \in 1 .. calls : DataGoes(k)
  <2>1. UNCHANGED <<conn, sock>> /\ reused \subseteq reused' /\ reused' # {}
    BY <1>1 DEF DataGoes, objects
  <2>2. ASSUME NEW c \in Conns
        PROVE  InOrder(sock'[c], conn'[c], reused')
    BY <2>1 DEF DataInv, InOrder, Units, IsUnit
  <2> QED BY <2>1, <2>2 DEF DataInv
<1> SUFFICES ASSUME ~ \E k \in 1 .. calls : DataGoes(k) PROVE DataInv'
  BY <1>1
<1>2. reused' = reused
  BY OnlyItGoes
<1>3. ASSUME NEW c \in Conns, Body(c)
      PROVE  DataInv'
  <2>1. CASE SendGivesUp(c) \/ ForceCloseInLoop(c) \/ RemoveConnection(c) \/ HandleEventWithGuard(c)
    <3>1. UNCHANGED <<conn, sock>>
      BY <2>1 DEF SendGivesUp, ForceCloseInLoop, RemoveConnection, RemoveConnectionInLoop, Asserting,
         Fail, HandleEventWithGuard, objects
    <3> QED BY <1>2, <3>1, SameDataAgain
  <2> QED BY <1>3, <1>2, <2>1, ConnSteps, SockSteps, SendKeepsData, WriteKeepsData DEF Body
<1>4. ASSUME NEW c \in Conns, TimerExpires(c)
      PROVE  DataInv'
  BY <1>4, <1>2, StoreKeepsData DEF TimerExpires
<1>5. ASSUME NEW op \in Operations, NEW c \in Conns, CallFromCallback(op, c)
      PROVE  DataInv'
  BY <1>5, <1>2, StoreKeepsData DEF CallFromCallback
<1>6. ASSUME NEW u \in Users, UserStore(u)
      PROVE  DataInv'
  <2>1. userCall[u].c \in Conns
    BY <1>6 DEF UserStore, UserTypes, UserCalls
  <2> QED BY <1>6, <1>2, <2>1, StoreKeepsData DEF UserStore
<1>7. ASSUME \/ \E c \in Conns : HandleEvent(c) \/ Drop(c)
             \/ CallbackReturns \/ Poll \/ CheckQuit \/ UseAfterFree \/ SwapFunctors \/ RunFunctor
             \/ EndFunctors \/ LoopDestructor \/ BaseStep \/ ServerDestructor \/ QuitIoLoop
             \/ \E u \in Users : UserPush(u) \/ \E op \in Operations, c \in Conns : UserCheck(u, op, c)
      PROVE  DataInv'
  <2>1. UNCHANGED <<conn, sock>>
    BY <1>7 DEF HandleEvent, Drop, CallbackReturns, Poll, CheckQuit, UseAfterFree, SwapFunctors,
       RunFunctor, EndFunctors, LoopDestructor, BaseStep, RemoveConnectionInLoop, Asserting, Fail,
       ServerDestructor, QuitIoLoop, UserPush, UserCheck, objects
  <2> QED BY <1>2, <2>1, SameDataAgain
<1> QED BY <1>3, <1>4, <1>5, <1>6, <1>7, <1>2, ConnSteps, SockSteps DEF Next, IoStep, UserStep

-----------------------------------------------------------------------------
(* The types of the other variables.                                       *)

LEMMA FailKeepsTypes ==
    ASSUME LoopTypes, ServerTypes, UserTypes, NEW what, Fail(what)
    PROVE  LoopTypes' /\ ServerTypes' /\ UserTypes'
  BY DEF Fail, LoopTypes, ServerTypes, UserTypes, loopVars, serverVars, userVars

\* One function runs: it returns, may call others and queue a callback.
LEMMA BodyKeepsTypes ==
    ASSUME ConnInv, NEW c \in Conns, Body(c)
    PROVE  LoopTypes' /\ ServerTypes' /\ UserTypes'
<1> USE DEF ConnInv
<1>1. stack # << >>
  BY DEF Body, ConnectionEstablished, ConnectionDestroy, Remove, HandleClose, HandleRead, HandleError,
     HandleWrite, SendInLoop, SendGivesUp, ShutdownInLoop, ForceCloseInLoop, StartReadInLoop,
     StopReadInLoop, RemoveConnection, HandleEventWithGuard, At
<1>2. ASSUME NEW f \in Functions, NEW held \in BOOLEAN
      PROVE  Function(f, c, held) \in FunctionType
  BY <1>2, FunctionIsTyped
<1>3. Callback(c) \in FunctionType
  BY <1>2 DEF Callback, Functions
<1>4. /\ Function("remove", c, TRUE) \in FunctionType /\ Function("closeCallback", c, TRUE) \in FunctionType
      /\ Function("handleClose", c, FALSE) \in FunctionType /\ Function("handleClose", c, TRUE) \in FunctionType
      /\ Function("handleError", c, FALSE) \in FunctionType
      /\ Function("shutdownInLoop", c, FALSE) \in FunctionType
      /\ Function("connectionDestroy", c, TRUE) \in FunctionType
  BY <1>2 DEF Functions
<1>5. ASSUME UNCHANGED others, ioQueue' \in {ioQueue, Append(ioQueue, Callback(c))},
             \/ Return(<< >>)
             \/ \E f \in FunctionType : Return(<<f>>)
             \/ \E f, g \in FunctionType : Return(<<f, g>>)
      PROVE  LoopTypes' /\ ServerTypes' /\ UserTypes'
  <2>1. stack' \in Seq(FunctionType)
    BY <1>1, <1>5, ReturnIsTyped
  <2>2. ioQueue' \in Seq(FunctionType)
    <3>1. Append(ioQueue, Callback(c)) \in Seq(FunctionType)
      BY <1>3 DEF LoopTypes
    <3> QED BY <1>5, <3>1 DEF LoopTypes
  <2>3. LoopTypes'
    BY <1>5, <2>1, <2>2 DEF LoopTypes, others, loopVars
  <2>4. ServerTypes' /\ UserTypes'
    BY <1>5 DEF ServerTypes, UserTypes, others, serverVars, userVars, constant
  <2> QED BY <2>3, <2>4
<1>6. CASE ConnectionEstablished(c) \/ HandleClose(c) \/ Remove(c) \/ ConnectionDestroy(c)
  BY <1>3, <1>4, <1>5, <1>6, FailKeepsTypes DEF ConnectionEstablished, HandleClose, Remove,
     ConnectionDestroy, Asserting
<1>7. CASE HandleRead(c) \/ HandleError(c) \/ ForceCloseInLoop(c) \/ SendGivesUp(c) \/ ShutdownInLoop(c)
           \/ StartReadInLoop(c) \/ StopReadInLoop(c)
  BY <1>3, <1>4, <1>5, <1>7 DEF HandleRead, HandleError, ForceCloseInLoop, SendGivesUp, ShutdownInLoop,
     StartReadInLoop, StopReadInLoop
<1>8. CASE SendInLoop(c)
  <2>1. \/ \E what : Fail(what)
        \/ UNCHANGED others /\ ioQueue' \in {ioQueue, Append(ioQueue, Callback(c))} /\ Return(<< >>)
    BY <1>8 DEF SendInLoop, Asserting
  <2> QED BY <1>5, <2>1, FailKeepsTypes
<1>9. CASE HandleWrite(c)
  <2>1. /\ UNCHANGED others /\ ioQueue' \in {ioQueue, Append(ioQueue, Callback(c))}
        /\ Return(<< >>) \/ Return(<<Function("shutdownInLoop", c, FALSE)>>)
    BY <1>9 DEF HandleWrite
  <2> QED BY <1>4, <1>5, <2>1
<1>10. ASSUME RemoveConnectionInLoop(c), ~setup.single => baseQueue # << >>
       PROVE  LoopTypes' /\ ServerTypes' /\ UserTypes'
  <2>1. CASE \E what : Fail(what)
    BY <2>1, FailKeepsTypes
  <2>2. CASE ~\E what : Fail(what)
    <3>1. /\ inMap' = inMap \ {c}
          /\ ioQueue' = Append(ioQueue, Function("connectionDestroy", c, TRUE))
          /\ baseQueue' = IF setup.single THEN baseQueue ELSE Tail(baseQueue)
          /\ stack' = IF setup.single THEN Tail(stack) ELSE stack
          /\ UNCHANGED <<objects, server, loopVars, timers, userVars, constant>>
      BY <1>10, <2>2 DEF RemoveConnectionInLoop, Asserting
    <3>2. ioQueue' \in Seq(FunctionType) /\ stack' \in Seq(FunctionType)
      BY <1>1, <1>4, <3>1, ReturnIsTyped, AppendProperties DEF LoopTypes
    <3>3. baseQueue' \in Seq(Conns)
      BY <1>10, <3>1 DEF ServerTypes
    <3>4. IsFiniteSet(inMap')
      BY <3>1, FS_RemoveElement DEF ServerTypes
    <3>5. LoopTypes'
      BY <3>1, <3>2 DEF LoopTypes, loopVars
    <3>6. ServerTypes' /\ UserTypes'
      BY <3>1, <3>3, <3>4 DEF ServerTypes, UserTypes, userVars, constant
    <3> QED BY <3>5, <3>6
  <2> QED BY <2>1, <2>2
<1>11. CASE RemoveConnection(c)
  <2>1. CASE setup.single
    BY <1>10, <1>11, <2>1 DEF RemoveConnection
  <2>2. CASE ~setup.single
    <3>1. /\ baseQueue' = Append(baseQueue, c)
          /\ Return(<< >>)
          /\ UNCHANGED <<objects, inMap, server, loopVars, ioQueue, timers, userVars, constant>>
      BY <1>11, <2>2 DEF RemoveConnection
    <3>2. stack' \in Seq(FunctionType)
      BY <1>1, <3>1, ReturnIsTyped
    <3>3. LoopTypes'
      BY <3>1, <3>2 DEF LoopTypes, loopVars
    <3>4. baseQueue' \in Seq(Conns)
      BY <3>1, AppendProperties DEF ServerTypes
    <3>5. ServerTypes' /\ UserTypes'
      BY <3>1, <3>4 DEF ServerTypes, UserTypes, userVars, constant
    <3> QED BY <3>3, <3>5
  <2> QED BY <2>1, <2>2
<1>12. CASE HandleEventWithGuard(c)
  <2>1. /\ Return(<< >>) \/ \E f \in FunctionType : stack' = <<f>> \o stack
        /\ active' = active \/ active' = [active EXCEPT ![c] = @ \ {NextBit(@)}]
        /\ UNCHANGED <<objects, serverVars, phase, running, next, ioQueue, timers, userVars, constant>>
    <3>1. HandlerOf(NextBit(active[c])) \in {"handleError", "handleRead", "handleWrite"}
      BY DEF HandlerOf, NextBit
    <3>2. Function(HandlerOf(NextBit(active[c])), c, FALSE) \in FunctionType
      BY <1>2, <3>1 DEF Functions
    <3> QED BY <1>12, <3>2 DEF HandleEventWithGuard
  <2>2. stack' \in Seq(FunctionType)
    <3>1. ASSUME NEW f \in FunctionType
          PROVE  <<f>> \o stack \in Seq(FunctionType)
      BY <3>1, ConcatProperties DEF LoopTypes
    <3> QED BY <1>1, <2>1, <3>1, ReturnIsTyped
  <2>3. active' \in [Conns -> SUBSET {"ERR", "IN", "OUT"}]
    BY <2>1 DEF LoopTypes
  <2>4. LoopTypes'
    BY <2>1, <2>2, <2>3 DEF LoopTypes
  <2>5. ServerTypes' /\ UserTypes'
    BY <2>1 DEF ServerTypes, UserTypes, serverVars, userVars, constant
  <2> QED BY <2>4, <2>5
<1> QED BY <1>6, <1>7, <1>8, <1>9, <1>11, <1>12 DEF Body

\* Callers push what they call, or queue it, or leave a timer or a pointer.
LEMMA CallKeepsTypes ==
    ASSUME ConnInv,
           \/ \E op \in Operations, c \in Conns : CallFromCallback(op, c)
           \/ \E u \in Users : UserStep(u)
           \/ \E c \in Conns : Drop(c) \/ TimerExpires(c)
           \/ \E k \in 1 .. calls : DataGoes(k)
           \/ CallbackReturns
    PROVE  LoopTypes' /\ ServerTypes' /\ UserTypes'
<1> USE DEF ConnInv
<1>1. \A op, d : \A n \in Amounts(op, d) : n \in 0 .. MaxSend
  BY BoundsAssumption DEF Amounts
<1>2. ASSUME NEW f \in FunctionType
      PROVE  /\ <<f>> \o stack \in Seq(FunctionType) /\ <<f>> \in Seq(FunctionType)
             /\ Append(ioQueue, f) \in Seq(FunctionType)
  BY <1>2, ConcatProperties DEF LoopTypes
<1>3. setup' = setup => setup' \in SetupType /\ setup'.maxCalls = setup.maxCalls /\ setup.maxCalls \in Nat
  BY DEF ServerTypes, SetupType
<1>4. ASSUME NEW op \in Operations, NEW c \in Conns, CallFromCallback(op, c)
      PROVE  LoopTypes' /\ ServerTypes' /\ UserTypes'
  <2>1. /\ UNCHANGED <<serverVars, loopVars, ioQueue, userCall, reused, constant>>
        /\ calls' = calls + 1 /\ calls < setup.maxCalls
        /\ timers' \in {timers, timers \cup {c}} /\ userRef' \in {userRef, userRef \cup {c}}
        /\ \/ stack' = stack
           \/ /\ op \in Callable \ {"forceCloseWithDelay"}
              /\ \E n \in Amounts(op, c) : stack' = <<InLoop(op, c, n, 0)>> \o stack
    BY <1>4 DEF CallFromCallback, Callable
  <2>2. stack' \in Seq(FunctionType)
    <3>1. CASE stack' = stack
      BY <3>1 DEF LoopTypes
    <3>2. CASE op \in Callable \ {"forceCloseWithDelay"}
               /\ \E n \in Amounts(op, c) : stack' = <<InLoop(op, c, n, 0)>> \o stack
      BY <1>1, <1>2, <3>2, InLoopIsTyped
    <3> QED BY <2>1, <3>1, <3>2
  <2>3. LoopTypes'
    BY <2>1, <2>2 DEF LoopTypes, loopVars
  <2>4. ServerTypes'
    BY <2>1 DEF ServerTypes, serverVars, constant
  <2>5. UserTypes'
    BY <1>3, <2>1 DEF UserTypes, constant
  <2> QED BY <2>3, <2>4, <2>5
<1>5. ASSUME NEW u \in Users, NEW op \in Operations, NEW c \in Conns, UserCheck(u, op, c)
      PROVE  LoopTypes' /\ ServerTypes' /\ UserTypes'
  <2>1. /\ UNCHANGED <<objects, serverVars, loopVars, stack, ioQueue, timers, userRef, reused, constant>>
        /\ calls' = calls + 1 /\ calls < setup.maxCalls
        /\ op \in Callable
    BY <1>5 DEF UserCheck, ServerTypes, SetupType, Callable
  <2>2. userCall' \in [Users -> UserCalls]
    <3>1. PICK n \in Amounts(op, c) : userCall' = [userCall EXCEPT ![u] =
             [op |-> op, c |-> c, n |-> n, from |-> IF op = "send" THEN calls + 1 ELSE 0,
              at |-> IF Stores(op) THEN "store" ELSE "push"]]
      BY <1>5 DEF UserCheck
    <3>2. [op |-> op, c |-> c, n |-> n, from |-> IF op = "send" THEN calls + 1 ELSE 0,
           at |-> IF Stores(op) THEN "store" ELSE "push"] \in UserCalls
      BY <1>1, <2>1 DEF UserCalls, UserTypes
    <3> QED BY <3>1, <3>2 DEF UserTypes
  <2>3. LoopTypes' /\ ServerTypes'
    BY <2>1 DEF LoopTypes, loopVars, ServerTypes, serverVars, constant
  <2> QED BY <1>3, <2>1, <2>2, <2>3 DEF UserTypes, constant
<1>6. ASSUME NEW u \in Users, UserStore(u)
      PROVE  LoopTypes' /\ ServerTypes' /\ UserTypes'
  <2>1. /\ UNCHANGED <<serverVars, loopVars, stack, ioQueue, timers, userRef, calls, reused, constant>>
        /\ userCall' = [userCall EXCEPT ![u] = [@ EXCEPT !.at = "push"]]
        /\ userCall[u] \in [op : Callable, c : Conns, n : 0 .. MaxSend, from : Nat,
                            at : {"store", "push"}]
    BY <1>6 DEF UserStore, UserTypes, UserCalls
  <2>2. [userCall[u] EXCEPT !.at = "push"] \in UserCalls
    BY <2>1 DEF UserCalls
  <2>3. userCall' \in [Users -> UserCalls]
    BY <2>1, <2>2 DEF UserTypes
  <2>4. LoopTypes' /\ ServerTypes'
    BY <2>1 DEF LoopTypes, loopVars, ServerTypes, serverVars, constant
  <2> QED BY <2>1, <2>3, <2>4 DEF UserTypes, constant
<1>7. ASSUME NEW u \in Users, UserPush(u)
      PROVE  LoopTypes' /\ ServerTypes' /\ UserTypes'
  <2> DEFINE call == userCall[u]
  <2>1. call \in [op : Callable, c : Conns, n : 0 .. MaxSend, from : Nat,
                            at : {"store", "push"}]
    BY <1>7 DEF UserPush, UserTypes, UserCalls
  <2>2. /\ UNCHANGED <<objects, serverVars, loopVars, stack, userRef, calls, reused, constant>>
        /\ userCall' = [userCall EXCEPT ![u] = [op |-> "none"]]
        /\ \/ timers' = timers \cup {call.c} /\ UNCHANGED ioQueue
           \/ /\ ioQueue' = Append(ioQueue, InLoop(call.op, call.c, call.n, call.from)) /\ UNCHANGED timers
              /\ call.op # "forceCloseWithDelay"
    BY <1>7 DEF UserPush
  <2>3. [op |-> "none"] \in UserCalls
    BY DEF UserCalls
  <2>4. userCall' \in [Users -> UserCalls]
    BY <2>2, <2>3 DEF UserTypes
  <2>5. call.op # "forceCloseWithDelay" => InLoop(call.op, call.c, call.n, call.from) \in FunctionType
    BY <2>1, InLoopIsTyped
  <2>6. ioQueue' \in Seq(FunctionType)
    BY <1>2, <2>2, <2>5 DEF LoopTypes
  <2>7. LoopTypes' /\ ServerTypes'
    BY <2>2, <2>6 DEF LoopTypes, loopVars, ServerTypes, serverVars, constant
  <2> QED BY <2>1, <2>2, <2>4, <2>7 DEF UserTypes, constant
<1>8. ASSUME NEW c \in Conns, Drop(c)
      PROVE  LoopTypes' /\ ServerTypes' /\ UserTypes'
  <2>1. /\ UNCHANGED <<serverVars, loopVars, stack, ioQueue, timers, userCall, calls, reused, constant>>
        /\ userRef' = userRef \ {c}
    BY <1>8 DEF Drop
  <2> QED BY <2>1 DEF LoopTypes, loopVars, ServerTypes, serverVars, constant, UserTypes
<1>9. ASSUME NEW c \in Conns, TimerExpires(c)
      PROVE  LoopTypes' /\ ServerTypes' /\ UserTypes'
  <2>1. /\ UNCHANGED <<serverVars, loopVars, ioQueue, userVars, constant>>
        /\ timers' = timers \ {c}
        /\ stack' = stack \/ stack' = <<InLoop("forceClose", c, 0, 0)>>
    BY <1>9 DEF TimerExpires
  <2>2. InLoop("forceClose", c, 0, 0) \in FunctionType
    <3>1. "forceClose" \in Callable \ {"forceCloseWithDelay"} /\ 0 \in 0 .. MaxSend
      BY BoundsAssumption DEF Callable, Operations
    <3> QED BY <3>1, InLoopIsTyped
  <2>3. stack' \in Seq(FunctionType)
    BY <1>2, <2>1, <2>2 DEF LoopTypes
  <2> QED BY <2>1, <2>3 DEF LoopTypes, loopVars, ServerTypes, serverVars, constant, UserTypes, userVars
<1>10. ASSUME CallbackReturns
       PROVE  LoopTypes' /\ ServerTypes' /\ UserTypes'
  <2>1. UNCHANGED <<ioQueue, others>> /\ Return(<< >>) /\ stack # << >>
    BY <1>10 DEF CallbackReturns
  <2>2. stack' \in Seq(FunctionType)
    BY <2>1, ReturnIsTyped
  <2> QED BY <2>1, <2>2 DEF others, LoopTypes, loopVars, ServerTypes, serverVars, constant, UserTypes, userVars
<1>11. ASSUME NEW k \in 1 .. calls, DataGoes(k)
       PROVE  LoopTypes' /\ ServerTypes' /\ UserTypes'
  <2>1. /\ UNCHANGED <<serverVars, loopVars, stack, ioQueue, timers, userRef, userCall, calls, constant>>
        /\ reused' = reused \cup {k}
    BY <1>11 DEF DataGoes
  <2>2. setup' = setup /\ k \in 1 .. setup.maxCalls
    BY <2>1, <1>3 DEF UserTypes, constant
  <2> QED BY <2>1, <2>2 DEF LoopTypes, loopVars, ServerTypes, serverVars, constant, UserTypes
<1> QED BY <1>4, <1>5, <1>6, <1>7, <1>8, <1>9, <1>10, <1>11 DEF UserStep

LEMMA LoopKeepsTypes ==
    ASSUME ConnInv,
           \/ \E c \in Conns : Destructor(c) \/ HandleEvent(c) \/ NewConnectionAccepted(c) \/ Peer(c)
           \/ Poll \/ CheckQuit \/ UseAfterFree \/ SwapFunctors \/ RunFunctor \/ EndFunctors
           \/ LoopDestructor \/ BaseStep \/ ServerDestructor \/ QuitIoLoop
    PROVE  LoopTypes' /\ ServerTypes' /\ UserTypes'
<1> USE DEF ConnInv
<1>1. ASSUME NEW c \in Conns, Destructor(c) \/ Peer(c)
      PROVE  LoopTypes' /\ ServerTypes' /\ UserTypes'
  <2>1. (\E what : Fail(what)) \/ UNCHANGED <<stack, ioQueue, others>>
    BY <1>1 DEF Destructor, Peer, Asserting
  <2> QED BY <2>1, FailKeepsTypes DEF others, LoopTypes, loopVars, ServerTypes, serverVars, constant,
       UserTypes, userVars
<1>2. << >> \in Seq(FunctionType) /\ << >> \in Seq(Conns)
  OBVIOUS
<1>3. ASSUME NEW f \in FunctionType
      PROVE  <<f>> \in Seq(FunctionType) /\ Append(ioQueue, f) \in Seq(FunctionType)
  BY <1>3 DEF LoopTypes
<1>4. ASSUME NEW c \in Conns, HandleEvent(c)
      PROVE  LoopTypes' /\ ServerTypes' /\ UserTypes'
  <2>1. stack' = <<Function("event", c, TRUE)>> /\ UNCHANGED <<ioQueue, others>>
    BY <1>4 DEF HandleEvent
  <2>2. stack' \in Seq(FunctionType)
    BY <1>3, <2>1, FunctionIsTyped DEF Functions
  <2> QED BY <2>1, <2>2 DEF others, LoopTypes, loopVars, ServerTypes, serverVars, constant, UserTypes,
       userVars
<1>5. ASSUME NEW c \in Conns, NewConnectionAccepted(c)
      PROVE  LoopTypes' /\ ServerTypes' /\ UserTypes'
  <2> DEFINE f == Function("connectionEstablished", c, TRUE)
  <2>1. /\ UNCHANGED <<server, baseQueue, loopVars, timers, userVars, constant>>
        /\ inMap' = inMap \cup {c}
        /\ stack' = stack \/ stack' = <<f>>
        /\ ioQueue' = ioQueue \/ ioQueue' = Append(ioQueue, f)
    BY <1>5 DEF NewConnectionAccepted
  <2>2. f \in FunctionType
    BY FunctionIsTyped DEF Functions
  <2>3. stack' \in Seq(FunctionType) /\ ioQueue' \in Seq(FunctionType)
    BY <1>3, <2>1, <2>2 DEF LoopTypes
  <2>4. IsFiniteSet(inMap')
    BY <2>1, FS_AddElement DEF ServerTypes
  <2>5. LoopTypes'
    BY <2>1, <2>3 DEF LoopTypes, loopVars
  <2>6. ServerTypes' /\ UserTypes'
    BY <2>1, <2>4 DEF ServerTypes, UserTypes, userVars, constant
  <2> QED BY <2>5, <2>6
<1>6. ASSUME Poll
      PROVE  LoopTypes' /\ ServerTypes' /\ UserTypes'
  <2>1. /\ phase' = "events"
        /\ UNCHANGED <<objects, serverVars, stack, running, next, ioQueue, timers, userVars, constant>>
    BY <1>6 DEF Poll
  <2>2. active' \in [Conns -> SUBSET {"ERR", "IN", "OUT"}]
    BY <1>6 DEF Poll, Revents
  <2> QED BY <2>1, <2>2 DEF LoopTypes, ServerTypes, serverVars, constant, UserTypes, userVars
<1>7. ASSUME CheckQuit \/ SwapFunctors \/ EndFunctors
      PROVE  LoopTypes' /\ ServerTypes' /\ UserTypes'
  <2>1. /\ phase' \in {"exited", "poll", "functors", "check"}
        /\ UNCHANGED <<objects, serverVars, active, stack, timers, userVars, constant>>
        /\ ioQueue' \in {ioQueue, << >>}
        /\ \/ running' = running /\ next' = next
           \/ running' \in {ioQueue, << >>} /\ next' = 1
    BY <1>7 DEF CheckQuit, SwapFunctors, EndFunctors
  <2>2. LoopTypes'
    <3>1. running' \in Seq(FunctionType) /\ ioQueue' \in Seq(FunctionType)
      BY <1>2, <2>1 DEF LoopTypes
    <3>2. next' \in 1 .. Len(running') + 1
      BY <2>1, <3>1 DEF LoopTypes
    <3> QED BY <2>1, <3>1, <3>2 DEF LoopTypes
  <2> QED BY <2>1, <2>2 DEF ServerTypes, serverVars, constant, UserTypes, userVars
<1>8. ASSUME RunFunctor
      PROVE  LoopTypes' /\ ServerTypes' /\ UserTypes'
  <2> DEFINE f == [running[next] EXCEPT !.held = FALSE]
  <2>1. /\ next <= Len(running) /\ next' = next + 1 /\ stack' = <<f>>
        /\ UNCHANGED <<objects, serverVars, phase, active, running, ioQueue, timers, userVars, constant>>
    BY <1>8 DEF RunFunctor
  <2>2. running[next] \in FunctionType
    BY <2>1 DEF LoopTypes
  <2>3. f \in FunctionType
    BY <2>2 DEF FunctionType
  <2>4. stack' \in Seq(FunctionType)
    BY <1>3, <2>1, <2>3
  <2>5. LoopTypes'
    BY <2>1, <2>4 DEF LoopTypes
  <2> QED BY <2>1, <2>5 DEF ServerTypes, serverVars, constant, UserTypes, userVars
<1>9. ASSUME LoopDestructor
      PROVE  LoopTypes' /\ ServerTypes' /\ UserTypes'
  <2>1. /\ ioQueue' = << >> /\ baseQueue' = << >> /\ timers' = {}
        /\ UNCHANGED <<objects, inMap, server, loopVars, stack, userVars, constant>>
    BY <1>9 DEF LoopDestructor
  <2> QED BY <1>2, <2>1 DEF LoopTypes, ServerTypes, loopVars, constant, UserTypes, userVars
<1>10. ASSUME BaseStep
       PROVE  LoopTypes' /\ ServerTypes' /\ UserTypes'
  <2> DEFINE c == Head(baseQueue)
  <2>1. c \in Conns /\ Tail(baseQueue) \in Seq(Conns) /\ ~setup.single
    BY <1>10 DEF BaseStep, ServerTypes
  <2>2. \/ \E what : Fail(what)
        \/ /\ inMap' = inMap \ {c} /\ baseQueue' = Tail(baseQueue) /\ stack' = stack
           /\ ioQueue' = Append(ioQueue, Function("connectionDestroy", c, TRUE))
           /\ UNCHANGED <<objects, server, loopVars, timers, userVars, constant>>
    BY <1>10, <2>1 DEF BaseStep, RemoveConnectionInLoop, Asserting
  <2>3. Append(ioQueue, Function("connectionDestroy", c, TRUE)) \in Seq(FunctionType)
    BY <1>3, <2>1, FunctionIsTyped DEF Functions
  <2> HIDE DEF c
  <2>4. IsFiniteSet(inMap \ {c})
    BY FS_RemoveElement DEF ServerTypes
  <2>5. CASE \E what : Fail(what)
    BY <2>5, FailKeepsTypes
  <2>6. CASE inMap' = inMap \ {c} /\ baseQueue' = Tail(baseQueue) /\ stack' = stack
             /\ ioQueue' = Append(ioQueue, Function("connectionDestroy", c, TRUE))
             /\ UNCHANGED <<objects, server, loopVars, timers, userVars, constant>>
    <3>1. LoopTypes'
      BY <2>3, <2>6 DEF LoopTypes, loopVars
    <3>2. ServerTypes' /\ UserTypes'
      BY <2>1, <2>4, <2>6 DEF ServerTypes, UserTypes, userVars, constant
    <3> QED BY <3>1, <3>2
  <2> QED BY <2>2, <2>5, <2>6
<1>11. ASSUME ServerDestructor
       PROVE  LoopTypes' /\ ServerTypes' /\ UserTypes'
  <2>1. PICK order \in [1 .. Cardinality(inMap) -> inMap] :
          LET destroys == [i \in DOMAIN order |-> Function("connectionDestroy", order[i], TRUE)]
          IN  IF setup.single
              THEN stack' = destroys /\ phase' = "exited" /\ UNCHANGED ioQueue
              ELSE ioQueue' = ioQueue \o destroys /\ UNCHANGED <<stack, phase>>
    BY <1>11 DEF ServerDestructor
  <2> DEFINE destroys == [i \in 1 .. Cardinality(inMap) |->
                              Function("connectionDestroy", order[i], TRUE)]
  <2>2. Cardinality(inMap) \in Nat
    BY FS_CardinalityType DEF ServerTypes
  <2>3. destroys \in Seq(FunctionType)
    <3>1. ASSUME NEW i \in 1 .. Cardinality(inMap)
          PROVE  Function("connectionDestroy", order[i], TRUE) \in FunctionType
      BY <3>1, FunctionIsTyped DEF ServerTypes, Functions
    <3>2. destroys \in [1 .. Cardinality(inMap) -> FunctionType]
      BY <3>1
    <3> HIDE DEF destroys
    <3> QED BY <2>2, <3>2
  <2>4. stack' \in {stack, destroys} /\ ioQueue' \in {ioQueue, ioQueue \o destroys}
        /\ phase' \in {phase, "exited"}
    BY <2>1
  <2> HIDE DEF destroys
  <2>5. ioQueue \o destroys \in Seq(FunctionType)
    BY <2>3, ConcatProperties DEF LoopTypes
  <2>6. /\ server' = "stopping" /\ inMap' = {}
        /\ UNCHANGED <<objects, baseQueue, active, running, next, timers, userVars, constant>>
    BY <1>11 DEF ServerDestructor
  <2>7. LoopTypes'
    BY <2>3, <2>4, <2>5, <2>6 DEF LoopTypes
  <2> QED BY <2>6, <2>7, FS_EmptySet DEF ServerTypes, UserTypes, userVars, constant
<1>12. ASSUME QuitIoLoop
       PROVE  LoopTypes' /\ ServerTypes' /\ UserTypes'
  <2>1. /\ server' = "stopped"
        /\ UNCHANGED <<objects, inMap, baseQueue, loopVars, stack, ioQueue, timers, userVars, constant>>
    BY <1>12 DEF QuitIoLoop
  <2> QED BY <2>1 DEF LoopTypes, loopVars, ServerTypes, UserTypes, userVars, constant
<1>13. CASE UseAfterFree
  BY <1>13, FailKeepsTypes DEF UseAfterFree
<1> QED BY <1>1, <1>4, <1>5, <1>6, <1>7, <1>8, <1>9, <1>10, <1>11, <1>12, <1>13

LEMMA ConnInit == Init => ConnInv
<1> SUFFICES ASSUME Init PROVE ConnInv
  OBVIOUS
<1>1. NewConnection \in Connections
  BY DEF NewConnection, Connections, States, Interest, Indices
<1>2. NewSocket \in Sockets /\ NewSocket.wire = << >> /\ NewSocket.accepted = 0
  BY DEF NewSocket, Sockets
<1>3. InOrder(NewSocket, NewConnection, {})
  <2>1. NewConnection.out = << >>
    BY DEF NewConnection
  <2>2. NewSocket.wire \o NewConnection.out = << >>
    BY <1>2, <2>1, ConcatEmptySeq
  <2> QED BY <1>2, <2>2 DEF InOrder, Units
<1>4. DataInv
  BY <1>1, <1>2, <1>3 DEF Init, DataInv
<1>5. LoopTypes
  BY DEF Init, LoopTypes
<1>6. ServerTypes
  BY SetupsAssumption, FS_EmptySet DEF Init, ServerTypes
<1>7. UserTypes
  BY <1>6 DEF Init, UserTypes, UserCalls, ServerTypes, SetupType
<1> QED BY <1>4, <1>5, <1>6, <1>7 DEF ConnInv

LEMMA ConnStep == ConnInv /\ [Next]_vars => ConnInv'
<1> SUFFICES ASSUME ConnInv, [Next]_vars PROVE ConnInv'
  OBVIOUS
<1>1. CASE Next
  <2>1. DataInv'
    BY <1>1, DataStep
  <2>2. LoopTypes' /\ ServerTypes' /\ UserTypes'
    BY <1>1, BodyKeepsTypes, CallKeepsTypes, LoopKeepsTypes DEF Next, IoStep
  <2> QED BY <2>1, <2>2 DEF ConnInv
<1>2. CASE UNCHANGED vars
  BY <1>2 DEF vars, serverVars, loopVars, userVars, ConnInv, DataInv, LoopTypes, ServerTypes, UserTypes
<1> QED BY <1>1, <1>2

\* The inductive invariant: the types of the variables, and the data accepted from the callers of
\* send() is what was written followed by what is buffered, in order.
THEOREM ConnInvariance == Spec => []ConnInv
BY ConnInit, ConnStep, PTL DEF Spec

LEMMA ConnTypeOK == ConnInv => TypeOK
<1> SUFFICES ASSUME ConnInv PROVE TypeOK
  OBVIOUS
<1>1. ASSUME NEW c \in Conns
      PROVE  Len(conn[c].out) <= sock[c].accepted
  <2>1. conn[c].out \in Seq(Nat) /\ sock[c].wire \in Seq(Nat) /\ sock[c].accepted \in Nat
    BY DEF ConnInv, DataInv, Connections, Sockets
  <2>2. Len(sock[c].wire \o conn[c].out) = sock[c].accepted
    BY DEF ConnInv, DataInv, InOrder, Units
  <2>3. Len(sock[c].wire \o conn[c].out) = Len(sock[c].wire) + Len(conn[c].out)
    BY <2>1, ConcatProperties
  <2>4. Len(sock[c].wire) \in Nat /\ Len(conn[c].out) \in Nat
    BY <2>1
  <2> DEFINE w == Len(sock[c].wire)
             o == Len(conn[c].out)
             a == sock[c].accepted
  <2>5. w \in Nat /\ o \in Nat /\ a \in Nat /\ w + o = a
    BY <2>1, <2>2, <2>3, <2>4
  <2> HIDE DEF w, o, a
  <2>6. o <= a
    BY <2>5
  <2> QED BY <2>6 DEF o, a
<1>2. ASSUME NEW c \in Conns
      PROVE  /\ conn[c].life \in {"unborn", "alive", "freed"}
             /\ conn[c].state \in States
             /\ conn[c].reading \in BOOLEAN
             /\ conn[c].events \subseteq Interest /\ conn[c].interest \subseteq Interest
             /\ conn[c].index \in Indices
             /\ active[c] \subseteq {"ERR", "IN", "OUT"}
             /\ sock[c].accepted \in Nat
  BY DEF ConnInv, DataInv, LoopTypes, Connections, Sockets
<1>3. Contents(baseQueue) \subseteq Conns
  BY DEF ConnInv, ServerTypes, Contents
<1>4. Contents(stack) \cup Contents(running) \cup Contents(ioQueue) \subseteq FunctionType
  BY DEF ConnInv, LoopTypes, Contents
<1> QED BY <1>1, <1>2, <1>3, <1>4 DEF TypeOK, ConnInv, LoopTypes, ServerTypes, UserTypes

\* Whatever is sent, by callbacks and other threads, and however much of it each write takes: what
\* has been written and what is buffered are, in order, without gaps and once, the units that sends
\* have handed over.  As long as no other thread has used the memory of a send that was still
\* queued for something else, they are the very bytes that were sent.
THEOREM DataStaysInOrder == Spec => []WireInOrder
<1>1. ConnInv => WireInOrder
  <2> SUFFICES ASSUME ConnInv, NEW c \in Conns
               PROVE  LET all == sock[c].wire \o conn[c].out
                      IN  /\ Len(all) = sock[c].accepted
                          /\ \A i \in DOMAIN all : all[i] = i \/ (all[i] = 0 /\ reused # {})
    BY DEF WireInOrder
  <2> DEFINE all == sock[c].wire \o conn[c].out
  <2>1. Units(all, sock[c].accepted, reused)
    BY DEF ConnInv, DataInv, InOrder
  <2>2. all \in Seq(Nat)
    BY ConcatProperties DEF ConnInv, DataInv, Sockets, Connections
  <2> HIDE DEF all
  <2>3. DOMAIN all = 1 .. Len(all)
    BY <2>2
  <2>4. Len(all) = sock[c].accepted /\ \A i \in DOMAIN all : all[i] = i \/ (all[i] = 0 /\ reused # {})
    BY <2>1, <2>3 DEF Units, IsUnit
  <2> QED BY <2>4 DEF all
<1> QED BY <1>1, ConnInvariance, PTL

-----------------------------------------------------------------------------
(* The channels that the loop still has to handle.                         *)

Ends == {"connectionDestroy", "remove"}

\* While the loop works through activeChannels_ nothing on its stack removes a channel, and the
\* poller has every channel of it.
EventsInv ==
    /\ phase \in {"check", "poll"} => stack = << >>
    /\ phase = "events" => \A f \in Contents(stack) : f.fun \notin Ends
    /\ \A c \in Conns : active[c] # {} => phase = "events" /\ conn[c].mapped

LEMMA ContentsAre ==
    ASSUME NEW S, NEW s \in Seq(S)
    PROVE  /\ \A i \in 1 .. Len(s) : s[i] \in Contents(s)
           /\ \A f \in Contents(s) : \E i \in 1 .. Len(s) : f = s[i]
  BY DEF Contents

LEMMA JoinContents ==
    ASSUME NEW S, NEW t \in Seq(S), NEW u \in Seq(S)
    PROVE  t \o u \in Seq(S) /\ Contents(t \o u) = Contents(t) \cup Contents(u)
<1> DEFINE s == t \o u
<1>1. s \in Seq(S) /\ Len(s) = Len(t) + Len(u)
  OBVIOUS
<1>2. \A i \in 1 .. Len(t) + Len(u) : s[i] = IF i <= Len(t) THEN t[i] ELSE u[i - Len(t)]
  BY ConcatProperties
<1> HIDE DEF s
<1>3. Len(t) \in Nat /\ Len(u) \in Nat
  OBVIOUS
<1>4. ASSUME NEW f \in Contents(s)
      PROVE  f \in Contents(t) \cup Contents(u)
  <2>1. PICK i \in 1 .. Len(t) + Len(u) : f = s[i]
    BY <1>1, ContentsAre
  <2>2. CASE i <= Len(t)
    BY <1>2, <2>1, <2>2, ContentsAre
  <2>3. CASE ~ i <= Len(t)
    <3>1. i - Len(t) \in 1 .. Len(u)
      BY <1>3, <2>3
    <3> QED BY <1>2, <2>1, <2>3, <3>1, ContentsAre
  <2> QED BY <2>2, <2>3
<1>5. ASSUME NEW f \in Contents(t)
      PROVE  f \in Contents(s)
  <2>1. PICK i \in 1 .. Len(t) : f = t[i]
    BY ContentsAre
  <2>2. i \in 1 .. Len(t) + Len(u) /\ i <= Len(t)
    BY <1>3
  <2> QED BY <1>1, <1>2, <2>1, <2>2, ContentsAre
<1>6. ASSUME NEW f \in Contents(u)
      PROVE  f \in Contents(s)
  <2>1. PICK i \in 1 .. Len(u) : f = u[i]
    BY ContentsAre
  <2>2. i + Len(t) \in 1 .. Len(t) + Len(u) /\ ~ i + Len(t) <= Len(t) /\ (i + Len(t)) - Len(t) = i
    BY <1>3
  <2>3. s[i + Len(t)] = f
    BY <1>2, <2>1, <2>2
  <2> QED BY <1>1, <2>2, <2>3, ContentsAre
<1>7. Contents(s) = Contents(t) \cup Contents(u)
  BY <1>4, <1>5, <1>6
<1> QED BY <1>1, <1>7 DEF s

LEMMA ContentsOf ==
    ASSUME NEW S, NEW s \in Seq(S), s # << >>
    PROVE  /\ Head(s) \in Contents(s)
           /\ Contents(Tail(s)) \subseteq Contents(s)
           /\ \A f \in S : Contents(<<f>> \o s) = {f} \cup Contents(s)
           /\ Contents(<< >> \o Tail(s)) = Contents(Tail(s))
           /\ \A f \in S : Contents(<<f>> \o Tail(s)) = {f} \cup Contents(Tail(s))
           /\ \A f, g \in S : Contents(<<f, g>> \o Tail(s)) = {f, g} \cup Contents(Tail(s))
<1> DEFINE rest == Tail(s)
<1>1. Head(s) \in Contents(s) /\ rest \in Seq(S) /\ Contents(rest) \subseteq Contents(s)
  BY DEF Contents
<1>4. << >> \o rest = rest
  BY <1>1, ConcatEmptySeq
<1> HIDE DEF rest
<1>5. ASSUME NEW f \in S
      PROVE  /\ Contents(<<f>> \o s) = {f} \cup Contents(s)
             /\ Contents(<<f>> \o rest) = {f} \cup Contents(rest)
  <2> DEFINE t == <<f>>
  <2>1. t \in Seq(S) /\ Contents(t) = {f}
    BY DEF Contents
  <2> HIDE DEF t
  <2>2. Contents(t \o s) = {f} \cup Contents(s) /\ Contents(t \o rest) = {f} \cup Contents(rest)
    BY <1>1, <2>1, JoinContents
  <2> QED BY <2>2 DEF t
<1>6. ASSUME NEW f \in S, NEW g \in S
      PROVE  Contents(<<f, g>> \o rest) = {f, g} \cup Contents(rest)
  <2> DEFINE t == <<f, g>>
  <2>1. t \in Seq(S) /\ Contents(t) = {f, g}
    BY DEF Contents
  <2> HIDE DEF t
  <2>2. Contents(t \o rest) = {f, g} \cup Contents(rest)
    BY <1>1, <2>1, JoinContents
  <2> QED BY <2>2 DEF t
<1> QED BY <1>1, <1>4, <1>5, <1>6 DEF rest

LEMMA AppendContents ==
    ASSUME NEW S, NEW s \in Seq(S), NEW e \in S
    PROVE  Contents(Append(s, e)) = Contents(s) \cup {e}
<1> DEFINE t == <<e>>
<1>1. t \in Seq(S) /\ Contents(t) = {e}
  BY DEF Contents
<1>2. Append(s, e) = s \o t
  BY AppendIsConcat
<1> HIDE DEF t
<1> QED BY <1>1, <1>2, JoinContents

\* Only remove() takes a channel out of channels_.
LEMMA UpdateKeepsMapped ==
    ASSUME NEW r, IsConnection(r), r.mapped, NEW e
    PROVE  Update([r EXCEPT !.events = e]).mapped
  BY FieldsAre DEF IsConnection, Update, UpdateChannel, Register, Unregister

LEMMA SwitchKeepsMapped ==
    ASSUME NEW r, IsConnection(r), r.mapped
    PROVE  /\ EnableReading(r).mapped /\ DisableReading(r).mapped /\ EnableWriting(r).mapped
           /\ DisableWriting(r).mapped /\ DisableAll(r).mapped
  BY UpdateKeepsMapped DEF EnableReading, DisableReading, EnableWriting, DisableWriting, DisableAll

LEMMA FieldsKeepMapped ==
    ASSUME NEW r, IsConnection(r), r.mapped, NEW v
    PROVE  /\ [r EXCEPT !.state = v].mapped /\ IsConnection([r EXCEPT !.state = v])
           /\ [r EXCEPT !.reading = v].mapped /\ IsConnection([r EXCEPT !.reading = v])
           /\ [r EXCEPT !.out = v].mapped /\ IsConnection([r EXCEPT !.out = v])
           /\ [r EXCEPT !.life = v].mapped
           /\ [Unregister(r) EXCEPT !.life = v].mapped
<1>1. /\ [r EXCEPT !.state = v].mapped /\ [r EXCEPT !.reading = v].mapped
      /\ [r EXCEPT !.out = v].mapped
  BY StateIsApart DEF SameChannel
<1>2. [r EXCEPT !.life = v].mapped /\ [Unregister(r) EXCEPT !.life = v].mapped
  BY FieldsAre DEF IsConnection, Unregister
<1> QED BY <1>1, <1>2, StateIsApart

LEMMA MappedStays ==
    ASSUME PollerInv, NEW c \in Conns, conn[c].mapped, Next, ~ \E d \in Conns : Remove(d)
    PROVE  conn'[c].mapped
<1>1. conn = [d \in Conns |-> conn[d]] /\ \A d \in Conns : IsConnection(conn[d])
  BY DEF PollerInv
<1>2. ASSUME NEW d, NEW s, conn' = [conn EXCEPT ![d] = s], d = c => s.mapped
      PROVE  conn'[c].mapped
  BY <1>1, <1>2
<1>3. ASSUME NEW d \in Conns, NEW s, conn' = [conn EXCEPT ![d] = s],
             s \in {conn[d], [conn[d] EXCEPT !.state = "kDisconnecting"],
                    [conn[d] EXCEPT !.life = "alive"], [Unregister(conn[d]) EXCEPT !.life = "freed"]}
      PROVE  conn'[c].mapped
  BY <1>1, <1>2, <1>3, FieldsKeepMapped
<1>4. ASSUME NEW d \in Conns, NEW q, NEW s, conn' = [conn EXCEPT ![d] = s],
             q = conn[d] \/ \E v : \/ q = [conn[d] EXCEPT !.state = v]
                                   \/ q = [conn[d] EXCEPT !.reading = v]
                                   \/ q = [conn[d] EXCEPT !.out = v],
             \/ s = q \/ s = EnableReading(q) \/ s = DisableReading(q) \/ s = EnableWriting(q)
             \/ s = DisableWriting(q) \/ s = DisableAll(q)
      PROVE  conn'[c].mapped
  <2>1. ASSUME d = c
        PROVE  q.mapped /\ IsConnection(q)
    <3>1. CASE q = conn[d]
      BY <1>1, <2>1, <3>1
    <3>2. ASSUME NEW v, \/ q = [conn[d] EXCEPT !.state = v]
                        \/ q = [conn[d] EXCEPT !.reading = v]
                        \/ q = [conn[d] EXCEPT !.out = v]
          PROVE  q.mapped /\ IsConnection(q)
      <4> DEFINE x == conn[d]
      <4>1. IsConnection(x) /\ x.mapped
        BY <1>1, <2>1
      <4> HIDE DEF x
      <4>2. /\ [x EXCEPT !.state = v].mapped /\ IsConnection([x EXCEPT !.state = v])
            /\ [x EXCEPT !.reading = v].mapped /\ IsConnection([x EXCEPT !.reading = v])
            /\ [x EXCEPT !.out = v].mapped /\ IsConnection([x EXCEPT !.out = v])
        BY <4>1, FieldsKeepMapped
      <4> QED BY <3>2, <4>2 DEF x
    <3> QED BY <1>4, <3>1, <3>2
  <2>2. d = c => s.mapped
    BY <1>4, <2>1, SwitchKeepsMapped
  <2> QED BY <1>2, <1>4, <2>2
<1>5. CASE conn' = conn
  BY <1>5
<1>6. ASSUME NEW d \in Conns, Body(d) \/ Destructor(d) \/ NewConnectionAccepted(d)
      PROVE  conn'[c].mapped
  <2>1. CASE ConnectionEstablished(d)
    BY <1>4, <1>5, <2>1 DEF ConnectionEstablished, Asserting, Fail
  <2>2. CASE ConnectionDestroy(d) \/ HandleClose(d)
    BY <1>4, <1>5, <2>2 DEF ConnectionDestroy, HandleClose, Asserting, Fail
  <2>3. CASE StartReadInLoop(d) \/ StopReadInLoop(d)
    <3>1. \/ conn' = [conn EXCEPT ![d] = conn[d]]
          \/ conn' = [conn EXCEPT ![d] = EnableReading([conn[d] EXCEPT !.reading = TRUE])]
          \/ conn' = [conn EXCEPT ![d] = DisableReading([conn[d] EXCEPT !.reading = FALSE])]
      BY <2>3 DEF StartReadInLoop, StopReadInLoop
    <3> QED BY <1>4, <3>1
  <2>4. CASE SendInLoop(d)
    <3>1. conn' = conn \/ \E v : \E s : /\ conn' = [conn EXCEPT ![d] = s]
               /\ \/ s = conn[d] \/ s = [conn[d] EXCEPT !.out = v]
                  \/ s = EnableWriting([conn[d] EXCEPT !.out = v])
      BY <2>4 DEF SendInLoop, Asserting, Fail
    <3> QED BY <1>4, <1>5, <3>1
  <2>5. CASE HandleWrite(d)
    <3>1. \E v : \E s : /\ conn' = [conn EXCEPT ![d] = s]
               /\ \/ s = [conn[d] EXCEPT !.out = v]
                  \/ s = DisableWriting([conn[d] EXCEPT !.out = v])
      BY <2>5 DEF HandleWrite
    <3> QED BY <1>4, <3>1
  <2>6. CASE Destructor(d) \/ NewConnectionAccepted(d)
    BY <1>3, <1>5, <2>6 DEF Destructor, NewConnectionAccepted, Asserting, Fail
  <2>7. CASE HandleRead(d) \/ HandleError(d) \/ SendGivesUp(d) \/ ShutdownInLoop(d) \/ ForceCloseInLoop(d)
             \/ RemoveConnection(d) \/ HandleEventWithGuard(d)
    BY <1>5, <2>7 DEF HandleRead, HandleError, SendGivesUp, ShutdownInLoop, ForceCloseInLoop,
       RemoveConnection, RemoveConnectionInLoop, Asserting, Fail, HandleEventWithGuard, objects
  <2> QED BY <1>6, <2>1, <2>2, <2>3, <2>4, <2>5, <2>6, <2>7 DEF Body
<1>7. ASSUME NEW op, NEW d, Store(op, d)
      PROVE  conn'[c].mapped
  <2>1. CASE d = c
    <3>1. conn' = conn \/ conn' = [conn EXCEPT ![d] = [conn[d] EXCEPT !.state = "kDisconnecting"]]
      BY <1>7 DEF Store
    <3> QED BY <1>3, <1>5, <2>1, <3>1
  <2>2. CASE d # c
    BY <1>1, <1>7, <2>2 DEF Store
  <2> QED BY <2>1, <2>2
<1>8. ASSUME \/ \E op \in Operations, d \in Conns : CallFromCallback(op, d)
             \/ \E u \in Users : UserStore(u)
             \/ \E d \in Conns : TimerExpires(d)
      PROVE  conn'[c].mapped
  BY <1>5, <1>7, <1>8 DEF CallFromCallback, UserStore, TimerExpires
<1>9. ASSUME \/ \E d \in Conns : HandleEvent(d) \/ Drop(d) \/ Peer(d)
             \/ CallbackReturns \/ Poll \/ CheckQuit \/ UseAfterFree \/ SwapFunctors \/ RunFunctor
             \/ EndFunctors \/ LoopDestructor \/ BaseStep \/ ServerDestructor \/ QuitIoLoop
             \/ \E u \in Users : UserPush(u) \/ \E op \in Operations, d \in Conns : UserCheck(u, op, d)
             \/ \E k \in 1 .. calls : DataGoes(k)
      PROVE  conn' = conn
  BY <1>9 DEF HandleEvent, Drop, Peer, CallbackReturns, Poll, CheckQuit, UseAfterFree, SwapFunctors,
     RunFunctor, EndFunctors, LoopDestructor, BaseStep, RemoveConnectionInLoop, Asserting, Fail,
     ServerDestructor, QuitIoLoop, UserPush, UserCheck, DataGoes, objects
<1> QED BY <1>5, <1>6, <1>8, <1>9 DEF Next, IoStep, UserStep

\* What a function calls ends no connection, but for what connectionDestroy does.
LEMMA BodyStack ==
    ASSUME ConnInv, NEW c \in Conns, Body(c)
    PROVE  /\ stack # << >> /\ phase' = phase /\ setup' = setup
           /\ \A d \in Conns : active'[d] \subseteq active[d]
           /\ Head(stack).fun \notin Ends => \A f \in Contents(stack') : f \in Contents(stack) \/ f.fun \notin Ends
           /\ Remove(c) => Head(stack).fun \in Ends
<1> USE DEF ConnInv
<1>1. stack \in Seq(FunctionType)
  BY DEF LoopTypes
<1>2. stack # << >>
  BY DEF Body, ConnectionEstablished, ConnectionDestroy, Remove, HandleClose, HandleRead, HandleError,
     HandleWrite, SendInLoop, SendGivesUp, ShutdownInLoop, ForceCloseInLoop, StartReadInLoop,
     StopReadInLoop, RemoveConnection, HandleEventWithGuard, At
<1>3. active \in [Conns -> SUBSET {"ERR", "IN", "OUT"}]
  BY DEF LoopTypes
<1>4. phase' = phase /\ setup' = setup /\ \A d \in Conns : active'[d] \subseteq active[d]
  <2>1. CASE HandleEventWithGuard(c)
    BY <1>3, <2>1 DEF HandleEventWithGuard, constant
  <2>2. CASE ~HandleEventWithGuard(c)
    <3>1. phase' = phase /\ setup' = setup /\ active' = active
      BY <2>2 DEF Body, ConnectionEstablished, ConnectionDestroy, Remove, HandleClose, HandleRead, HandleError,
       HandleWrite, SendInLoop, SendGivesUp, ShutdownInLoop, ForceCloseInLoop, StartReadInLoop,
       StopReadInLoop, RemoveConnection, RemoveConnectionInLoop, Asserting, Fail, others, loopVars, constant
    <3> QED BY <3>1
  <2> QED BY <2>1, <2>2
<1>5. Remove(c) => Head(stack).fun \in Ends
  BY DEF Remove, At, Ends
<1>6. ASSUME Head(stack).fun \notin Ends
      PROVE  \A f \in Contents(stack') : f \in Contents(stack) \/ f.fun \notin Ends
  <2> DEFINE Low == {f \in FunctionType : f.fun \notin Ends}
  <2>1. ASSUME NEW f \in Functions \ Ends, NEW held \in BOOLEAN
        PROVE  Function(f, c, held) \in Low
    <3>1. Function(f, c, held) \in FunctionType
      BY FunctionIsTyped
    <3>2. Function(f, c, held).fun = f
      BY DEF Function
    <3> QED BY <3>1, <3>2
  <2>2. /\ Callback(c) \in Low /\ Function("closeCallback", c, TRUE) \in Low
        /\ Function("handleClose", c, FALSE) \in Low /\ Function("handleClose", c, TRUE) \in Low
        /\ Function("handleError", c, FALSE) \in Low /\ Function("shutdownInLoop", c, FALSE) \in Low
        /\ Function("handleRead", c, FALSE) \in Low /\ Function("handleWrite", c, FALSE) \in Low
    BY <2>1 DEF Callback, Functions, Ends
  <2> HIDE DEF Low
  <2>3. \/ stack' = stack
        \/ Return(<< >>)
        \/ \E f \in Low : Return(<<f>>) \/ stack' = <<f>> \o stack
        \/ \E f, g \in Low : Return(<<f, g>>)
    <3>1. CASE Remove(c) \/ ConnectionDestroy(c)
      BY <1>6, <3>1 DEF Remove, ConnectionDestroy, At, Ends
    <3>2. CASE ConnectionEstablished(c) \/ HandleClose(c)
      BY <2>2, <3>2 DEF ConnectionEstablished, HandleClose, Asserting, Fail
    <3>3. CASE HandleRead(c) \/ HandleError(c) \/ ForceCloseInLoop(c) \/ SendGivesUp(c) \/ ShutdownInLoop(c)
               \/ StartReadInLoop(c) \/ StopReadInLoop(c)
      BY <2>2, <3>3 DEF HandleRead, HandleError, ForceCloseInLoop, SendGivesUp, ShutdownInLoop,
         StartReadInLoop, StopReadInLoop
    <3>4. CASE SendInLoop(c) \/ HandleWrite(c)
      BY <2>2, <3>4 DEF SendInLoop, HandleWrite, Asserting, Fail
    <3>5. CASE RemoveConnection(c)
      <4>1. stack' = stack \/ stack' = Tail(stack) \/ Return(<< >>)
        BY <3>5 DEF RemoveConnection, RemoveConnectionInLoop, Asserting, Fail
      <4>2. Tail(stack) = << >> \o Tail(stack)
        BY <1>1, <1>2, HeadTailProperties, ConcatEmptySeq
      <4> QED BY <4>1, <4>2 DEF Return
    <3>6. CASE HandleEventWithGuard(c)
      <4>1. HandlerOf(NextBit(active[c])) \in {"handleError", "handleRead", "handleWrite"}
        BY DEF HandlerOf, NextBit
      <4> QED BY <2>2, <3>6, <4>1 DEF HandleEventWithGuard
    <3> QED BY <3>1, <3>2, <3>3, <3>4, <3>5, <3>6 DEF Body
  <2>4. \A f \in Low : f \in FunctionType /\ f.fun \notin Ends
    BY DEF Low
  <2>5. Contents(Tail(stack)) \subseteq Contents(stack)
    BY <1>1, <1>2, ContentsOf
  <2>6. CASE stack' = stack \/ Return(<< >>)
    BY <1>1, <1>2, <2>5, <2>6, ContentsOf DEF Return
  <2>7. ASSUME NEW f \in Low, Return(<<f>>) \/ stack' = <<f>> \o stack
        PROVE  \A h \in Contents(stack') : h \in Contents(stack) \/ h.fun \notin Ends
    <3>1. f \in FunctionType
      BY <2>4
    <3>2. /\ Contents(<<f>> \o stack) = {f} \cup Contents(stack)
          /\ Contents(<<f>> \o Tail(stack)) = {f} \cup Contents(Tail(stack))
      BY <1>1, <1>2, <3>1, ContentsOf
    <3>3. Contents(stack') \subseteq {f} \cup Contents(stack)
      BY <2>5, <2>7, <3>2 DEF Return
    <3> QED BY <2>4, <3>3
  <2>8. ASSUME NEW f \in Low, NEW g \in Low, Return(<<f, g>>)
        PROVE  \A h \in Contents(stack') : h \in Contents(stack) \/ h.fun \notin Ends
    <3>1. Contents(stack') \subseteq {f, g} \cup Contents(stack)
      BY <1>1, <1>2, <2>4, <2>5, <2>8, ContentsOf DEF Return
    <3> QED BY <2>4, <3>1
  <2> QED BY <2>3, <2>6, <2>7, <2>8
<1> QED BY <1>2, <1>4, <1>5, <1>6

LEMMA EventsStep ==
    ASSUME ConnInv, PollerInv, EventsInv, [Next]_vars
    PROVE  EventsInv'
<1> USE DEF ConnInv
<1>1. stack \in Seq(FunctionType) /\ active \in [Conns -> SUBSET {"ERR", "IN", "OUT"}]
  BY DEF LoopTypes
<1>2. ASSUME phase' = phase, Next, \A d \in Conns : active'[d] \subseteq active[d],
             phase \in {"check", "poll"} => stack' = << >>,
             phase = "events" => \A f \in Contents(stack') : f.fun \notin Ends
      PROVE  EventsInv'
  <2>1. ASSUME NEW c \in Conns, active'[c] # {}
        PROVE  phase' = "events" /\ conn'[c].mapped
    <3>1. phase = "events" /\ conn[c].mapped
      BY <1>2, <2>1 DEF EventsInv
    <3>2. ASSUME NEW d \in Conns, Remove(d)
          PROVE  FALSE
      <4>1. stack # << >> /\ Head(stack).fun \in Ends
        BY <3>2 DEF Remove, At, Ends
      <4>2. Head(stack) \in Contents(stack)
        BY <1>1, <4>1, ContentsOf
      <4> QED BY <3>1, <4>1, <4>2 DEF EventsInv
    <3> QED BY <1>2, <3>1, <3>2, MappedStays
  <2> QED BY <1>2, <2>1 DEF EventsInv
<1>3. CASE UNCHANGED vars
  BY <1>3 DEF EventsInv, vars, loopVars
<1>4. ASSUME NEW c \in Conns, Body(c), Next
      PROVE  EventsInv'
  <2>1. /\ stack # << >> /\ phase' = phase
        /\ \A d \in Conns : active'[d] \subseteq active[d]
        /\ Head(stack).fun \notin Ends => \A f \in Contents(stack') : f \in Contents(stack) \/ f.fun \notin Ends
    BY <1>4, BodyStack
  <2>2. Head(stack) \in Contents(stack)
    BY <1>1, <2>1, ContentsOf
  <2> QED BY <1>2, <1>4, <2>1, <2>2 DEF EventsInv
<1>5. ASSUME Next,
             UNCHANGED <<phase, active, stack>>
      PROVE  EventsInv'
  BY <1>2, <1>5 DEF EventsInv
<1>6. ASSUME Next, \/ \E c \in Conns : Destructor(c) \/ Drop(c) \/ Peer(c)
                   \/ \E u \in Users : UserStep(u)
                   \/ \E k \in 1 .. calls : DataGoes(k)
                   \/ QuitIoLoop \/ LoopDestructor \/ UseAfterFree \/ BaseStep
      PROVE  EventsInv'
  <2>1. UNCHANGED <<phase, active, stack>>
    BY <1>6 DEF Destructor, Drop, Peer, DataGoes, UserStep, UserCheck, UserStore, UserPush, QuitIoLoop, LoopDestructor,
       UseAfterFree, BaseStep, RemoveConnectionInLoop, Asserting, Fail, others, loopVars
  <2> QED BY <1>5, <1>6, <2>1
<1>7. ASSUME NEW f \in FunctionType, f.fun \notin Ends
      PROVE  /\ \A h \in Contents(<<f>>) : h.fun \notin Ends
             /\ EventsInv /\ phase = "events" => \A h \in Contents(<<f>> \o stack) : h.fun \notin Ends
  <2>1. Contents(<<f>>) = {f}
    BY DEF Contents
  <2>2. CASE stack = << >>
    <3>1. <<f>> \o stack = <<f>>
      BY <2>2
    <3> QED BY <1>7, <2>1, <3>1
  <2>3. CASE stack # << >>
    BY <1>1, <1>7, <2>1, <2>3, ContentsOf DEF EventsInv
  <2> QED BY <2>2, <2>3, <1>7, <2>1
<1>8. ASSUME Next, NEW c \in Conns, HandleEvent(c) \/ NewConnectionAccepted(c)
      PROVE  EventsInv'
  <2> DEFINE e == Function("event", c, TRUE)
             n == Function("connectionEstablished", c, TRUE)
  <2>1. e \in FunctionType /\ e.fun \notin Ends /\ n \in FunctionType /\ n.fun \notin Ends
    BY FunctionIsTyped DEF Functions, Function, Ends
  <2>2. UNCHANGED <<phase, active>> /\ (stack' = stack \/ (phase = "events" /\ stack' \in {<<e>>, <<n>>}))
    BY <1>8 DEF HandleEvent, NewConnectionAccepted, others, loopVars
  <2> HIDE DEF e, n
  <2>3. CASE stack' = stack
    BY <1>5, <1>8, <2>2, <2>3
  <2>4. CASE phase = "events" /\ stack' \in {<<e>>, <<n>>}
    BY <1>2, <1>7, <1>8, <2>1, <2>2, <2>4
  <2> QED BY <2>2, <2>3, <2>4
<1>9. ASSUME Next, NEW c \in Conns, NEW op \in Operations, CallFromCallback(op, c) \/ TimerExpires(c)
      PROVE  EventsInv'
  <2>1. CASE stack' = stack
    <3>1. UNCHANGED <<phase, active>>
      BY <1>9 DEF CallFromCallback, TimerExpires, loopVars
    <3> QED BY <1>5, <1>9, <2>1, <3>1
  <2>2. ASSUME NEW o \in {"send", "shutdown", "forceClose", "startRead", "stopRead"}, NEW n \in 0 .. MaxSend,
               \/ stack' = <<InLoop(o, c, n, 0)>> \o stack /\ phase \notin {"check", "poll"}
               \/ stack' = <<InLoop(o, c, n, 0)>> /\ phase = "events"
        PROVE  EventsInv'
    <3> DEFINE f == InLoop(o, c, n, 0)
    <3>1. f \in FunctionType /\ f.fun \notin Ends
      BY InLoopIsTyped DEF InLoop, Ends, Callable, Operations
    <3>2. UNCHANGED <<phase, active>>
      BY <1>9 DEF CallFromCallback, TimerExpires, loopVars
    <3> HIDE DEF f
    <3>3. \/ stack' = <<f>> \o stack /\ phase \notin {"check", "poll"}
          \/ stack' = <<f>> /\ phase = "events"
      BY <2>2 DEF f
    <3>4. phase \notin {"check", "poll"}
      BY <3>3
    <3>5. phase = "events" => \A h \in Contents(stack') : h.fun \notin Ends
      BY <1>7, <3>1, <3>3
    <3> QED BY <1>2, <1>9, <3>2, <3>4, <3>5
  <2>3. CASE CallFromCallback(op, c)
    <3>1. CASE op \in {"keep", "forceCloseWithDelay"}
      BY <2>1, <2>3, <3>1 DEF CallFromCallback
    <3>2. CASE op \notin {"keep", "forceCloseWithDelay"}
      <4>1. op \in {"send", "shutdown", "forceClose", "startRead", "stopRead"}
        BY <3>2 DEF Operations
      <4>2. PICK n \in Amounts(op, c) : stack' = <<InLoop(op, c, n, 0)>> \o stack
        BY <2>3, <3>2 DEF CallFromCallback
      <4>3. n \in 0 .. MaxSend
        BY <4>2, BoundsAssumption DEF Amounts
      <4>4. phase \notin {"check", "poll"}
        BY <2>3 DEF CallFromCallback, EventsInv
      <4> QED BY <2>2, <4>1, <4>2, <4>3, <4>4
    <3> QED BY <3>1, <3>2
  <2>4. CASE TimerExpires(c)
    <3>1. 0 \in 0 .. MaxSend
      BY BoundsAssumption
    <3>2. stack' = stack \/ (stack' = <<InLoop("forceClose", c, 0, 0)>> /\ phase = "events")
      BY <2>4 DEF TimerExpires
    <3> QED BY <2>1, <2>2, <3>1, <3>2
  <2> QED BY <1>9, <2>3, <2>4
<1>10. ASSUME Next, CallbackReturns
       PROVE  EventsInv'
  <2>1. UNCHANGED <<phase, active>> /\ stack # << >> /\ stack' = << >> \o Tail(stack)
    BY <1>10 DEF CallbackReturns, Return, others, loopVars
  <2>2. Contents(stack') \subseteq Contents(stack)
    BY <1>1, <2>1, ContentsOf
  <2> QED BY <1>2, <1>10, <2>1, <2>2 DEF EventsInv
<1>11. ASSUME Poll
       PROVE  EventsInv'
  <2>1. phase' = "events" /\ stack' = stack /\ stack = << >> /\ conn' = conn
    BY <1>11 DEF Poll, objects, EventsInv
  <2>2. ASSUME NEW c \in Conns, active'[c] # {}
        PROVE  conn'[c].mapped
    <3>1. conn[c].registered
      BY <1>11, <2>2 DEF Poll, Revents
    <3>2. conn[c].mapped
      BY <3>1 DEF PollerInv, PollerConsistent, Consistent
    <3> QED BY <2>1, <3>2
  <2> QED BY <2>1, <2>2 DEF EventsInv, Contents
<1>12. ASSUME CheckQuit \/ EndFunctors \/ SwapFunctors \/ (ServerDestructor /\ setup.single)
       PROVE  EventsInv'
  <2>1. phase # "events" \/ \A c \in Conns : active[c] = {}
    BY <1>12 DEF CheckQuit, EndFunctors, SwapFunctors, ServerDestructor
  <2>2. \A c \in Conns : active[c] = {}
    BY <2>1 DEF EventsInv
  <2>3. /\ phase' # "events" \/ (phase' = phase /\ stack' = stack)
        /\ phase' \in {"check", "poll"} => stack' = << >>
        /\ active' = active
    BY <1>12 DEF CheckQuit, EndFunctors, SwapFunctors, ServerDestructor, EventsInv
  <2> QED BY <2>2, <2>3 DEF EventsInv
<1>13. ASSUME RunFunctor
       PROVE  EventsInv'
  BY <1>13 DEF RunFunctor, EventsInv
<1>14. ASSUME ServerDestructor, ~setup.single, Next
       PROVE  EventsInv'
  BY <1>5, <1>14 DEF ServerDestructor
<1>15. ASSUME Next, IoStep
       PROVE  EventsInv'
  <2>1. "forceClose" \in Operations
    BY DEF Operations
  <2> QED BY <1>4, <1>6, <1>8, <1>9, <1>10, <1>11, <1>12, <1>13, <1>15, <2>1 DEF IoStep
<1>16. ASSUME Next
       PROVE  EventsInv'
  BY <1>6, <1>8, <1>9, <1>12, <1>14, <1>15, <1>16 DEF Next
<1> QED BY <1>3, <1>16

LEMMA EventsInit == Init => EventsInv
  BY DEF Init, EventsInv

\* While the loop works through activeChannels_, which holds bare pointers, no channel left in
\* it is destroyed, in every build with assertions: a destroy never runs among the handlers.
THEOREM NoneOfTheActiveIsDestroyed == Spec => [](setup.debug => ActiveAreAlive)
<1>1. PollerInv /\ EventsInv => (setup.debug => ActiveAreAlive)
  BY DEF PollerInv, PollerConsistent, EventsInv, ActiveAreAlive
<1> QED BY <1>1, InitPoller, PollerStep, EventsInit, EventsStep, ConnInit, ConnStep, PTL DEF Spec

-----------------------------------------------------------------------------
(* Careful uses: the life of a connection.                                 *)

Up == {"kConnected", "kDisconnecting"}

\* The functions that may stand below another one on the stack, and those that only stand
\* on top of it.
Lower == {"event", "callback", "closeCallback", "remove", "connectionDestroy"}
Upper == {"connectionEstablished", "handleRead", "handleError", "handleClose", "shutdownInLoop",
          "forceCloseInLoop", "stopReadInLoop"}
Queueable == {"connectionEstablished", "connectionDestroy"}

\* The functions of c among F; those on the stack; those that are queued or in the rest of
\* the batch.
Named(F, c) == {f.fun : f \in {g \in F : g.c = c}}
Calls(c) == Named(Contents(stack), c)
Rest == {running[i] : i \in next .. Len(running)}
Waits(c) == Named(Contents(ioQueue) \cup Rest, c)

Batch == Contents(ioQueue) \cup Contents(running)
Uses(c) == c \in inMap \/ c \in Contents(baseQueue) \/ Calls(c) # {} \/ Named(Batch, c) # {}

\* c waits to be established; to be removed from connections_; to be destroyed.
Opens(c) == "connectionEstablished" \in Calls(c) \cup Waits(c)
Closes(c) == "closeCallback" \in Calls(c) \/ c \in Contents(baseQueue)
Destroys(c) == "remove" \in Calls(c) \/ "connectionDestroy" \in Calls(c) \cup Waits(c)

\* Nobody but the I/O loop, the server and the callbacks has a part in it.
Quiet ==
    /\ timers = {} /\ userRef = {} /\ fault = "none"
    /\ \A u \in Users : userCall[u].op = "none"
    /\ server # "stopped"
    /\ server = "stopping" \/ phase = "exited" => setup.single /\ setup.stops

\* What a call stack looks like: only the function on top may be one that ends at once or
\* that does not hold its connection; and a connection is established, destroyed, removed
\* from the server and removed from the poller by one function at a time.
FrameOK(f) ==
    /\ f.fun \in Lower \cup Upper
    /\ f.fun \in {"event", "callback", "closeCallback", "remove", "forceCloseInLoop"} => f.held
    /\ f.fun = "handleRead" => ~f.held

Below(f) == f.fun \in Lower /\ f.held

Beside(f, g) ==
    f.c = g.c =>
        /\ f.fun \notin Queueable /\ g.fun \notin Queueable
        /\ f.fun = g.fun => f.fun \notin {"closeCallback", "remove"}

StackShape(s) ==
    /\ \A i \in DOMAIN s : FrameOK(s[i]) /\ (i > 1 => Below(s[i]))
    /\ \A i, j \in DOMAIN s : i < j => Beside(s[i], s[j])

\* The connection of the function on top is held by it, by a caller, or by the batch.
TopIsHeld ==
    stack # << >> =>
        \/ Head(stack).held
        \/ \E f \in Contents(Tail(stack)) \cup Contents(running) : f.c = Head(stack).c

QueueShape(F) ==
    \A f \in F : /\ f.fun \in Queueable /\ f.held
                 /\ setup.single => f.fun = "connectionDestroy"

QueuesOK ==
    /\ QueueShape(Contents(ioQueue)) /\ QueueShape(Contents(running))
    /\ running # << >> => phase = "functors"
    /\ setup.single => baseQueue = << >> /\ (phase # "events" => ioQueue = << >>)

\* A connection waits at one place.
OncePending ==
    /\ \A i, j \in DOMAIN ioQueue : ioQueue[i].c = ioQueue[j].c => i = j
    /\ \A i, j \in next .. Len(running) : running[i].c = running[j].c => i = j
    /\ \A f \in Contents(ioQueue), g \in Rest : f.c # g.c
    /\ \A i, j \in DOMAIN baseQueue : baseQueue[i] = baseQueue[j] => i = j

\* A connection is established once, at the beginning ...
Begins(c) ==
    /\ conn[c].life = "unborn" => conn[c] = NewConnection /\ log[c] = << >>
    /\ Opens(c) => conn[c].state = "kConnecting"
    /\ Alive(c) /\ conn[c].state = "kConnecting" =>
          /\ c \in inMap /\ ~conn[c].mapped /\ log[c] = << >>
          /\ setup.single => "connectionEstablished" \in Calls(c)

LastIsDown(l) == l # << >> /\ l[Len(l)] = "down"

\* ... is up, and in the poller, until it is closed or the server is destroyed ...
Lives(c) ==
    /\ Alive(c) /\ conn[c].state \in Up =>
          /\ conn[c].mapped /\ log[c] # << >> /\ ~LastIsDown(log[c])
          /\ c \in inMap \/ (conn[c].state = "kConnected" /\ "connectionDestroy" \in Calls(c))
    /\ Alive(c) /\ conn[c].state = "kDisconnecting" /\ setup.stops =>
          {"forceCloseInLoop", "handleClose"} \cap Calls(c) # {}
    /\ {"forceCloseInLoop", "handleClose", "handleRead"} \cap Calls(c) # {} => conn[c].state \in Up

\* ... and is then removed from the server, destroyed, and removed from the poller.
Dies(c) ==
    /\ Alive(c) /\ conn[c].state = "kDisconnected" =>
          /\ LastIsDown(log[c])
          /\ c \in inMap => Closes(c)
          /\ c \notin inMap /\ conn[c].mapped => Destroys(c)
    /\ Closes(c) => conn[c].state = "kDisconnected" /\ c \in inMap /\ conn[c].mapped
    /\ Destroys(c) =>
          /\ c \notin inMap /\ conn[c].mapped
          /\ \/ conn[c].state = "kDisconnected"
             \/ conn[c].state = "kConnected" /\ "connectionDestroy" \in Calls(c)

\* Every step of this happens once.
Once(c) ==
    /\ "connectionEstablished" \in Calls(c) => Waits(c) = {}
    /\ {"connectionDestroy", "remove"} \cap Calls(c) # {} => Waits(c) = {}
    /\ "closeCallback" \in Calls(c) => c \notin Contents(baseQueue)

\* Only a connection that is up has something to read, before anything else is called of it.
Reads(c) ==
    /\ ~conn[c].reading /\ conn[c].events \subseteq {"IN"}
    /\ "IN" \in conn[c].events => conn[c].state \in Up
    /\ "OUT" \notin active[c]
    /\ "IN" \in active[c] => conn[c].state \in Up /\ Calls(c) \subseteq {"event", "handleError"}

\* With one loop a connection is closed among the handlers, and destroyed among the functors.
Phases(c) ==
    setup.single /\ phase # "events" =>
        Calls(c) \ {"connectionDestroy", "remove"} \subseteq
            IF conn[c].state = "kDisconnected" THEN {"callback", "stopReadInLoop"} ELSE {}

\* The inductive invariant.
LifeOf(c) ==
    /\ Begins(c)
    /\ Lives(c)
    /\ Dies(c)
    /\ Once(c)
    /\ Reads(c)
    /\ Phases(c)
    /\ Uses(c) \/ conn[c].mapped => Alive(c)
    /\ log[c] \in Seq({"up", "message", "down"})

CarefulInv ==
    /\ Quiet
    /\ StackShape(stack) /\ TopIsHeld
    /\ QueuesOK /\ OncePending
    /\ log = [c \in Conns |-> log[c]]
    /\ \A c \in Conns : LifeOf(c)

LifeInv == Careful => CarefulInv

SafeInv == ConnInv /\ PollerInv /\ EventsInv /\ Careful /\ CarefulInv

-----------------------------------------------------------------------------
(* The stack, and the functions of each connection on it.                  *)

LEMMA NamedOf ==
    ASSUME NEW F, NEW c
    PROVE  /\ \A f \in F : f.c = c => f.fun \in Named(F, c)
           /\ \A n \in Named(F, c) : \E f \in F : f.c = c /\ f.fun = n
           /\ \A f : Named({f} \cup F, c) = IF f.c = c THEN {f.fun} \cup Named(F, c) ELSE Named(F, c)
           /\ \A G : Named(F \cup G, c) = Named(F, c) \cup Named(G, c)
           /\ \A G : G \subseteq F => Named(G, c) \subseteq Named(F, c)
  BY DEF Named

LEMMA TailShape ==
    ASSUME NEW s \in Seq(FunctionType), s # << >>, StackShape(s)
    PROVE  /\ Tail(s) \in Seq(FunctionType) /\ StackShape(Tail(s))
           /\ Head(s) \in FunctionType /\ FrameOK(Head(s))
           /\ \A g \in Contents(Tail(s)) : g \in FunctionType /\ FrameOK(g) /\ Below(g) /\ Beside(Head(s), g)
           /\ Contents(s) = {Head(s)} \cup Contents(Tail(s))
<1> DEFINE t == Tail(s)
<1>1. /\ t \in Seq(FunctionType) /\ Len(t) + 1 = Len(s) /\ Len(t) \in Nat
      /\ \A i \in 1 .. Len(t) : i + 1 \in 1 .. Len(s) /\ i + 1 > 1 /\ t[i] = s[i + 1]
      /\ Head(s) = s[1] /\ 1 \in 1 .. Len(s)
  OBVIOUS
<1>2. DOMAIN s = 1 .. Len(s) /\ DOMAIN t = 1 .. Len(t)
  BY <1>1
<1> HIDE DEF t
<1>3. StackShape(t)
  <2>1. ASSUME NEW i \in 1 .. Len(t)
        PROVE  FrameOK(t[i]) /\ Below(t[i])
    <3>1. FrameOK(s[i + 1]) /\ Below(s[i + 1])
      BY <1>1, <1>2 DEF StackShape
    <3> QED BY <1>1, <3>1
  <2>2. ASSUME NEW i \in 1 .. Len(t), NEW j \in 1 .. Len(t), i < j
        PROVE  Beside(t[i], t[j])
    <3>1. i + 1 < j + 1
      BY <1>1, <2>2
    <3>2. Beside(s[i + 1], s[j + 1])
      BY <1>1, <1>2, <3>1 DEF StackShape
    <3> QED BY <1>1, <3>2
  <2> QED BY <1>2, <2>1, <2>2 DEF StackShape
<1>4. ASSUME NEW g \in Contents(t)
      PROVE  g \in FunctionType /\ FrameOK(g) /\ Below(g) /\ Beside(Head(s), g)
  <2>1. PICK i \in 1 .. Len(t) : g = t[i]
    BY <1>1, ContentsAre
  <2>2. g = s[i + 1] /\ i + 1 \in DOMAIN s /\ 1 \in DOMAIN s /\ 1 < i + 1
    BY <1>1, <1>2, <2>1
  <2>3. FrameOK(s[i + 1]) /\ Below(s[i + 1]) /\ Beside(s[1], s[i + 1])
    BY <2>2 DEF StackShape
  <2> QED BY <1>1, <2>1, <2>2, <2>3
<1>5. Head(s) \in FunctionType /\ FrameOK(Head(s))
  BY <1>1, <1>2 DEF StackShape
<1>6. Contents(s) = {Head(s)} \cup Contents(t)
  <2>1. ASSUME NEW f \in Contents(s), f # Head(s)
        PROVE  f \in Contents(t)
    <3>1. PICK i \in 1 .. Len(s) : f = s[i]
      BY ContentsAre
    <3>2. i # 1
      BY <1>1, <2>1, <3>1
    <3>3. i - 1 \in 1 .. Len(t) /\ (i - 1) + 1 = i
      BY <1>1, <3>2
    <3>4. t[i - 1] = f
      BY <1>1, <3>1, <3>3
    <3> QED BY <1>1, <3>3, <3>4, ContentsAre
  <2>2. Head(s) \in Contents(s) /\ Contents(t) \subseteq Contents(s)
    BY ContentsOf DEF t
  <2> QED BY <2>1, <2>2
<1> QED BY <1>1, <1>3, <1>4, <1>5, <1>6 DEF t

LEMMA PushShape ==
    ASSUME NEW s \in Seq(FunctionType), StackShape(s), NEW f \in FunctionType, FrameOK(f),
           \A g \in Contents(s) : Below(g) /\ Beside(f, g)
    PROVE  /\ StackShape(<<f>> \o s) /\ <<f>> \o s \in Seq(FunctionType)
           /\ Head(<<f>> \o s) = f /\ Tail(<<f>> \o s) = s /\ <<f>> \o s # << >>
           /\ Contents(<<f>> \o s) = {f} \cup Contents(s)
<1> DEFINE t == <<f>> \o s
<1>1. /\ t \in Seq(FunctionType) /\ Len(t) = Len(s) + 1 /\ Len(s) \in Nat
      /\ t[1] = f /\ \A i \in 1 .. Len(s) : t[i + 1] = s[i]
      /\ Head(t) = f /\ t # << >>
  OBVIOUS
<1>2. Tail(t) = s
  <2>1. Tail(t) \in Seq(FunctionType) /\ Len(Tail(t)) = Len(s) /\ \A i \in 1 .. Len(s) : Tail(t)[i] = t[i + 1]
    BY <1>1
  <2> HIDE DEF t
  <2>2. \A i \in 1 .. Len(s) : Tail(t)[i] = s[i]
    BY <1>1, <2>1
  <2> DEFINE u == Tail(t)
  <2>3. u \in Seq(FunctionType) /\ Len(u) = Len(s) /\ \A i \in 1 .. Len(s) : u[i] = s[i]
    BY <2>1, <2>2
  <2> HIDE DEF u
  <2>4. u = s
    BY <2>3, SeqEqual
  <2> QED BY <2>4 DEF u
<1>3. DOMAIN s = 1 .. Len(s) /\ DOMAIN t = 1 .. Len(t)
  BY <1>1
<1> HIDE DEF t
<1>4. ASSUME NEW i \in 1 .. Len(t)
      PROVE  i = 1 \/ (i > 1 /\ i - 1 \in 1 .. Len(s) /\ t[i] = s[i - 1])
  <2>1. CASE i # 1
    <3>1. i - 1 \in 1 .. Len(s) /\ (i - 1) + 1 = i /\ i > 1
      BY <1>1, <2>1
    <3> QED BY <1>1, <3>1
  <2> QED BY <2>1
<1>5. ASSUME NEW i \in 1 .. Len(t)
      PROVE  FrameOK(t[i]) /\ (i > 1 => Below(t[i]))
  <2>1. CASE i = 1
    BY <1>1, <2>1
  <2>2. CASE i > 1 /\ i - 1 \in 1 .. Len(s) /\ t[i] = s[i - 1]
    <3>1. FrameOK(s[i - 1]) /\ s[i - 1] \in Contents(s)
      BY <1>3, <2>2, ContentsAre DEF StackShape
    <3> QED BY <2>2, <3>1
  <2> QED BY <1>4, <2>1, <2>2
<1>6. ASSUME NEW i \in 1 .. Len(t), NEW j \in 1 .. Len(t), i < j
      PROVE  Beside(t[i], t[j])
  <2>1. j > 1 /\ j - 1 \in 1 .. Len(s) /\ t[j] = s[j - 1]
    BY <1>4, <1>6
  <2>2. CASE i = 1
    <3>1. s[j - 1] \in Contents(s)
      BY <2>1, ContentsAre
    <3> QED BY <1>1, <2>1, <2>2, <3>1
  <2>3. CASE i > 1 /\ i - 1 \in 1 .. Len(s) /\ t[i] = s[i - 1]
    <3>1. i - 1 < j - 1
      BY <1>6
    <3> QED BY <1>3, <2>1, <2>3, <3>1 DEF StackShape
  <2> QED BY <1>4, <2>2, <2>3
<1>7. StackShape(t)
  BY <1>3, <1>5, <1>6 DEF StackShape
<1>8. Contents(t) = {f} \cup Contents(s)
  <2> DEFINE u == <<f>>
  <2>1. u \in Seq(FunctionType) /\ Contents(u) = {f}
    BY DEF Contents
  <2> HIDE DEF u
  <2>2. Contents(u \o s) = {f} \cup Contents(s)
    BY <2>1, JoinContents
  <2> QED BY <2>2 DEF u, t
<1> QED BY <1>1, <1>2, <1>7, <1>8 DEF t

LEMMA SafeTypes ==
    ASSUME SafeInv
    PROVE  /\ conn \in [Conns -> Connections] /\ sock \in [Conns -> Sockets]
           /\ stack \in Seq(FunctionType) /\ running \in Seq(FunctionType) /\ ioQueue \in Seq(FunctionType)
           /\ next \in 1 .. Len(running) + 1 /\ setup \in SetupType
           /\ inMap \in SUBSET Conns /\ baseQueue \in Seq(Conns)
           /\ active \in [Conns -> SUBSET {"ERR", "IN", "OUT"}]
           /\ StackShape(stack)
           /\ log = [c \in Conns |-> log[c]] /\ \A c \in Conns : log[c] \in Seq({"up", "message", "down"})
  BY DEF SafeInv, ConnInv, DataInv, LoopTypes, ServerTypes, CarefulInv, LifeOf

LEMMA OneByOne ==
    ASSUME NEW f \in FunctionType, NEW g \in FunctionType, NEW t \in Seq(FunctionType)
    PROVE  <<f, g>> \o t = <<f>> \o (<<g>> \o t)
<1> DEFINE u == <<f, g>> \o t
           v == <<g>> \o t
           w == <<f>> \o v
<1>1. /\ u \in Seq(FunctionType) /\ Len(u) = Len(t) + 2 /\ u[1] = f /\ u[2] = g
      /\ \A i \in 1 .. Len(t) : u[i + 2] = t[i]
      /\ Len(t) \in Nat
  OBVIOUS
<1>2. /\ v \in Seq(FunctionType) /\ Len(v) = Len(t) + 1 /\ v[1] = g
      /\ \A i \in 1 .. Len(t) : v[i + 1] = t[i]
  OBVIOUS
<1> HIDE DEF v
<1>3. /\ w \in Seq(FunctionType) /\ Len(w) = Len(v) + 1 /\ w[1] = f
      /\ \A i \in 1 .. Len(v) : w[i + 1] = v[i]
  BY <1>2
<1> HIDE DEF u, w
<1>4. ASSUME NEW i \in 1 .. Len(u)
      PROVE  u[i] = w[i]
  <2>1. CASE i = 1
    BY <1>1, <1>3, <2>1
  <2>2. CASE i = 2
    BY <1>1, <1>2, <1>3, <2>2
  <2>3. CASE i # 1 /\ i # 2
    <3>1. i - 2 \in 1 .. Len(t) /\ i - 1 \in 1 .. Len(v) /\ (i - 2) + 2 = i /\ (i - 1) + 1 = i
          /\ (i - 2) + 1 = i - 1
      BY <1>1, <1>2, <2>3
    <3>2. u[i] = t[i - 2] /\ v[i - 1] = t[i - 2] /\ w[i] = v[i - 1]
      BY <1>1, <1>2, <1>3, <3>1
    <3> QED BY <3>2
  <2> QED BY <2>1, <2>2, <2>3
<1>5. Len(u) = Len(w)
  BY <1>1, <1>2, <1>3
<1>6. u = w
  BY <1>1, <1>3, <1>4, <1>5, SeqEqual
<1> QED BY <1>6 DEF u, v, w

\* The function on top returns; what it calls is of its connection.  What a connection is
\* established, closed, or removed by comes after what it was before.
Unless(f, g) == g.fun \notin Queueable /\ (g.fun \in {"closeCallback", "remove"} => f.fun \in Queueable)

LEMMA Returns ==
    ASSUME SafeInv, stack # << >>, running' = running, Return(<< >>)
    PROVE  /\ StackShape(stack)' /\ TopIsHeld'
           /\ Contents(stack)' = Contents(Tail(stack))
<1> DEFINE t == Tail(stack)
<1>1. /\ t \in Seq(FunctionType) /\ StackShape(t)
      /\ \A g \in Contents(t) : Below(g)
  BY SafeTypes, TailShape
<1> HIDE DEF t
<1>2. stack' = t
  <2>1. << >> \o t = t
    BY <1>1, ConcatEmptySeq
  <2> QED BY <2>1 DEF Return, t
<1>3. TopIsHeld'
  <2>1. CASE t = << >>
    BY <1>2, <2>1 DEF TopIsHeld
  <2>2. CASE t # << >>
    <3>1. Head(t) \in Contents(t)
      BY <1>1, <2>2, ContentsOf
    <3> QED BY <1>1, <1>2, <3>1 DEF TopIsHeld, Below
  <2> QED BY <2>1, <2>2
<1> QED BY <1>1, <1>2, <1>3 DEF t

LEMMA ReturnsTo ==
    ASSUME SafeInv, stack # << >>, running' = running, NEW f \in FunctionType, Return(<<f>>),
           FrameOK(f), f.c = Head(stack).c, Unless(Head(stack), f), f.held \/ ~Head(stack).held
    PROVE  /\ StackShape(stack)' /\ TopIsHeld'
           /\ Contents(stack)' = {f} \cup Contents(Tail(stack))
<1> DEFINE t == Tail(stack)
           h == Head(stack)
<1>1. /\ t \in Seq(FunctionType) /\ StackShape(t) /\ FrameOK(h) /\ h \in FunctionType
      /\ \A g \in Contents(t) : Below(g) /\ Beside(h, g)
  BY SafeTypes, TailShape
<1>2. stack' = <<f>> \o t
  BY DEF Return
<1>3. f.c = h.c /\ Unless(h, f) /\ (f.held \/ ~h.held)
      /\ (h.held \/ \E g \in Contents(t) \cup Contents(running) : g.c = h.c)
  BY DEF SafeInv, CarefulInv, TopIsHeld
<1> HIDE DEF t, h
<1>4. ASSUME NEW g \in Contents(t)
      PROVE  Below(g) /\ Beside(f, g)
  BY <1>1, <1>3, <1>4 DEF Beside, Unless, Queueable
<1>5. /\ StackShape(<<f>> \o t)
      /\ Head(<<f>> \o t) = f /\ Tail(<<f>> \o t) = t /\ <<f>> \o t # << >>
      /\ Contents(<<f>> \o t) = {f} \cup Contents(t)
  BY <1>1, <1>4, PushShape
<1>6. TopIsHeld'
  BY <1>2, <1>3, <1>5 DEF TopIsHeld
<1> QED BY <1>2, <1>5, <1>6 DEF t

LEMMA ReturnsToTwo ==
    ASSUME SafeInv, stack # << >>, running' = running, NEW f \in FunctionType, NEW g \in FunctionType,
           Return(<<f, g>>),
           FrameOK(f), f.c = Head(stack).c, f.fun = "callback", FrameOK(g), g.c = f.c, Below(g),
           g.fun \in {"closeCallback", "remove"},
           Head(stack).fun \in Queueable \/ g.fun \notin Named(Contents(Tail(stack)), f.c)
    PROVE  /\ StackShape(stack)' /\ TopIsHeld'
           /\ Contents(stack)' = {f, g} \cup Contents(Tail(stack))
<1> DEFINE t == Tail(stack)
           h == Head(stack)
<1>1. /\ t \in Seq(FunctionType) /\ StackShape(t) /\ FrameOK(h) /\ h \in FunctionType
      /\ \A e \in Contents(t) : Below(e) /\ Beside(h, e)
  BY SafeTypes, TailShape
<1>2. stack' = <<f>> \o (<<g>> \o t)
  <2>1. <<f, g>> \o t = <<f>> \o (<<g>> \o t)
    BY <1>1, OneByOne
  <2> QED BY <2>1 DEF Return
<1>3. f.c = h.c /\ (h.fun \in Queueable \/ g.fun \notin Named(Contents(t), f.c))
  OBVIOUS
<1> HIDE DEF t, h
<1>4. ASSUME NEW e \in Contents(t)
      PROVE  Below(e) /\ Beside(g, e) /\ Beside(f, e)
  <2>1. CASE e.c = f.c
    <3>1. h.fun \notin Queueable /\ e.fun \notin Queueable
      BY <1>1, <1>3, <2>1 DEF Beside
    <3>2. e.fun \in Named(Contents(t), f.c)
      BY <2>1, NamedOf
    <3> QED BY <1>1, <1>3, <3>1, <3>2 DEF Beside, Queueable
  <2>2. CASE e.c # f.c
    BY <1>1, <2>2 DEF Beside
  <2> QED BY <2>1, <2>2
<1> DEFINE u == <<g>> \o t
<1>5. /\ StackShape(u) /\ u \in Seq(FunctionType)
      /\ Contents(u) = {g} \cup Contents(t)
  BY <1>1, <1>4, PushShape
<1> HIDE DEF u
<1>6. Beside(f, g)
  BY DEF Beside, Queueable
<1>7. \A e \in Contents(u) : Below(e) /\ Beside(f, e)
  BY <1>4, <1>5, <1>6
<1>8. /\ StackShape(<<f>> \o u)
      /\ Head(<<f>> \o u) = f /\ Tail(<<f>> \o u) = u /\ <<f>> \o u # << >>
      /\ Contents(<<f>> \o u) = {f} \cup Contents(u)
  BY <1>5, <1>7, PushShape
<1>9. TopIsHeld'
  BY <1>2, <1>8 DEF TopIsHeld, FrameOK, u
<1> QED BY <1>2, <1>5, <1>8, <1>9 DEF t, u

\* A callback, and handleEvent, call a function of their connection.
LEMMA CallsOne ==
    ASSUME SafeInv, stack # << >>, running' = running, NEW f \in FunctionType, stack' = <<f>> \o stack,
           FrameOK(f), f.c = Head(stack).c, Head(stack).fun \in {"callback", "event"},
           f.fun \notin Queueable \cup {"closeCallback", "remove", "callback", "event"}
    PROVE  /\ StackShape(stack)' /\ TopIsHeld'
           /\ Contents(stack)' = {f} \cup Contents(stack)
<1>1. /\ stack \in Seq(FunctionType) /\ StackShape(stack) /\ FrameOK(Head(stack))
      /\ \A g \in Contents(Tail(stack)) : Below(g) /\ Beside(Head(stack), g)
      /\ Contents(stack) = {Head(stack)} \cup Contents(Tail(stack))
  BY SafeTypes, TailShape
<1>2. Below(Head(stack)) /\ Beside(f, Head(stack))
  BY <1>1 DEF Below, FrameOK, Lower, Beside, Queueable
<1>3. ASSUME NEW g \in Contents(stack)
      PROVE  Below(g) /\ Beside(f, g)
  <2>1. CASE g \in Contents(Tail(stack))
    BY <1>1, <2>1 DEF Beside
  <2> QED BY <1>1, <1>2, <2>1
<1>4. /\ StackShape(<<f>> \o stack)
      /\ Head(<<f>> \o stack) = f /\ Tail(<<f>> \o stack) = stack /\ <<f>> \o stack # << >>
      /\ Contents(<<f>> \o stack) = {f} \cup Contents(stack)
  BY <1>1, <1>3, PushShape
<1>5. Head(stack) \in Contents(stack) /\ f.c = Head(stack).c
  BY <1>1
<1>6. TopIsHeld'
  BY <1>4, <1>5 DEF TopIsHeld
<1> QED BY <1>4, <1>6

\* The stack is empty and a function is called.
LEMMA CallsFirst ==
    ASSUME NEW f \in FunctionType, stack' = <<f>>, FrameOK(f),
           f.held \/ \E g \in Contents(running)' : g.c = f.c
    PROVE  /\ StackShape(stack)' /\ TopIsHeld'
           /\ Contents(stack)' = {f}
<1>1. /\ stack' \in Seq(FunctionType) /\ DOMAIN stack' = {1} /\ stack'[1] = f /\ Head(stack') = f
      /\ stack' # << >>
  OBVIOUS
<1>2. StackShape(stack)'
  BY <1>1 DEF StackShape
<1>3. TopIsHeld'
  BY <1>1 DEF TopIsHeld
<1>4. Contents(stack)' = {f}
  BY <1>1 DEF Contents
<1> QED BY <1>2, <1>3, <1>4

-----------------------------------------------------------------------------
(* The function on top, and a step that is about its connection.           *)

\* The functions of c below the top.
Under(c) == Named(Contents(Tail(stack)), c)

LEMMA TopOf ==
    ASSUME SafeInv, stack # << >>, NEW c, c = Head(stack).c
    PROVE  /\ c \in Conns /\ Alive(c) /\ FrameOK(Head(stack)) /\ Head(stack) \in FunctionType
           /\ Calls(c) = {Head(stack).fun} \cup Under(c)
           /\ \A d : d # c => Calls(d) = Under(d)
           /\ Head(stack).fun \in Queueable => Under(c) = {}
           /\ Head(stack).fun \in {"closeCallback", "remove"} => Head(stack).fun \notin Under(c)
           /\ Under(c) \subseteq Lower \ Queueable
<1> DEFINE t == Tail(stack)
           h == Head(stack)
<1>1. /\ FrameOK(h) /\ h \in FunctionType
      /\ \A g \in Contents(t) : Below(g) /\ Beside(h, g)
      /\ Contents(stack) = {h} \cup Contents(t)
  BY SafeTypes, TailShape
<1>2. h.c = c
  OBVIOUS
<1> HIDE DEF t, h
<1>3. Calls(c) = {h.fun} \cup Named(Contents(t), c) /\ \A d : d # c => Calls(d) = Named(Contents(t), d)
  BY <1>1, <1>2 DEF Calls, Named
<1>4. c \in Conns
  BY <1>1, <1>2 DEF FunctionType
<1>5. Alive(c)
  BY <1>3, <1>4 DEF SafeInv, CarefulInv, LifeOf, Uses
<1>6. ASSUME NEW n \in Named(Contents(t), c)
      PROVE  /\ h.fun \notin Queueable /\ n \in Lower \ Queueable
             /\ h.fun = n => n \notin {"closeCallback", "remove"}
  <2>1. PICK g \in Contents(t) : g.c = c /\ g.fun = n
    BY NamedOf
  <2> QED BY <1>1, <1>2, <2>1 DEF Beside, Below
<1> QED BY <1>1, <1>3, <1>4, <1>5, <1>6 DEF Under, t, h

\* What is not touched of a connection stays as it was.
LEMMA SameLife ==
    ASSUME NEW d \in Conns, LifeOf(d), UNCHANGED setup,
           conn'[d] = conn[d], log'[d] = log[d], active'[d] = active[d],
           (d \in inMap)' <=> d \in inMap,
           (d \in Contents(baseQueue))' <=> d \in Contents(baseQueue),
           Calls(d)' = Calls(d), Waits(d)' = Waits(d), Uses(d)' => Uses(d),
           phase' = phase \/ Calls(d)' = {}
    PROVE  LifeOf(d)'
  BY DEF LifeOf, Begins, Lives, Dies, Once, Reads, Phases, Opens, Closes, Destroys, Alive

\* A step of the I/O thread that leaves the queues and the server alone.
LEMMA StackStep ==
    ASSUME SafeInv, NEW c \in Conns,
           UNCHANGED <<serverVars, phase, running, next, ioQueue, timers, userRef, userCall, constant>>,
           \A d \in Conns \ {c} : /\ conn'[d] = conn[d] /\ log'[d] = log[d] /\ active'[d] = active[d]
                                  /\ Calls(d)' = Calls(d),
           StackShape(stack)', TopIsHeld', log' = [d \in Conns |-> log'[d]],
           LifeOf(c)'
    PROVE  CarefulInv'
<1>1. \A d : Waits(d)' = Waits(d)
  BY DEF Waits, Rest
<1>2. Batch' = Batch
  BY DEF Batch
<1>3. ASSUME NEW d \in Conns, d # c
      PROVE  LifeOf(d)'
  <2>1. Calls(d)' = Calls(d) /\ Waits(d)' = Waits(d) /\ (Uses(d)' <=> Uses(d))
    BY <1>1, <1>2, <1>3 DEF Uses, serverVars
  <2> QED BY <1>3, <2>1, SameLife DEF SafeInv, CarefulInv, constant, serverVars
<1>4. Quiet'
  BY DEF SafeInv, CarefulInv, Quiet, serverVars, constant
<1>5. QueuesOK' /\ OncePending'
  <2>1. Rest' = Rest
    BY DEF Rest
  <2> QED BY <2>1 DEF SafeInv, CarefulInv, QueuesOK, QueueShape, OncePending, serverVars, constant
<1> QED BY <1>3, <1>4, <1>5 DEF CarefulInv

\* Steps of the function on top.
LEMMA OthersCalls ==
    ASSUME SafeInv, stack # << >>, NEW c, c = Head(stack).c, NEW F, \A f \in F : f.c = c,
           Contents(stack)' = F \cup Contents(Tail(stack))
    PROVE  /\ \A d : d # c => Calls(d)' = Calls(d)
           /\ Calls(c)' = Named(F, c) \cup Under(c)
<1>1. \A d : Calls(d)' = Named(F, d) \cup Under(d)
  BY NamedOf DEF Calls, Under
<1>2. \A d : d # c => Named(F, d) = {}
  BY NamedOf
<1> QED BY <1>1, <1>2, TopOf

LEMMA CallsAfter ==
    ASSUME SafeInv, stack # << >>, NEW c, c = Head(stack).c
    PROVE  /\ Contents(stack)' = Contents(Tail(stack)) =>
                (\A d : d # c => Calls(d)' = Calls(d)) /\ Calls(c)' = Under(c)
           /\ \A f : f.c = c /\ Contents(stack)' = {f} \cup Contents(Tail(stack)) =>
                (\A d : d # c => Calls(d)' = Calls(d)) /\ Calls(c)' = {f.fun} \cup Under(c)
           /\ \A f, g : f.c = c /\ g.c = c /\ Contents(stack)' = {f, g} \cup Contents(Tail(stack)) =>
                (\A d : d # c => Calls(d)' = Calls(d)) /\ Calls(c)' = {f.fun, g.fun} \cup Under(c)
           /\ \A f : f.c = c /\ Contents(stack)' = {f} \cup Contents(stack) =>
                (\A d : d # c => Calls(d)' = Calls(d)) /\ Calls(c)' = {f.fun} \cup Calls(c)
<1>1. ASSUME NEW F, \A f \in F : f.c = c, Contents(stack)' = F \cup Contents(Tail(stack))
      PROVE  (\A d : d # c => Calls(d)' = Calls(d)) /\ Calls(c)' = Named(F, c) \cup Under(c)
  BY <1>1, OthersCalls
<1>2. ASSUME Contents(stack)' = Contents(Tail(stack))
      PROVE  (\A d : d # c => Calls(d)' = Calls(d)) /\ Calls(c)' = Under(c)
  <2> DEFINE F == {}
  <2>1. (\A e \in F : e.c = c) /\ Named(F, c) = {} /\ Contents(stack)' = F \cup Contents(Tail(stack))
    BY <1>2 DEF Named
  <2> HIDE DEF F
  <2> QED BY <1>1, <2>1
<1>3. ASSUME NEW f, f.c = c, Contents(stack)' = {f} \cup Contents(Tail(stack))
      PROVE  (\A d : d # c => Calls(d)' = Calls(d)) /\ Calls(c)' = {f.fun} \cup Under(c)
  <2> DEFINE F == {f}
  <2>1. (\A e \in F : e.c = c) /\ Named(F, c) = {f.fun} /\ Contents(stack)' = F \cup Contents(Tail(stack))
    BY <1>3 DEF Named
  <2> HIDE DEF F
  <2> QED BY <1>1, <2>1
<1>4. ASSUME NEW f, NEW g, f.c = c, g.c = c, Contents(stack)' = {f, g} \cup Contents(Tail(stack))
      PROVE  (\A d : d # c => Calls(d)' = Calls(d)) /\ Calls(c)' = {f.fun, g.fun} \cup Under(c)
  <2> DEFINE F == {f, g}
  <2>1. (\A e \in F : e.c = c) /\ Named(F, c) = {f.fun, g.fun} /\ Contents(stack)' = F \cup Contents(Tail(stack))
    BY <1>4 DEF Named
  <2> HIDE DEF F
  <2> QED BY <1>1, <2>1
<1>5. ASSUME NEW f, f.c = c, Contents(stack)' = {f} \cup Contents(stack)
      PROVE  (\A d : d # c => Calls(d)' = Calls(d)) /\ Calls(c)' = {f.fun} \cup Calls(c)
  BY <1>5 DEF Calls, Named
<1> QED BY <1>2, <1>3, <1>4, <1>5

\* A new function on the stack, which holds its connection or not.
LEMMA HeldCall ==
    ASSUME NEW f \in Functions, NEW c \in Conns, NEW g, g = Function(f, c, TRUE),
           f \in (Lower \cup Upper) \ {"handleRead"}
    PROVE  g \in FunctionType /\ FrameOK(g) /\ g.fun = f /\ g.c = c /\ g.held
<1>1. g \in FunctionType
  BY FunctionIsTyped
<1>2. g.fun = f /\ g.c = c /\ g.held
  BY DEF Function
<1> QED BY <1>1, <1>2 DEF FrameOK

LEMMA BareCall ==
    ASSUME NEW f \in Functions, NEW c \in Conns, NEW g, g = Function(f, c, FALSE),
           f \in Upper \ {"forceCloseInLoop"}
    PROVE  g \in FunctionType /\ FrameOK(g) /\ g.fun = f /\ g.c = c /\ ~g.held
<1>1. g \in FunctionType
  BY FunctionIsTyped
<1>2. g.fun = f /\ g.c = c /\ ~g.held
  BY DEF Function
<1> QED BY <1>1, <1>2 DEF FrameOK, Upper

LEMMA CallbackIs ==
    ASSUME NEW c \in Conns
    PROVE  /\ Callback(c) \in FunctionType /\ FrameOK(Callback(c))
           /\ Callback(c).fun = "callback" /\ Callback(c).c = c /\ Callback(c).held
<1> DEFINE g == Callback(c)
<1>1. g = Function("callback", c, TRUE) /\ "callback" \in Functions /\ "callback" \in Lower
  BY DEF Functions, Lower, Callback
<1> HIDE DEF g
<1>2. /\ g \in FunctionType /\ FrameOK(g)
      /\ g.fun = "callback" /\ g.c = c /\ g.held
  BY <1>1, HeldCall
<1> QED BY <1>2 DEF g

\* The functors of the server.
LEMMA FunctorIs ==
    ASSUME NEW n \in Queueable, NEW c \in Conns
    PROVE  LET g == Function(n, c, TRUE)
           IN  g \in FunctionType /\ FrameOK(g) /\ g.fun = n /\ g.c = c /\ g.held
<1> DEFINE g == Function(n, c, TRUE)
<1>1. g = Function(n, c, TRUE) /\ n \in Functions /\ n \in (Lower \cup Upper) \ {"handleRead"}
  BY DEF Functions, Lower, Upper, Queueable
<1> HIDE DEF g
<1>2. g \in FunctionType /\ FrameOK(g) /\ g.fun = n /\ g.c = c /\ g.held
  BY <1>1, HeldCall
<1> QED BY <1>2 DEF g

LEMMA ReportIs ==
    ASSUME SafeInv, NEW c \in Conns, NEW b \in {"up", "message", "down"}, Report(c, b)
    PROVE  /\ log' = [d \in Conns |-> log'[d]] /\ \A d \in Conns \ {c} : log'[d] = log[d]
           /\ log'[c] \in Seq({"up", "message", "down"}) /\ log'[c] # << >>
           /\ LastIsDown(log'[c]) <=> b = "down"
           /\ log'[c] = Append(log[c], b) \/ (b = "message" /\ log'[c] = log[c])
<1> DEFINE l == log[c]
<1>1. l \in Seq({"up", "message", "down"}) /\ log = [d \in Conns |-> log[d]]
  BY SafeTypes
<1>2. \/ log' = [log EXCEPT ![c] = Append(l, b)]
      \/ b = "message" /\ log' = [log EXCEPT ![c] = l] /\ l # << >> /\ l[Len(l)] = "message"
  BY DEF Report
<1> HIDE DEF l
<1>3. /\ Append(l, b) \in Seq({"up", "message", "down"}) /\ Append(l, b) # << >>
      /\ Append(l, b)[Len(Append(l, b))] = b
  BY <1>1
<1>4. CASE log' = [log EXCEPT ![c] = Append(l, b)]
  BY <1>1, <1>3, <1>4 DEF LastIsDown, l
<1>5. CASE b = "message" /\ log' = [log EXCEPT ![c] = l] /\ l # << >> /\ l[Len(l)] = "message"
  BY <1>1, <1>5 DEF LastIsDown, l
<1> QED BY <1>2, <1>4, <1>5

\* The channel of a connection that is established, closed, told to stop reading, removed.
LEMMA UpdatedIs ==
    ASSUME NEW r \in Connections, NEW e \in SUBSET Interest
    PROVE  LET q == Update([r EXCEPT !.events = e])
           IN  /\ q.reading = r.reading /\ q.life = r.life /\ q.state = r.state /\ q.events = e
               /\ r.mapped \/ r.index # "kAdded" => q.mapped
  BY DEF Connections, Update, UpdateChannel, Register, Unregister, IsNoneEvent, NoInterest

LEMMA RecordsAre ==
    ASSUME NEW r \in Connections, Consistent(r), NEW s \in States
    PROVE  /\ LET q == EnableReading([r EXCEPT !.state = s])
              IN  /\ q.state = s /\ q.life = r.life /\ q.reading = r.reading
                  /\ q.events = r.events \cup {"IN"} /\ q.mapped
           /\ LET q == DisableAll([r EXCEPT !.state = s])
              IN  /\ q.state = s /\ q.life = r.life /\ q.reading = r.reading
                  /\ q.events = {} /\ q.mapped
           /\ LET q == DisableReading([r EXCEPT !.reading = FALSE])
              IN  /\ q.state = r.state /\ q.life = r.life /\ ~q.reading
                  /\ q.events = r.events \ {"IN"} /\ q.mapped
           /\ LET q == RemoveChannel(r)
              IN  /\ q.state = r.state /\ q.life = r.life /\ q.reading = r.reading
                  /\ q.events = r.events /\ ~q.mapped
<1> DEFINE u == [r EXCEPT !.state = s]
           v == [r EXCEPT !.reading = FALSE]
<1>1. u \in Connections /\ v \in Connections
  BY DEF Connections
<1>2. /\ u.state = s /\ u.life = r.life /\ u.reading = r.reading /\ u.events = r.events
      /\ (u.mapped <=> r.mapped) /\ u.index = r.index
      /\ v.state = r.state /\ v.life = r.life /\ ~v.reading /\ v.events = r.events
      /\ (v.mapped <=> r.mapped) /\ v.index = r.index
  BY DEF Connections
<1>3. r.mapped \/ r.index # "kAdded"
  BY DEF Consistent
<1>4. r.events \cup {"IN"} \in SUBSET Interest /\ r.events \ {"IN"} \in SUBSET Interest /\ {} \in SUBSET Interest
  BY DEF Connections, Interest
<1> HIDE DEF u, v
<1>5. EnableReading(u) = Update([u EXCEPT !.events = u.events \cup {"IN"}])
      /\ DisableAll(u) = Update([u EXCEPT !.events = {}])
      /\ DisableReading(v) = Update([v EXCEPT !.events = v.events \ {"IN"}])
  BY DEF EnableReading, DisableAll, DisableReading, NoInterest
<1>6. ASSUME NEW q, NEW w \in {u, v}, NEW e \in SUBSET Interest, q = Update([w EXCEPT !.events = e])
      PROVE  /\ q.reading = w.reading /\ q.life = w.life /\ q.state = w.state /\ q.events = e
             /\ q.mapped /\ (~w.reading => ~q.reading)
  <2>1. w \in Connections /\ (w.mapped \/ w.index # "kAdded")
    BY <1>1, <1>2, <1>3
  <2> QED BY <1>6, <2>1, UpdatedIs
<1>8. LET q == EnableReading(u)
      IN  /\ q.state = s /\ q.life = r.life /\ q.reading = r.reading
          /\ q.events = r.events \cup {"IN"} /\ q.mapped
  BY <1>2, <1>4, <1>5, <1>6, SMTT(30)
<1>9. LET q == DisableAll(u)
      IN  /\ q.state = s /\ q.life = r.life /\ q.reading = r.reading
          /\ q.events = {} /\ q.mapped
  BY <1>2, <1>4, <1>5, <1>6
<1>10. LET q == DisableReading(v)
       IN  /\ q.state = r.state /\ q.life = r.life /\ ~q.reading
           /\ q.events = r.events \ {"IN"} /\ q.mapped
  <2> DEFINE q == DisableReading(v)
             e == r.events \ {"IN"}
  <2>1. q = Update([v EXCEPT !.events = e]) /\ e \in SUBSET Interest
    BY <1>2, <1>4, <1>5
  <2> HIDE DEF q, e
  <2>2. q.life = v.life /\ q.state = v.state /\ q.events = e /\ q.mapped /\ (~v.reading => ~q.reading)
    BY <1>6, <2>1
  <2>3. q.life = r.life /\ q.state = r.state /\ q.events = e /\ q.mapped /\ ~q.reading
    BY <1>2, <2>2
  <2> QED BY <2>3, Zenon DEF q, e
<1>7. LET q == RemoveChannel(r)
      IN  /\ q.state = r.state /\ q.life = r.life /\ q.reading = r.reading
          /\ q.events = r.events /\ ~q.mapped
  BY DEF Connections, RemoveChannel, Unregister
<1> QED BY <1>7, <1>8, <1>9, <1>10 DEF u, v

-----------------------------------------------------------------------------
(* The steps of TcpConnectionff.                                           *)

LEMMA AtTop ==
    ASSUME SafeInv, NEW f, NEW c \in Conns, At(f, c)
    PROVE  /\ stack # << >> /\ c = Head(stack).c /\ Head(stack).fun = f
           /\ Alive(c) /\ FrameOK(Head(stack)) /\ f \in Calls(c)
           /\ Calls(c) = {f} \cup Under(c)
           /\ f \in Queueable => Under(c) = {}
           /\ f \in {"closeCallback", "remove"} => f \notin Under(c)
           /\ Under(c) \subseteq Lower \ Queueable
           /\ conn[c] \in Connections /\ Consistent(conn[c])
           /\ active[c] # {} => phase = "events" /\ conn[c].mapped
           /\ active[c] \subseteq {"ERR", "IN", "OUT"}
           /\ LifeOf(c)
<1>1. stack # << >> /\ c = Head(stack).c /\ Head(stack).fun = f
  BY DEF At
<1>2. /\ Alive(c) /\ FrameOK(Head(stack))
      /\ Calls(c) = {f} \cup Under(c)
      /\ f \in Queueable => Under(c) = {}
      /\ f \in {"closeCallback", "remove"} => f \notin Under(c)
      /\ Under(c) \subseteq Lower \ Queueable
  BY <1>1, TopOf
<1>3. conn[c] \in Connections /\ Consistent(conn[c]) /\ active[c] \subseteq {"ERR", "IN", "OUT"}
  BY <1>2, SafeTypes DEF SafeInv, PollerInv, PollerConsistent, Alive
<1>4. (active[c] # {} => phase = "events" /\ conn[c].mapped) /\ LifeOf(c)
  BY DEF SafeInv, EventsInv, CarefulInv
<1> QED BY <1>1, <1>2, <1>3, <1>4

\* The assertion of connectionEstablished holds, and the connection is up.
LEMMA EstablishedLives ==
    ASSUME SafeInv, NEW c \in Conns, ConnectionEstablished(c)
    PROVE  CarefulInv'
<1> DEFINE f == Callback(c)
           q == EnableReading([conn[c] EXCEPT !.state = "kConnected"])
<1>1. At("connectionEstablished", c)
  BY DEF ConnectionEstablished
<1>2. /\ stack # << >> /\ c = Head(stack).c /\ Head(stack).fun = "connectionEstablished"
      /\ Alive(c) /\ Calls(c) = {"connectionEstablished"} /\ Under(c) = {}
      /\ conn[c] \in Connections /\ Consistent(conn[c]) /\ LifeOf(c)
      /\ active[c] # {} => phase = "events" /\ conn[c].mapped
  BY <1>1, AtTop DEF Queueable
<1>3. conn[c].state = "kConnecting" /\ Waits(c) = {} /\ c \in inMap /\ ~conn[c].mapped /\ log[c] = << >>
  BY <1>2 DEF LifeOf, Begins, Opens, Once
<1>4. /\ conn' = [conn EXCEPT ![c] = q] /\ Report(c, "up") /\ Return(<<f>>)
      /\ UNCHANGED <<ioQueue, others>>
  BY <1>3 DEF ConnectionEstablished, Asserting
<1>5. /\ q.state = "kConnected" /\ q.life = "alive" /\ (q.reading <=> conn[c].reading)
      /\ q.events = conn[c].events \cup {"IN"} /\ q.mapped
  BY <1>2, RecordsAre DEF States, Alive
<1>6. f \in FunctionType /\ FrameOK(f) /\ f.c = c /\ f.fun = "callback" /\ f.held
  BY CallbackIs
<1> HIDE DEF f, q
<1>7. StackShape(stack)' /\ TopIsHeld' /\ Contents(stack)' = {f} \cup Contents(Tail(stack))
  BY <1>2, <1>4, <1>6, ReturnsTo DEF Unless, Queueable, others, loopVars
<1>8. (\A d : d # c => Calls(d)' = Calls(d)) /\ Calls(c)' = {"callback"}
  BY <1>2, <1>6, <1>7, CallsAfter
<1>9. /\ log' = [d \in Conns |-> log'[d]] /\ \A d \in Conns \ {c} : log'[d] = log[d]
      /\ log'[c] \in Seq({"up", "message", "down"}) /\ log'[c] # << >> /\ ~LastIsDown(log'[c])
  BY <1>4, ReportIs
<1>10. conn'[c] = q /\ \A d \in Conns \ {c} : conn'[d] = conn[d]
  BY <1>4, SafeTypes
<1>11. Waits(c)' = {}
  BY <1>3, <1>4 DEF Waits, Rest, others, loopVars
<1>12. LifeOf(c)'
  <2>1. UNCHANGED <<inMap, baseQueue, phase, active, setup>>
    BY <1>4 DEF others, loopVars, serverVars, constant
  <2>2. Begins(c)'
    BY <1>5, <1>8, <1>10, <1>11 DEF Begins, Opens, Alive
  <2>3. Lives(c)' /\ Dies(c)'
    BY <1>2, <1>3, <1>5, <1>8, <1>9, <1>10, <1>11, <2>1 DEF LifeOf, Lives, Dies, Closes, Destroys, Alive, Up
  <2>4. Once(c)' /\ Reads(c)' /\ Phases(c)'
    BY <1>2, <1>3, <1>5, <1>8, <1>10, <1>11, <2>1 DEF LifeOf, Once, Reads, Phases, Up
  <2>5. Alive(c)'
    BY <1>5, <1>10 DEF Alive
  <2> QED BY <1>9, <2>2, <2>3, <2>4, <2>5 DEF LifeOf
<1>13. UNCHANGED <<serverVars, phase, running, next, ioQueue, timers, userRef, userCall, constant>>
       /\ \A d \in Conns \ {c} : active'[d] = active[d]
  BY <1>4 DEF others, loopVars, userVars
<1> QED BY <1>7, <1>8, <1>9, <1>10, <1>12, <1>13, StackStep

\* The destroy of a connection that is still up takes it down first.
LEMMA DestroyLives ==
    ASSUME SafeInv, NEW c \in Conns, ConnectionDestroy(c)
    PROVE  CarefulInv'
<1> DEFINE f == Callback(c)
           g == Function("remove", c, TRUE)
           q == DisableAll([conn[c] EXCEPT !.state = "kDisconnected"])
<1>1. At("connectionDestroy", c)
  BY DEF ConnectionDestroy
<1>2. /\ stack # << >> /\ c = Head(stack).c /\ Head(stack).fun = "connectionDestroy"
      /\ Alive(c) /\ Calls(c) = {"connectionDestroy"} /\ Under(c) = {}
      /\ conn[c] \in Connections /\ Consistent(conn[c]) /\ LifeOf(c)
  BY <1>1, AtTop DEF Queueable
<1>3. /\ c \notin inMap /\ conn[c].mapped /\ conn[c].state \in {"kConnected", "kDisconnected"} /\ Waits(c) = {}
      /\ "IN" \notin active[c]
  BY <1>2 DEF LifeOf, Dies, Destroys, Once, Reads
<1>4. UNCHANGED <<ioQueue, others>>
  BY DEF ConnectionDestroy
<1>5. /\ f \in FunctionType /\ FrameOK(f) /\ f.c = c /\ f.fun = "callback" /\ f.held
      /\ g \in FunctionType /\ FrameOK(g) /\ g.c = c /\ g.fun = "remove" /\ g.held
  <2>1. f \in FunctionType /\ FrameOK(f) /\ f.c = c /\ f.fun = "callback" /\ f.held
    BY CallbackIs
  <2>2. g = Function("remove", c, TRUE) /\ "remove" \in Functions /\ "remove" \in Lower
    BY DEF Functions, Lower
  <2> HIDE DEF g
  <2>3. g \in FunctionType /\ FrameOK(g) /\ g.c = c /\ g.fun = "remove" /\ g.held
    BY <2>2, HeldCall
  <2> QED BY <2>1, <2>3
<1>6. UNCHANGED <<serverVars, phase, running, next, ioQueue, timers, userRef, userCall, constant>>
      /\ UNCHANGED <<inMap, baseQueue, active, setup>>
  BY <1>4 DEF others, loopVars, userVars, serverVars, constant
<1>7. Waits(c)' = {}
  BY <1>3, <1>6 DEF Waits, Rest
<1>8. CASE conn[c].state = "kConnected"
  <2>1. conn' = [conn EXCEPT ![c] = q] /\ Report(c, "down") /\ Return(<<f, g>>)
    BY <1>8 DEF ConnectionDestroy
  <2>2. /\ q.state = "kDisconnected" /\ q.life = "alive" /\ (q.reading <=> conn[c].reading)
        /\ q.events = {} /\ q.mapped
    BY <1>2, RecordsAre DEF States, Alive
  <2> HIDE DEF f, g, q
  <2>3. StackShape(stack)' /\ TopIsHeld' /\ Contents(stack)' = {f, g} \cup Contents(Tail(stack))
    BY <1>2, <1>5, <1>6, <2>1, ReturnsToTwo DEF Below, Lower, Queueable
  <2>4. Calls(c)' = {"callback", "remove"} /\ \A d : d # c => Calls(d)' = Calls(d)
    BY <1>2, <1>5, <2>3, CallsAfter
  <2>5. /\ log' = [d \in Conns |-> log'[d]] /\ \A d \in Conns \ {c} : log'[d] = log[d]
        /\ log'[c] \in Seq({"up", "message", "down"}) /\ LastIsDown(log'[c])
    BY <2>1, ReportIs
  <2>6. conn'[c] = q /\ \A d \in Conns \ {c} : conn'[d] = conn[d]
    BY <2>1, SafeTypes
  <2>7. Begins(c)' /\ Lives(c)' /\ Dies(c)'
    BY <1>2, <1>3, <1>6, <1>7, <2>2, <2>4, <2>5, <2>6 DEF LifeOf, Begins, Opens, Lives, Dies, Closes, Destroys, Alive, Up
  <2>8. Once(c)' /\ Reads(c)' /\ Phases(c)' /\ Alive(c)'
    BY <1>2, <1>3, <1>6, <1>7, <2>2, <2>4, <2>6 DEF LifeOf, Once, Reads, Phases, Alive, Up
  <2>9. LifeOf(c)'
    BY <2>5, <2>7, <2>8 DEF LifeOf
  <2> QED BY <1>6, <2>3, <2>4, <2>5, <2>6, <2>9, StackStep
<1>9. CASE conn[c].state # "kConnected"
  <2>1. conn' = conn /\ log' = log /\ Return(<<g>>)
    BY <1>9 DEF ConnectionDestroy
  <2> HIDE DEF f, g, q
  <2>2. StackShape(stack)' /\ TopIsHeld' /\ Contents(stack)' = {g} \cup Contents(Tail(stack))
    BY <1>2, <1>5, <1>6, <2>1, ReturnsTo DEF Unless, Queueable
  <2>3. Calls(c)' = {"remove"} /\ \A d : d # c => Calls(d)' = Calls(d)
    BY <1>2, <1>5, <2>2, CallsAfter
  <2>4. Begins(c)' /\ Lives(c)' /\ Dies(c)'
    BY <1>2, <1>3, <1>6, <1>7, <1>9, <2>1, <2>3 DEF LifeOf, Begins, Opens, Lives, Dies, Closes, Destroys, Alive, Up
  <2>5. Once(c)' /\ Reads(c)' /\ Phases(c)' /\ Alive(c)'
    BY <1>2, <1>3, <1>6, <1>7, <1>9, <2>1, <2>3 DEF LifeOf, Once, Reads, Phases, Alive, Up
  <2>6. LifeOf(c)'
    BY <1>2, <2>1, <2>4, <2>5 DEF LifeOf
  <2> QED BY <1>6, <2>1, <2>2, <2>3, <2>6, SafeTypes, StackStep
<1> QED BY <1>8, <1>9

\* The assertion of remove() holds: the channel asks for nothing and the poller has it.
LEMMA RemoveLives ==
    ASSUME SafeInv, NEW c \in Conns, Remove(c)
    PROVE  CarefulInv'
<1> DEFINE q == RemoveChannel(conn[c])
<1>1. At("remove", c)
  BY DEF Remove
<1>2. /\ stack # << >> /\ c = Head(stack).c /\ Head(stack).fun = "remove"
      /\ Alive(c) /\ Calls(c) = {"remove"} \cup Under(c) /\ "remove" \notin Under(c)
      /\ Under(c) \subseteq Lower \ Queueable
      /\ conn[c] \in Connections /\ Consistent(conn[c]) /\ LifeOf(c)
  BY <1>1, AtTop
<1>3. /\ c \notin inMap /\ conn[c].mapped /\ conn[c].state = "kDisconnected" /\ Waits(c) = {}
      /\ "IN" \notin active[c] /\ conn[c].events = {} /\ ~Closes(c) /\ ~Opens(c)
  BY <1>2 DEF LifeOf, Begins, Dies, Destroys, Once, Reads, Queueable, Up
<1>4. RemoveAsserts(conn[c])
  BY <1>2, <1>3 DEF RemoveAsserts, IsNoneEvent, NoInterest, Consistent, Connections, Indices
<1>5. conn' = [conn EXCEPT ![c] = q] /\ Return(<< >>) /\ log' = log /\ UNCHANGED <<ioQueue, others>>
  BY <1>4 DEF Remove, Asserting
<1>6. UNCHANGED <<serverVars, phase, running, next, ioQueue, timers, userRef, userCall, constant>>
      /\ UNCHANGED <<inMap, baseQueue, active, setup>>
  BY <1>5 DEF others, loopVars, userVars, serverVars, constant
<1>7. q.state = "kDisconnected" /\ q.life = "alive" /\ (q.reading <=> conn[c].reading) /\ q.events = {} /\ ~q.mapped
  BY <1>2, <1>3, RecordsAre DEF States, Alive
<1> HIDE DEF q
<1>8. StackShape(stack)' /\ TopIsHeld' /\ Contents(stack)' = Contents(Tail(stack))
  BY <1>2, <1>5, <1>6, Returns
<1>9. Calls(c)' = Under(c) /\ \A d : d # c => Calls(d)' = Calls(d)
  BY <1>2, <1>8, CallsAfter
<1>10. conn'[c] = q /\ \A d \in Conns \ {c} : conn'[d] = conn[d]
  BY <1>5, SafeTypes
<1>11. Waits(c)' = {}
  BY <1>3, <1>6 DEF Waits, Rest
<1>12. Begins(c)' /\ Lives(c)' /\ Dies(c)'
  BY <1>2, <1>3, <1>5, <1>6, <1>7, <1>9, <1>10, <1>11
     DEF LifeOf, Begins, Opens, Lives, Dies, Closes, Destroys, Alive, Up, Lower, Queueable
<1>13. Once(c)' /\ Reads(c)' /\ Phases(c)' /\ Alive(c)'
  BY <1>2, <1>3, <1>6, <1>7, <1>9, <1>10, <1>11 DEF LifeOf, Once, Reads, Phases, Alive, Up, Lower, Queueable
<1>14. LifeOf(c)'
  BY <1>2, <1>5, <1>12, <1>13 DEF LifeOf
<1> QED BY <1>5, <1>6, <1>8, <1>9, <1>10, <1>14, SafeTypes, StackStep

\* The assertion of handleClose holds: only a connection that is up is closed.
LEMMA CloseLives ==
    ASSUME SafeInv, NEW c \in Conns, HandleClose(c)
    PROVE  CarefulInv'
<1> DEFINE f == Callback(c)
           g == Function("closeCallback", c, TRUE)
           q == DisableAll([conn[c] EXCEPT !.state = "kDisconnected"])
<1>1. At("handleClose", c)
  BY DEF HandleClose
<1>2. /\ stack # << >> /\ c = Head(stack).c /\ Head(stack).fun = "handleClose"
      /\ Alive(c) /\ Calls(c) = {"handleClose"} \cup Under(c) /\ Under(c) \subseteq Lower \ Queueable
      /\ conn[c] \in Connections /\ Consistent(conn[c]) /\ LifeOf(c)
  BY <1>1, AtTop
<1>3. /\ conn[c].state \in Up /\ c \in inMap /\ conn[c].mapped /\ log[c] # << >>
      /\ "IN" \notin active[c] /\ ~Closes(c) /\ ~Destroys(c) /\ ~Opens(c)
      /\ setup.single => phase = "events"
  <2>1. conn[c].state \in Up
    BY <1>2 DEF LifeOf, Lives
  <2>2. c \in inMap /\ conn[c].mapped /\ log[c] # << >>
    BY <1>2, <2>1 DEF LifeOf, Lives, Queueable
  <2>3. ~Closes(c) /\ ~Destroys(c) /\ ~Opens(c)
    BY <1>2, <2>1, <2>2 DEF LifeOf, Begins, Dies, Up
  <2>4. "IN" \notin active[c]
    BY <1>2 DEF LifeOf, Reads
  <2>5. setup.single => phase = "events"
    BY <1>2, <2>1 DEF LifeOf, Phases, Up
  <2> QED BY <2>1, <2>2, <2>3, <2>4, <2>5
<1>4. conn' = [conn EXCEPT ![c] = q] /\ Report(c, "down") /\ Return(<<f, g>>) /\ UNCHANGED <<ioQueue, others>>
  BY <1>3 DEF HandleClose, Asserting, Up
<1>5. /\ f \in FunctionType /\ FrameOK(f) /\ f.c = c /\ f.fun = "callback" /\ f.held
      /\ g \in FunctionType /\ FrameOK(g) /\ g.c = c /\ g.fun = "closeCallback" /\ g.held
  <2>1. f \in FunctionType /\ FrameOK(f) /\ f.c = c /\ f.fun = "callback" /\ f.held
    BY CallbackIs
  <2>2. g = Function("closeCallback", c, TRUE) /\ "closeCallback" \in Functions /\ "closeCallback" \in Lower
    BY DEF Functions, Lower
  <2> HIDE DEF g
  <2>3. g \in FunctionType /\ FrameOK(g) /\ g.c = c /\ g.fun = "closeCallback" /\ g.held
    BY <2>2, HeldCall
  <2> QED BY <2>1, <2>3
<1>6. UNCHANGED <<serverVars, phase, running, next, ioQueue, timers, userRef, userCall, constant>>
      /\ UNCHANGED <<inMap, baseQueue, active, setup>>
  BY <1>4 DEF others, loopVars, userVars, serverVars, constant
<1>7. Waits(c)' = Waits(c)
  BY <1>6 DEF Waits, Rest
<1>8. q.state = "kDisconnected" /\ q.life = "alive" /\ (q.reading <=> conn[c].reading) /\ q.events = {} /\ q.mapped
  BY <1>2, RecordsAre DEF States, Alive
<1> HIDE DEF f, g, q
<1>9. "closeCallback" \notin Under(c)
  BY <1>2, <1>3 DEF Closes
<1>10. StackShape(stack)' /\ TopIsHeld' /\ Contents(stack)' = {f, g} \cup Contents(Tail(stack))
  BY <1>2, <1>4, <1>5, <1>6, <1>9, ReturnsToTwo DEF Below, Lower, Under
<1>11. Calls(c)' = {"callback", "closeCallback"} \cup Under(c) /\ \A d : d # c => Calls(d)' = Calls(d)
  BY <1>2, <1>5, <1>10, CallsAfter
<1>12. /\ log' = [d \in Conns |-> log'[d]] /\ \A d \in Conns \ {c} : log'[d] = log[d]
       /\ log'[c] \in Seq({"up", "message", "down"}) /\ LastIsDown(log'[c])
  BY <1>4, ReportIs
<1>13. conn'[c] = q /\ \A d \in Conns \ {c} : conn'[d] = conn[d]
  BY <1>4, SafeTypes
<1>14. Begins(c)' /\ Lives(c)' /\ Dies(c)'
  BY <1>2, <1>3, <1>6, <1>7, <1>8, <1>11, <1>12, <1>13
     DEF LifeOf, Begins, Opens, Lives, Dies, Closes, Destroys, Alive, Up, Lower, Queueable
<1>15. Once(c)' /\ Reads(c)' /\ Phases(c)' /\ Alive(c)'
  BY <1>2, <1>3, <1>6, <1>7, <1>8, <1>9, <1>11, <1>13
     DEF LifeOf, Once, Reads, Phases, Alive, Up, Lower, Queueable, Closes, Destroys
<1>16. LifeOf(c)'
  BY <1>12, <1>14, <1>15 DEF LifeOf
<1> QED BY <1>6, <1>10, <1>11, <1>12, <1>13, <1>16, StackStep

\* The function on top makes way for another, or for none, and the channel is as it was.
LEMMA CallsChange ==
    ASSUME SafeInv, NEW c \in Conns, stack # << >>, c = Head(stack).c,
           Head(stack).fun \notin Queueable \cup {"closeCallback", "remove"},
           UNCHANGED <<serverVars, phase, running, next, ioQueue, timers, userRef, userCall, constant>>,
           active' = active, conn' = conn, log' = [d \in Conns |-> log'[d]],
           \A d \in Conns \ {c} : log'[d] = log[d],
           log'[c] = log[c] \/ (conn[c].state \in Up /\ log'[c] # << >> /\ ~LastIsDown(log'[c])),
           log'[c] \in Seq({"up", "message", "down"}),
           StackShape(stack)', TopIsHeld',
           NEW F, F \subseteq {"callback", "handleError", "handleClose"},
           Calls(c)' = F \cup Under(c), \A d : d # c => Calls(d)' = Calls(d),
           F # {} => Head(stack).fun \in {"handleRead", "forceCloseInLoop"},
           Head(stack).fun \in {"handleClose", "forceCloseInLoop"} => "handleClose" \in F
    PROVE  CarefulInv'
<1> DEFINE h == Head(stack).fun
<1>1. /\ Alive(c) /\ Calls(c) = {h} \cup Under(c) /\ Under(c) \subseteq Lower \ Queueable
      /\ LifeOf(c) /\ h \notin Queueable \cup {"closeCallback", "remove"}
      /\ F # {} => h \in {"handleRead", "forceCloseInLoop"}
      /\ h \in {"handleClose", "forceCloseInLoop"} => "handleClose" \in F
  BY TopOf DEF SafeInv, CarefulInv
<1> HIDE DEF h
<1>2. UNCHANGED <<inMap, baseQueue, active, setup>>
  BY DEF serverVars, constant
<1>3. Waits(c)' = Waits(c)
  BY DEF Waits, Rest
<1>4. F # {} => conn[c].state \in Up /\ "IN" \notin active[c]
  BY <1>1 DEF LifeOf, Lives, Reads
<1>5. setup.single /\ phase # "events" => F = {}
  BY <1>1, <1>4 DEF LifeOf, Phases, Queueable, Up
<1>6. Begins(c)' /\ Alive(c)'
  BY <1>1, <1>2, <1>3, <1>4 DEF LifeOf, Begins, Opens, Alive, Up, Lower, Queueable
<1>7. Lives(c)'
  BY <1>1, <1>2, <1>3, <1>4 DEF LifeOf, Lives, Alive, Up, Lower, Queueable
<1>8. Dies(c)'
  BY <1>1, <1>2, <1>3, <1>4 DEF LifeOf, Dies, Closes, Destroys, Alive, Up, Lower, Queueable
<1>9. Once(c)' /\ Reads(c)' /\ Phases(c)'
  BY <1>1, <1>2, <1>3, <1>4, <1>5 DEF LifeOf, Once, Reads, Phases, Alive, Up, Lower, Queueable
<1>10. LifeOf(c)'
  BY <1>6, <1>7, <1>8, <1>9 DEF LifeOf
<1> QED BY <1>2, <1>10, StackStep

\* handleRead: only a connection that is up has something to read.
LEMMA ReadLives ==
    ASSUME SafeInv, NEW c \in Conns, HandleRead(c)
    PROVE  CarefulInv'
<1>1. At("handleRead", c)
  BY DEF HandleRead
<1>2. /\ stack # << >> /\ c = Head(stack).c /\ Head(stack).fun = "handleRead" /\ ~Head(stack).held
      /\ LifeOf(c) /\ "handleRead" \in Calls(c)
  BY <1>1, AtTop DEF FrameOK
<1>3. conn[c].state \in Up
  BY <1>2 DEF LifeOf, Lives
<1>4. /\ UNCHANGED <<serverVars, phase, running, next, ioQueue, timers, userRef, userCall, constant>>
      /\ active' = active /\ conn' = conn
  BY DEF HandleRead, others, loopVars, userVars
<1>5. ASSUME NEW f \in FunctionType, FrameOK(f), f.c = c, f.fun \in {"callback", "handleError", "handleClose"},
             Return(<<f>>), Report(c, "message") \/ log' = log
      PROVE  CarefulInv'
  <2> DEFINE F == {f.fun}
  <2>1. StackShape(stack)' /\ TopIsHeld' /\ Contents(stack)' = {f} \cup Contents(Tail(stack))
    BY <1>2, <1>4, <1>5, ReturnsTo DEF Unless, Queueable
  <2>2. Calls(c)' = F \cup Under(c) /\ \A d : d # c => Calls(d)' = Calls(d)
    BY <1>2, <1>5, <2>1, CallsAfter
  <2>3. /\ log' = [d \in Conns |-> log'[d]] /\ \A d \in Conns \ {c} : log'[d] = log[d]
        /\ log'[c] = log[c] \/ (log'[c] # << >> /\ ~LastIsDown(log'[c]))
        /\ log'[c] \in Seq({"up", "message", "down"})
    BY <1>5, SafeTypes, ReportIs
  <2>4. F \subseteq {"callback", "handleError", "handleClose"}
    BY <1>5
  <2> HIDE DEF F
  <2> QED BY <1>2, <1>3, <1>4, <2>1, <2>2, <2>3, <2>4, CallsChange DEF Queueable
<1>6. CASE Report(c, "message") /\ Return(<<Callback(c)>>)
  BY <1>5, <1>6, CallbackIs
<1>7. ASSUME NEW n \in {"handleError", "handleClose"}, Return(<<Function(n, c, FALSE)>>), log' = log
      PROVE  CarefulInv'
  <2> DEFINE f == Function(n, c, FALSE)
  <2>1. n \in Functions /\ n \in Upper \ {"forceCloseInLoop"} /\ f = Function(n, c, FALSE) /\ Return(<<f>>)
    BY <1>7 DEF Functions, Upper
  <2> HIDE DEF f
  <2>2. f \in FunctionType /\ FrameOK(f) /\ f.fun = n /\ f.c = c
    BY <2>1, BareCall, ZenonT(60)
  <2> QED BY <1>5, <1>7, <2>1, <2>2
<1> QED BY <1>6, <1>7 DEF HandleRead

\* What returns without a change of the connection.
LEMMA ReturnLives ==
    ASSUME SafeInv, stack # << >>, Return(<< >>),
           Head(stack).fun \in {"handleError", "shutdownInLoop", "callback", "event"},
           UNCHANGED <<conn, log, serverVars, loopVars, ioQueue, timers, userRef, userCall, constant>>
    PROVE  CarefulInv'
<1> DEFINE F == {}
<1>1. PICK c \in Conns : c = Head(stack).c
  BY TopOf
<1>2. UNCHANGED <<phase, running, next, active>>
  BY DEF loopVars
<1>3. StackShape(stack)' /\ TopIsHeld' /\ Contents(stack)' = Contents(Tail(stack))
  BY <1>2, Returns
<1>4. Calls(c)' = Under(c) /\ \A d : d # c => Calls(d)' = Calls(d)
  BY <1>1, <1>3, CallsAfter
<1>5. Calls(c)' = F \cup Under(c) /\ F \subseteq {"callback", "handleError", "handleClose"} /\ F = {}
  BY <1>4
<1>6. log' = [d \in Conns |-> log'[d]] /\ \A d \in Conns : log'[d] \in Seq({"up", "message", "down"})
  BY SafeTypes
<1>7. Head(stack).fun \notin Queueable \cup {"closeCallback", "remove", "handleClose", "forceCloseInLoop"}
  BY DEF Queueable
<1> HIDE DEF F
<1> QED BY <1>1, <1>2, <1>3, <1>4, <1>5, <1>6, <1>7, CallsChange

\* forceCloseInLoop is only called of a connection that is up, and closes it.
LEMMA ForceCloseLives ==
    ASSUME SafeInv, NEW c \in Conns, ForceCloseInLoop(c)
    PROVE  CarefulInv'
<1> DEFINE f == Function("handleClose", c, TRUE)
           F == {"handleClose"}
<1>1. At("forceCloseInLoop", c)
  BY DEF ForceCloseInLoop
<1>2. /\ stack # << >> /\ c = Head(stack).c /\ Head(stack).fun = "forceCloseInLoop"
      /\ LifeOf(c) /\ "forceCloseInLoop" \in Calls(c)
  BY <1>1, AtTop DEF FrameOK
<1>3. conn[c].state \in Up
  BY <1>2 DEF LifeOf, Lives
<1>4. /\ UNCHANGED <<serverVars, phase, running, next, ioQueue, timers, userRef, userCall, constant>>
      /\ active' = active /\ conn' = conn /\ log' = log /\ Return(<<f>>)
  BY <1>3 DEF ForceCloseInLoop, others, loopVars, userVars, Up
<1>5. f = Function("handleClose", c, TRUE) /\ "handleClose" \in Functions /\ "handleClose" \in Upper
  BY DEF Functions, Upper
<1> HIDE DEF f
<1>6. f \in FunctionType /\ FrameOK(f) /\ f.fun = "handleClose" /\ f.c = c /\ f.held
  BY <1>5, HeldCall
<1>7. StackShape(stack)' /\ TopIsHeld' /\ Contents(stack)' = {f} \cup Contents(Tail(stack))
  BY <1>2, <1>4, <1>6, ReturnsTo DEF Unless, Queueable
<1>8. Calls(c)' = F \cup Under(c) /\ \A d : d # c => Calls(d)' = Calls(d)
  BY <1>2, <1>6, <1>7, CallsAfter
<1>9. F \subseteq {"callback", "handleError", "handleClose"} /\ "handleClose" \in F
  OBVIOUS
<1>10. log' = [d \in Conns |-> log'[d]] /\ \A d \in Conns : log'[d] \in Seq({"up", "message", "down"})
  BY <1>4, SafeTypes
<1> HIDE DEF F
<1> QED BY <1>2, <1>4, <1>7, <1>8, <1>9, <1>10, CallsChange DEF Queueable

\* stopReadInLoop changes the channel of a connection that is up, and no other.
LEMMA StopReadLives ==
    ASSUME SafeInv, NEW c \in Conns, StopReadInLoop(c)
    PROVE  CarefulInv'
<1> DEFINE q == DisableReading([conn[c] EXCEPT !.reading = FALSE])
<1>1. At("stopReadInLoop", c)
  BY DEF StopReadInLoop
<1>2. /\ stack # << >> /\ c = Head(stack).c /\ Head(stack).fun = "stopReadInLoop"
      /\ Alive(c) /\ Calls(c) = {"stopReadInLoop"} \cup Under(c) /\ Under(c) \subseteq Lower \ Queueable
      /\ conn[c] \in Connections /\ Consistent(conn[c]) /\ LifeOf(c)
  BY <1>1, AtTop
<1>3. /\ UNCHANGED <<serverVars, phase, running, next, ioQueue, timers, userRef, userCall, constant>>
      /\ UNCHANGED <<inMap, baseQueue, active, setup>>
      /\ log' = log /\ Return(<< >>)
  BY DEF StopReadInLoop, others, loopVars, userVars, serverVars, constant
<1>4. /\ \A d \in Conns \ {c} : conn'[d] = conn[d]
      /\ conn'[c] = IF conn[c].reading \/ IsReading(conn[c]) THEN q ELSE conn[c]
  BY SafeTypes DEF StopReadInLoop
<1>5. /\ q.state = conn[c].state /\ q.life = conn[c].life /\ ~q.reading
      /\ q.events = conn[c].events \ {"IN"} /\ q.mapped
  BY <1>2, RecordsAre DEF States
<1> HIDE DEF q
<1>6. /\ conn'[c].state = conn[c].state /\ conn'[c].life = "alive" /\ ~conn'[c].reading
      /\ conn'[c].events \subseteq conn[c].events /\ (conn'[c].mapped <=> conn[c].mapped)
  <2>1. CASE conn[c].reading \/ IsReading(conn[c])
    <3>1. conn[c].mapped
      BY <1>2, <2>1 DEF LifeOf, Reads, Lives, IsReading
    <3> QED BY <1>2, <1>4, <1>5, <2>1, <3>1 DEF Alive
  <2>2. CASE ~(conn[c].reading \/ IsReading(conn[c]))
    BY <1>2, <1>4, <2>2 DEF Alive
  <2> QED BY <2>1, <2>2
<1>7. StackShape(stack)' /\ TopIsHeld' /\ Contents(stack)' = Contents(Tail(stack))
  BY <1>2, <1>3, Returns
<1>8. Calls(c)' = Under(c) /\ \A d : d # c => Calls(d)' = Calls(d)
  BY <1>2, <1>7, CallsAfter
<1>9. Waits(c)' = Waits(c)
  BY <1>3 DEF Waits, Rest
<1>10. Begins(c)' /\ Lives(c)' /\ Alive(c)'
  BY <1>2, <1>3, <1>6, <1>8, <1>9 DEF LifeOf, Begins, Lives, Opens, Alive, Up, Lower, Queueable
<1>11. Dies(c)'
  BY <1>2, <1>3, <1>6, <1>8, <1>9 DEF LifeOf, Dies, Closes, Destroys, Alive, Up, Lower, Queueable
<1>12. Once(c)' /\ Reads(c)' /\ Phases(c)'
  BY <1>2, <1>3, <1>6, <1>8, <1>9 DEF LifeOf, Once, Reads, Phases, Alive, Up, Lower, Queueable
<1>13. LifeOf(c)'
  BY <1>2, <1>3, <1>10, <1>11, <1>12 DEF LifeOf
<1> QED BY <1>3, <1>4, <1>7, <1>8, <1>13, SafeTypes, StackStep

\* handleEventWithGuard calls handleRead only of a connection that is up.
LEMMA EventLives ==
    ASSUME SafeInv, NEW c \in Conns, HandleEventWithGuard(c)
    PROVE  CarefulInv'
<1>1. At("event", c)
  BY DEF HandleEventWithGuard
<1>2. /\ stack # << >> /\ c = Head(stack).c /\ Head(stack).fun = "event"
      /\ Alive(c) /\ Calls(c) = {"event"} \cup Under(c) /\ Under(c) \subseteq Lower \ Queueable
      /\ LifeOf(c) /\ active[c] \subseteq {"ERR", "IN", "OUT"}
  BY <1>1, AtTop
<1>3. /\ UNCHANGED <<serverVars, phase, running, next, ioQueue, timers, userRef, userCall, constant>>
      /\ UNCHANGED <<inMap, baseQueue, setup, conn, log>>
  BY DEF HandleEventWithGuard, userVars, serverVars, constant, objects
<1>4. CASE active[c] = {}
  <2>1. Return(<< >>) /\ UNCHANGED loopVars
    BY <1>3, <1>4 DEF HandleEventWithGuard, loopVars
  <2> QED BY <1>2, <1>3, <2>1, ReturnLives
<1>5. CASE active[c] # {}
  <2> DEFINE bit == NextBit(active[c])
             n   == HandlerOf(bit)
             f   == Function(n, c, FALSE)
  <2>1. "OUT" \notin active[c] /\ ("IN" \in active[c] => conn[c].state \in Up /\ Calls(c) \subseteq {"event", "handleError"})
    BY <1>2 DEF LifeOf, Reads
  <2>2. bit \in active[c] /\ bit \in {"ERR", "IN"} /\ (bit = "IN" => active[c] = {"IN"})
    BY <1>2, <1>5, <2>1 DEF NextBit
  <2>3. (bit = "ERR" => n = "handleError") /\ (bit = "IN" => n = "handleRead")
    BY <2>2 DEF HandlerOf
  <2>4. stack' = <<f>> \o stack /\ active' = [active EXCEPT ![c] = active[c] \ {bit}]
    BY <1>5 DEF HandleEventWithGuard
  <2>5. active'[c] = active[c] \ {bit} /\ \A d \in Conns \ {c} : active'[d] = active[d]
    BY <2>4, SafeTypes
  <2>6. f = Function(n, c, FALSE) /\ n \in Functions /\ n \in Upper \ {"forceCloseInLoop"}
    BY <2>2, <2>3 DEF Functions, Upper
  <2> HIDE DEF f
  <2>7. f \in FunctionType /\ FrameOK(f) /\ f.fun = n /\ f.c = c
    BY <2>6, BareCall
  <2> HIDE DEF n, bit
  <2>8. n \notin Queueable \cup {"closeCallback", "remove", "callback", "event"}
    BY <2>2, <2>3 DEF Queueable
  <2>9. StackShape(stack)' /\ TopIsHeld' /\ Contents(stack)' = {f} \cup Contents(stack)
    BY <1>2, <1>3, <2>4, <2>7, <2>8, CallsOne
  <2>10. Calls(c)' = {n} \cup Calls(c) /\ \A d : d # c => Calls(d)' = Calls(d)
    BY <1>2, <2>7, <2>9, CallsAfter
  <2>11. Waits(c)' = Waits(c)
    BY <1>3 DEF Waits, Rest
  <2>12. Begins(c)' /\ Dies(c)' /\ Alive(c)'
    BY <1>2, <1>3, <2>2, <2>3, <2>10, <2>11 DEF LifeOf, Begins, Dies, Closes, Destroys, Opens, Alive
  <2>13. Lives(c)' /\ Once(c)'
    BY <1>2, <1>3, <2>1, <2>2, <2>3, <2>10, <2>11 DEF LifeOf, Lives, Once, Alive
  <2>14. Reads(c)'
    BY <1>2, <1>3, <2>1, <2>2, <2>3, <2>5, <2>10 DEF LifeOf, Reads
  <2>15. Phases(c)'
    BY <1>2, <1>3, <2>10 DEF LifeOf, Phases
  <2>16. LifeOf(c)'
    BY <1>2, <1>3, <2>12, <2>13, <2>14, <2>15 DEF LifeOf
  <2> QED BY <1>3, <2>5, <2>9, <2>10, <2>16, SafeTypes, StackStep
<1> QED BY <1>4, <1>5

\* What a callback may call: shutdown and forceClose of a connection that is up, and stopRead.
LEMMA CallbackLives ==
    ASSUME SafeInv, NEW op \in Operations, NEW d \in Conns, CallFromCallback(op, d)
    PROVE  CarefulInv'
<1>1. PICK c \in Conns : c = Head(stack).c /\ stack # << >>
  BY TopOf DEF CallFromCallback
<1>2. /\ d = c /\ op \in {"shutdown", "forceClose", "stopRead"} /\ (setup.stops => op # "shutdown")
  BY <1>1 DEF CallFromCallback, SafeInv, Careful
<1>3. /\ stack # << >> /\ c = Head(stack).c /\ Head(stack).fun = "callback"
      /\ Alive(c) /\ Calls(c) = {"callback"} \cup Under(c) /\ Under(c) \subseteq Lower \ Queueable
      /\ LifeOf(c) /\ conn[c] \in Connections
  BY <1>1, TopOf, SafeTypes DEF CallFromCallback, SafeInv, CarefulInv
<1>4. /\ UNCHANGED <<serverVars, phase, running, next, ioQueue, timers, userRef, userCall, constant>>
      /\ UNCHANGED <<inMap, baseQueue, setup, log, active>>
  BY <1>2 DEF CallFromCallback, loopVars, serverVars, constant
<1> DEFINE n == IF op = "shutdown" THEN "shutdownInLoop"
                ELSE IF op = "forceClose" THEN "forceCloseInLoop" ELSE "stopReadInLoop"
           f == InLoop(op, c, 0, 0)
<1>5. stack' = <<f>> \o stack /\ Permitted(op, c) /\ Store(op, c)
  BY <1>2 DEF CallFromCallback, Amounts
<1>6. f \in FunctionType /\ FrameOK(f) /\ f.fun = n /\ f.c = c
  <2>1. f.fun = n /\ f.c = c /\ f.n = 0 /\ (f.held <=> op = "forceClose")
    BY <1>2 DEF InLoop
  <2>2. 0 \in 0 .. MaxSend /\ op \in Callable \ {"forceCloseWithDelay"}
    BY <1>2, BoundsAssumption DEF Callable, Operations
  <2>3. f \in FunctionType
    BY <2>2, InLoopIsTyped
  <2> QED BY <1>2, <2>1, <2>3 DEF FrameOK, Lower, Upper
<1>7. /\ op = "shutdown" => n = "shutdownInLoop"
      /\ op = "forceClose" => n = "forceCloseInLoop"
      /\ op = "stopRead" => n = "stopReadInLoop"
  OBVIOUS
<1> HIDE DEF f, n
<1>8. n \notin Queueable \cup {"closeCallback", "remove", "callback", "event"}
  BY <1>2, <1>7 DEF Queueable
<1>9. StackShape(stack)' /\ TopIsHeld' /\ Contents(stack)' = {f} \cup Contents(stack)
  BY <1>3, <1>4, <1>5, <1>6, <1>8, CallsOne
<1>10. Calls(c)' = {n} \cup Calls(c) /\ \A e : e # c => Calls(e)' = Calls(e)
  BY <1>3, <1>6, <1>9, CallsAfter
<1>11. Waits(c)' = Waits(c)
  BY <1>4 DEF Waits, Rest
<1>12. /\ \A e \in Conns \ {c} : conn'[e] = conn[e]
       /\ op # "stopRead" => conn[c].state \in Up /\ conn'[c].state = "kDisconnecting"
       /\ op = "stopRead" => conn'[c].state = conn[c].state
       /\ conn'[c].life = "alive" /\ (conn'[c].mapped <=> conn[c].mapped)
       /\ (conn'[c].reading <=> conn[c].reading) /\ conn'[c].events = conn[c].events
  <2>1. CASE op = "stopRead"
    BY <1>3, <1>5, <2>1 DEF Store, Stores, Alive
  <2>2. CASE op # "stopRead"
    <3>1. conn[c].state \in Up /\ conn' = [conn EXCEPT ![c] = [conn[c] EXCEPT !.state = "kDisconnecting"]]
      BY <1>2, <1>5, <2>2 DEF Store, Stores, Permitted, Up
    <3>2. /\ conn'[c] = [conn[c] EXCEPT !.state = "kDisconnecting"]
          /\ \A e \in Conns \ {c} : conn'[e] = conn[e]
      BY <3>1, SafeTypes
    <3> DEFINE r == conn[c]
               s == [r EXCEPT !.state = "kDisconnecting"]
    <3>3. r \in Connections /\ r.life = "alive"
      BY <1>3 DEF Alive
    <3> HIDE DEF r
    <3>4. /\ s.state = "kDisconnecting" /\ s.life = "alive" /\ (s.mapped <=> r.mapped)
          /\ (s.reading <=> r.reading) /\ s.events = r.events
      BY <3>3 DEF Connections
    <3> QED BY <2>2, <3>1, <3>2, <3>4 DEF r
  <2> QED BY <2>1, <2>2
<1>13. setup.single /\ phase # "events" => op = "stopRead" /\ conn[c].state = "kDisconnected"
  BY <1>2, <1>3, <1>12 DEF LifeOf, Phases, Up
<1>14. Begins(c)' /\ Alive(c)'
  BY <1>2, <1>3, <1>4, <1>7, <1>10, <1>11, <1>12 DEF LifeOf, Begins, Opens, Alive, Up, Lower, Queueable
<1>15. Lives(c)'
  BY <1>2, <1>3, <1>4, <1>7, <1>10, <1>11, <1>12 DEF LifeOf, Lives, Alive, Up, Lower, Queueable
<1>16. Dies(c)'
  BY <1>2, <1>3, <1>4, <1>7, <1>10, <1>11, <1>12 DEF LifeOf, Dies, Closes, Destroys, Alive, Up, Lower, Queueable
<1>17. Once(c)' /\ Reads(c)'
  BY <1>2, <1>3, <1>4, <1>7, <1>10, <1>11, <1>12 DEF LifeOf, Once, Reads, Alive, Up, Lower, Queueable
<1>18. Phases(c)'
  BY <1>2, <1>3, <1>4, <1>7, <1>10, <1>12, <1>13 DEF LifeOf, Phases
<1>19. LifeOf(c)'
  BY <1>3, <1>4, <1>14, <1>15, <1>16, <1>17, <1>18 DEF LifeOf
<1> QED BY <1>4, <1>9, <1>10, <1>12, <1>19, SafeTypes, StackStep

-----------------------------------------------------------------------------
(* The queues.                                                             *)

OnceIn(s) == \A i, j \in DOMAIN s : s[i] = s[j] => i = j
OnceOf(s) == \A i, j \in DOMAIN s : s[i].c = s[j].c => i = j

LEMMA HeadOnce ==
    ASSUME NEW S, NEW s \in Seq(S), s # << >>, OnceIn(s)
    PROVE  /\ Tail(s) \in Seq(S) /\ OnceIn(Tail(s)) /\ Head(s) \in S
           /\ Head(s) \notin Contents(Tail(s)) /\ Contents(s) = {Head(s)} \cup Contents(Tail(s))
<1> DEFINE t == Tail(s)
<1>1. /\ t \in Seq(S) /\ Len(t) + 1 = Len(s) /\ Len(t) \in Nat
      /\ \A i \in 1 .. Len(t) : i + 1 \in 1 .. Len(s) /\ i + 1 # 1 /\ t[i] = s[i + 1]
      /\ Head(s) = s[1] /\ 1 \in 1 .. Len(s) /\ Head(s) \in S
  OBVIOUS
<1>2. DOMAIN s = 1 .. Len(s) /\ DOMAIN t = 1 .. Len(t)
  BY <1>1
<1> HIDE DEF t
<1>3. OnceIn(t)
  <2> SUFFICES ASSUME NEW i \in 1 .. Len(t), NEW j \in 1 .. Len(t), t[i] = t[j]
               PROVE  i = j
    BY <1>2 DEF OnceIn
  <2>1. i + 1 = j + 1
    BY <1>1, <1>2, SMTT(30) DEF OnceIn
  <2> QED BY <2>1
<1>4. Head(s) \notin Contents(t)
  <2> SUFFICES ASSUME Head(s) \in Contents(t)
               PROVE  FALSE
    OBVIOUS
  <2>1. PICK i \in 1 .. Len(t) : Head(s) = t[i]
    BY <1>1, ContentsAre
  <2> QED BY <1>1, <1>2, <2>1 DEF OnceIn
<1>5. Contents(s) = {Head(s)} \cup Contents(t)
  <2>1. ASSUME NEW f \in Contents(s), f # Head(s)
        PROVE  f \in Contents(t)
    <3>1. PICK i \in 1 .. Len(s) : f = s[i]
      BY ContentsAre
    <3>2. i # 1
      BY <1>1, <2>1, <3>1
    <3>3. i - 1 \in 1 .. Len(t) /\ (i - 1) + 1 = i
      BY <1>1, <3>2
    <3>4. t[i - 1] = f
      BY <1>1, <3>1, <3>3
    <3> QED BY <1>1, <3>3, <3>4, ContentsAre
  <2>2. Head(s) \in Contents(s) /\ Contents(t) \subseteq Contents(s)
    BY ContentsOf DEF t
  <2> QED BY <2>1, <2>2
<1> QED BY <1>1, <1>3, <1>4, <1>5 DEF t

LEMMA AppendOnce ==
    ASSUME NEW S, NEW s \in Seq(S), NEW e \in S
    PROVE  /\ Append(s, e) \in Seq(S) /\ Contents(Append(s, e)) = Contents(s) \cup {e}
           /\ OnceIn(s) /\ e \notin Contents(s) => OnceIn(Append(s, e))
           /\ OnceOf(s) /\ (\A f \in Contents(s) : f.c # e.c) => OnceOf(Append(s, e))
<1> DEFINE t == Append(s, e)
<1>1. /\ t \in Seq(S) /\ Len(t) = Len(s) + 1 /\ Len(s) \in Nat
      /\ \A i \in 1 .. Len(s) : t[i] = s[i]
      /\ t[Len(s) + 1] = e
  OBVIOUS
<1>2. DOMAIN s = 1 .. Len(s) /\ DOMAIN t = 1 .. Len(t)
  BY <1>1
<1> HIDE DEF t
<1>3. ASSUME NEW i \in 1 .. Len(t), i # Len(t)
      PROVE  i \in 1 .. Len(s) /\ t[i] = s[i] /\ s[i] \in Contents(s)
  <2>1. i \in 1 .. Len(s)
    BY <1>1, <1>3
  <2> QED BY <1>1, <2>1, ContentsAre
<1>4. t[Len(t)] = e
  BY <1>1
<1>5. ASSUME OnceIn(s), e \notin Contents(s)
      PROVE  OnceIn(t)
  <2> SUFFICES ASSUME NEW i \in 1 .. Len(t), NEW j \in 1 .. Len(t), t[i] = t[j]
               PROVE  i = j
    BY <1>2 DEF OnceIn
  <2>1. CASE i # Len(t) /\ j # Len(t)
    <3>1. i \in 1 .. Len(s) /\ j \in 1 .. Len(s) /\ s[i] = s[j]
      BY <1>3, <2>1
    <3> QED BY <1>2, <1>5, <3>1 DEF OnceIn
  <2>2. CASE i = Len(t) /\ j # Len(t)
    BY <1>3, <1>4, <1>5, <2>2
  <2>3. CASE i # Len(t) /\ j = Len(t)
    BY <1>3, <1>4, <1>5, <2>3
  <2> QED BY <2>1, <2>2, <2>3
<1>6. ASSUME OnceOf(s), \A f \in Contents(s) : f.c # e.c
      PROVE  OnceOf(t)
  <2> SUFFICES ASSUME NEW i \in 1 .. Len(t), NEW j \in 1 .. Len(t), t[i].c = t[j].c
               PROVE  i = j
    BY <1>2 DEF OnceOf
  <2>1. CASE i # Len(t) /\ j # Len(t)
    <3>1. i \in 1 .. Len(s) /\ j \in 1 .. Len(s) /\ s[i].c = s[j].c
      BY <1>3, <2>1
    <3> QED BY <1>2, <1>6, <3>1 DEF OnceOf
  <2>2. CASE i = Len(t) /\ j # Len(t)
    BY <1>3, <1>4, <1>6, <2>2
  <2>3. CASE i # Len(t) /\ j = Len(t)
    BY <1>3, <1>4, <1>6, <2>3
  <2> QED BY <2>1, <2>2, <2>3
<1> QED BY <1>1, <1>5, <1>6, AppendContents DEF t

\* A connection that does not wait is in no queue.
LEMMA WaitsNot ==
    ASSUME NEW c, Waits(c) = {}
    PROVE  \A f \in Contents(ioQueue) \cup Rest : f.c # c
  BY DEF Waits, Named

LEMMA RestIs ==
    ASSUME SafeInv
    PROVE  Rest \subseteq Contents(running)
<1>1. running \in Seq(FunctionType) /\ next \in 1 .. Len(running) + 1 /\ Len(running) \in Nat
  BY SafeTypes
<1>2. next .. Len(running) \subseteq 1 .. Len(running) /\ DOMAIN running = 1 .. Len(running)
  BY <1>1
<1> QED BY <1>2 DEF Rest, Contents

\* A functor of a connection that waits nowhere is queued.
LEMMA QueueStep ==
    ASSUME SafeInv, NEW c \in Conns, NEW e \in FunctionType, e.c = c, e.fun \in Queueable, e.held,
           setup.single => e.fun = "connectionDestroy" /\ phase = "events",
           Waits(c) = {}, ioQueue' = Append(ioQueue, e), UNCHANGED <<running, next, phase, setup>>,
           OnceIn(baseQueue)', setup.single => baseQueue' = << >>
    PROVE  /\ QueuesOK' /\ OncePending'
           /\ Waits(c)' = {e.fun} /\ \A d : d # c => Waits(d)' = Waits(d)
           /\ Batch' = Batch \cup {e}
<1>1. /\ ioQueue \in Seq(FunctionType) /\ OnceOf(ioQueue) /\ Rest' = Rest
      /\ \A f \in Contents(ioQueue) \cup Rest : f.c # c
      /\ QueuesOK /\ OncePending
  <2>1. ioQueue \in Seq(FunctionType)
    BY SafeTypes
  <2>2. QueuesOK /\ OncePending
    BY DEF SafeInv, CarefulInv
  <2>3. OnceOf(ioQueue)
    BY <2>2 DEF OncePending, OnceOf
  <2>4. Rest' = Rest
    BY DEF Rest
  <2>5. \A f \in Contents(ioQueue) \cup Rest : f.c # c
    BY WaitsNot
  <2> QED BY <2>1, <2>2, <2>3, <2>4, <2>5
<1>2. OnceOf(ioQueue') /\ Contents(ioQueue)' = Contents(ioQueue) \cup {e}
  <2> DEFINE q == Append(ioQueue, e)
  <2>1. OnceOf(q) /\ Contents(q) = Contents(ioQueue) \cup {e}
    BY <1>1, AppendOnce
  <2> QED BY <2>1
<1>3. QueuesOK'
  BY <1>1, <1>2 DEF QueuesOK, QueueShape
<1>4. OncePending'
  <2>1. \A i, j \in DOMAIN ioQueue' : ioQueue'[i].c = ioQueue'[j].c => i = j
    BY <1>2 DEF OnceOf
  <2>2. \A i, j \in DOMAIN baseQueue' : baseQueue'[i] = baseQueue'[j] => i = j
    BY DEF OnceIn
  <2>3. \A i, j \in next' .. Len(running') : running'[i].c = running'[j].c => i = j
    BY <1>1 DEF OncePending
  <2>4. \A f \in Contents(ioQueue)', g \in Rest' : f.c # g.c
    BY <1>1, <1>2 DEF OncePending
  <2> QED BY <2>1, <2>2, <2>3, <2>4 DEF OncePending
<1>5. Waits(c)' = {e.fun} /\ \A d : d # c => Waits(d)' = Waits(d)
  BY <1>1, <1>2 DEF Waits, Named
<1>6. Batch' = Batch \cup {e}
  BY <1>2 DEF Batch
<1> QED BY <1>3, <1>4, <1>5, <1>6

-----------------------------------------------------------------------------
(* A connection that is closed is removed from the server.                 *)

\* Whatever waits of a connection that is to be removed would have removed it already.
LEMMA ClosedIs ==
    ASSUME SafeInv, NEW c \in Conns, Closes(c)
    PROVE  /\ Alive(c) /\ LifeOf(c) /\ conn[c].state = "kDisconnected" /\ c \in inMap /\ conn[c].mapped
           /\ Waits(c) = {} /\ ~Opens(c) /\ ~Destroys(c) /\ "IN" \notin active[c]
<1>1. LifeOf(c) /\ Uses(c)
  BY DEF SafeInv, CarefulInv, Uses, Closes
<1>2. Alive(c) /\ conn[c].state = "kDisconnected" /\ c \in inMap /\ conn[c].mapped
  BY <1>1 DEF LifeOf, Dies
<1>3. ~Opens(c) /\ ~Destroys(c) /\ "IN" \notin active[c]
  BY <1>1, <1>2 DEF LifeOf, Begins, Dies, Reads, Up
<1>4. Waits(c) \subseteq Queueable
  <2>1. \A f \in Contents(ioQueue) \cup Rest : f.fun \in Queueable
    BY RestIs DEF SafeInv, CarefulInv, QueuesOK, QueueShape
  <2> QED BY <2>1 DEF Waits, Named
<1>5. Waits(c) = {}
  BY <1>3, <1>4 DEF Opens, Destroys, Queueable
<1> QED BY <1>1, <1>2, <1>3, <1>5

\* removeConnectionInLoop finds the connection in connections_.
LEMMA RemovedLives ==
    ASSUME SafeInv, NEW c \in Conns, RemoveConnectionInLoop(c), Closes(c),
           StackShape(stack)', TopIsHeld',
           Calls(c)' = Calls(c) \ {"closeCallback"}, \A d : d # c => Calls(d)' = Calls(d),
           OnceIn(baseQueue)', setup.single => baseQueue' = << >> /\ phase = "events",
           c \notin Contents(baseQueue)',
           \A d \in Conns \ {c} : d \in Contents(baseQueue)' <=> d \in Contents(baseQueue)
    PROVE  CarefulInv'
<1> DEFINE e == Function("connectionDestroy", c, TRUE)
<1>1. /\ Alive(c) /\ LifeOf(c) /\ conn[c].state = "kDisconnected" /\ c \in inMap /\ conn[c].mapped
      /\ Waits(c) = {} /\ ~Opens(c) /\ ~Destroys(c) /\ "IN" \notin active[c]
  BY ClosedIs
<1>2. /\ inMap' = inMap \ {c} /\ ioQueue' = Append(ioQueue, e)
      /\ UNCHANGED <<objects, server, loopVars, timers, userVars, constant>>
  BY <1>1 DEF RemoveConnectionInLoop, Asserting
<1>3. UNCHANGED <<conn, log, server, phase, running, next, active, timers, userRef, userCall, setup, fault>>
  BY <1>2 DEF objects, loopVars, userVars, constant
<1>4. "connectionDestroy" \in Queueable
  BY DEF Queueable
<1>5. e \in FunctionType /\ e.c = c /\ e.fun = "connectionDestroy" /\ e.held
  BY <1>4, FunctorIs
<1> HIDE DEF e
<1>6. /\ QueuesOK' /\ OncePending'
      /\ Waits(c)' = {"connectionDestroy"} /\ \A d : d # c => Waits(d)' = Waits(d)
      /\ Batch' = Batch \cup {e}
  BY <1>1, <1>2, <1>3, <1>5, QueueStep DEF Queueable
<1>7. Begins(c)' /\ Lives(c)' /\ Alive(c)'
  BY <1>1, <1>2, <1>3, <1>6 DEF LifeOf, Begins, Lives, Opens, Alive, Up
<1>8. Dies(c)' /\ Once(c)'
  BY <1>1, <1>2, <1>3, <1>6 DEF LifeOf, Dies, Once, Closes, Destroys, Opens, Alive
<1>9. Reads(c)' /\ Phases(c)'
  BY <1>1, <1>3 DEF LifeOf, Reads, Phases
<1>10. LifeOf(c)'
  BY <1>1, <1>3, <1>7, <1>8, <1>9 DEF LifeOf
<1>11. ASSUME NEW d \in Conns, d # c
       PROVE  LifeOf(d)'
  <2>1. Named(Batch, d)' = Named(Batch, d)
    BY <1>5, <1>6, <1>11 DEF Named
  <2>2. (d \in inMap)' <=> d \in inMap
    BY <1>2, <1>11
  <2>3. Uses(d)' => Uses(d)
    BY <1>11, <2>1, <2>2 DEF Uses
  <2>4. LifeOf(d) /\ conn'[d] = conn[d] /\ log'[d] = log[d] /\ active'[d] = active[d]
    BY <1>3 DEF SafeInv, CarefulInv
  <2> QED BY <1>3, <1>6, <1>11, <2>2, <2>3, <2>4, SameLife
<1>12. Quiet' /\ log' = [d \in Conns |-> log'[d]]
  BY <1>3 DEF SafeInv, CarefulInv, Quiet
<1> QED BY <1>6, <1>10, <1>11, <1>12 DEF CarefulInv

LEMMA RemoveConnectionLives ==
    ASSUME SafeInv, NEW c \in Conns, RemoveConnection(c)
    PROVE  CarefulInv'
<1>1. At("closeCallback", c)
  BY DEF RemoveConnection
<1>2. /\ stack # << >> /\ c = Head(stack).c /\ "closeCallback" \in Calls(c)
      /\ Calls(c) = {"closeCallback"} \cup Under(c) /\ "closeCallback" \notin Under(c)
      /\ LifeOf(c)
  BY <1>1, AtTop
<1>3. Closes(c) /\ c \notin Contents(baseQueue)
  BY <1>2 DEF Closes, LifeOf, Once
<1>4. /\ Alive(c) /\ conn[c].state = "kDisconnected" /\ c \in inMap /\ conn[c].mapped
      /\ Waits(c) = {} /\ ~Opens(c) /\ ~Destroys(c) /\ "IN" \notin active[c]
  BY <1>3, ClosedIs
<1>5. baseQueue \in Seq(Conns) /\ OnceIn(baseQueue)
  BY SafeTypes DEF SafeInv, CarefulInv, OncePending, OnceIn
<1>6. CASE setup.single
  <2>1. RemoveConnectionInLoop(c)
    BY <1>6 DEF RemoveConnection
  <2>2. baseQueue' = baseQueue /\ stack' = Tail(stack) /\ running' = running
    BY <1>4, <1>6, <2>1 DEF RemoveConnectionInLoop, Asserting, loopVars
  <2>3. Return(<< >>)
    <3> DEFINE t == Tail(stack)
    <3>1. t \in Seq(FunctionType)
      BY <1>2, SafeTypes
    <3> HIDE DEF t
    <3>2. << >> \o t = t
      BY <3>1, ConcatEmptySeq
    <3> QED BY <2>2, <3>2 DEF Return, t
  <2>4. StackShape(stack)' /\ TopIsHeld' /\ Contents(stack)' = Contents(Tail(stack))
    BY <1>2, <2>2, <2>3, Returns
  <2>5. Calls(c)' = Calls(c) \ {"closeCallback"} /\ \A d : d # c => Calls(d)' = Calls(d)
    BY <1>2, <2>4, CallsAfter
  <2>6. phase = "events"
    BY <1>2, <1>4, <1>6 DEF LifeOf, Phases
  <2>7. baseQueue = << >>
    BY <1>6 DEF SafeInv, CarefulInv, QueuesOK
  <2>8. OnceIn(baseQueue)'
    BY <1>5, <2>2
  <2> QED BY <1>3, <2>1, <2>2, <2>4, <2>5, <2>6, <2>7, <2>8, RemovedLives
<1>7. CASE ~setup.single
  <2>1. /\ baseQueue' = Append(baseQueue, c) /\ Return(<< >>)
        /\ UNCHANGED <<objects, inMap, server, loopVars, ioQueue, timers, userVars, constant>>
    BY <1>7 DEF RemoveConnection
  <2>2. UNCHANGED <<conn, log, inMap, server, phase, running, next, active, ioQueue, timers, userRef, userCall,
                    setup, fault>>
    BY <2>1 DEF objects, loopVars, userVars, constant
  <2>3. StackShape(stack)' /\ TopIsHeld' /\ Contents(stack)' = Contents(Tail(stack))
    BY <1>2, <2>1, <2>2, Returns
  <2>4. Calls(c)' = Under(c) /\ \A d : d # c => Calls(d)' = Calls(d)
    BY <1>2, <2>3, CallsAfter
  <2>5. OnceIn(baseQueue') /\ Contents(baseQueue)' = Contents(baseQueue) \cup {c}
    <3> DEFINE q == Append(baseQueue, c)
    <3>1. OnceIn(q) /\ Contents(q) = Contents(baseQueue) \cup {c}
      BY <1>3, <1>5, AppendOnce
    <3> QED BY <2>1, <3>1
  <2>6. Rest' = Rest /\ Batch' = Batch /\ \A d : Waits(d)' = Waits(d)
    BY <2>2 DEF Rest, Batch, Waits
  <2>7. QueuesOK' /\ OncePending'
    <3>1. QueuesOK'
      BY <1>7, <2>2 DEF SafeInv, CarefulInv, QueuesOK, QueueShape
    <3>2. OncePending'
      BY <2>2, <2>5, <2>6 DEF SafeInv, CarefulInv, OncePending, OnceIn
    <3> QED BY <3>1, <3>2
  <2>8. Begins(c)' /\ Lives(c)' /\ Alive(c)'
    BY <1>2, <1>4, <2>2, <2>4, <2>6 DEF LifeOf, Begins, Lives, Opens, Alive, Up
  <2>9. Dies(c)' /\ Once(c)'
    BY <1>2, <1>4, <2>2, <2>4, <2>5, <2>6 DEF LifeOf, Dies, Once, Closes, Destroys, Opens, Alive
  <2>10. Reads(c)' /\ Phases(c)'
    BY <1>2, <1>4, <1>7, <2>2 DEF LifeOf, Reads, Phases
  <2>11. LifeOf(c)'
    BY <1>2, <2>2, <2>8, <2>9, <2>10 DEF LifeOf
  <2>12. ASSUME NEW d \in Conns, d # c
         PROVE  LifeOf(d)'
    <3>1. (d \in Contents(baseQueue))' <=> d \in Contents(baseQueue)
      BY <2>5, <2>12
    <3>2. Uses(d)' => Uses(d)
      BY <2>2, <2>4, <2>6, <2>12, <3>1 DEF Uses
    <3>3. LifeOf(d) /\ conn'[d] = conn[d] /\ log'[d] = log[d] /\ active'[d] = active[d]
      BY <2>2 DEF SafeInv, CarefulInv
    <3> QED BY <2>2, <2>4, <2>6, <2>12, <3>1, <3>2, <3>3, SameLife
  <2>13. Quiet' /\ log' = [d \in Conns |-> log'[d]]
    BY <2>2 DEF SafeInv, CarefulInv, Quiet
  <2> QED BY <2>3, <2>7, <2>11, <2>12, <2>13 DEF CarefulInv
<1> QED BY <1>6, <1>7

LEMMA BaseLives ==
    ASSUME SafeInv, BaseStep
    PROVE  CarefulInv'
<1>1. ~setup.single /\ baseQueue # << >>
  BY DEF BaseStep
<1>2. baseQueue \in Seq(Conns) /\ OnceIn(baseQueue)
  BY SafeTypes DEF SafeInv, CarefulInv, OncePending, OnceIn
<1> DEFINE t == Tail(baseQueue)
<1>3. /\ t \in Seq(Conns) /\ OnceIn(t) /\ Head(baseQueue) \in Conns
      /\ Head(baseQueue) \notin Contents(t) /\ Contents(baseQueue) = {Head(baseQueue)} \cup Contents(t)
  BY <1>1, <1>2, HeadOnce
<1>4. PICK c \in Conns : c = Head(baseQueue)
  BY <1>3
<1>5. c \in Contents(baseQueue) /\ Closes(c) /\ "closeCallback" \notin Calls(c)
  BY <1>3, <1>4 DEF Closes, SafeInv, CarefulInv, LifeOf, Once
<1>6. RemoveConnectionInLoop(c)
  BY <1>4 DEF BaseStep
<1>7. baseQueue' = t /\ stack' = stack /\ running' = running
  BY <1>1, <1>5, <1>6, ClosedIs DEF RemoveConnectionInLoop, Asserting, loopVars
<1> HIDE DEF t
<1>8. StackShape(stack)' /\ TopIsHeld' /\ \A d : Calls(d)' = Calls(d)
  BY <1>7 DEF SafeInv, CarefulInv, TopIsHeld, Calls
<1>9. /\ OnceIn(baseQueue)' /\ c \notin Contents(baseQueue)'
      /\ \A d \in Conns \ {c} : d \in Contents(baseQueue)' <=> d \in Contents(baseQueue)
  BY <1>3, <1>4, <1>7
<1> QED BY <1>1, <1>5, <1>6, <1>8, <1>9, RemovedLives

-----------------------------------------------------------------------------
(* The loop.                                                               *)

\* Between functions: nothing is on the stack.
LEMMA EmptyStack ==
    ASSUME SafeInv, stack = << >>
    PROVE  \A c : Calls(c) = {}
  BY DEF Calls, Named, Contents

\* A step of the loop itself, with an empty stack, that only moves what is queued.
LEMMA EmptyStep ==
    ASSUME SafeInv, stack = << >>,
           UNCHANGED <<conn, log, serverVars, stack, timers, userRef, userCall, constant>>,
           \A d : Waits(d)' = Waits(d), Batch' \subseteq Batch,
           QueuesOK', OncePending', phase' # "exited", \A d \in Conns : Reads(d)'
    PROVE  CarefulInv'
<1>1. \A d : Calls(d) = {} /\ Calls(d)' = {}
  <2>1. Contents(stack)' = Contents(stack)
    BY DEF Contents
  <2> QED BY <2>1, EmptyStack DEF Calls
<1>2. UNCHANGED <<inMap, server, baseQueue, setup, fault>>
  BY DEF serverVars, constant
<1>3. ASSUME NEW d \in Conns
      PROVE  LifeOf(d)'
  <2>1. LifeOf(d) /\ conn'[d] = conn[d] /\ log'[d] = log[d] /\ Waits(d)' = Waits(d)
    BY DEF SafeInv, CarefulInv
  <2>2. Named(Batch, d)' \subseteq Named(Batch, d)
    BY DEF Named
  <2>3. Uses(d)' => Uses(d)
    BY <1>1, <1>2, <2>2 DEF Uses
  <2>4. Begins(d)' /\ Lives(d)' /\ Dies(d)'
    BY <1>1, <1>2, <2>1 DEF LifeOf, Begins, Lives, Dies, Opens, Closes, Destroys, Alive
  <2>5. Once(d)' /\ Phases(d)'
    BY <1>1, <1>2, <2>1 DEF LifeOf, Once, Phases
  <2> QED BY <2>1, <2>3, <2>4, <2>5 DEF LifeOf, Alive
<1>4. StackShape(stack)' /\ TopIsHeld'
  BY DEF SafeInv, CarefulInv, TopIsHeld
<1>5. Quiet'
  BY <1>2 DEF SafeInv, CarefulInv, Quiet
<1>6. log' = [c \in Conns |-> log'[c]]
  BY DEF SafeInv, CarefulInv
<1> QED BY <1>3, <1>4, <1>5, <1>6 DEF CarefulInv

\* A channel that is asked for reads is of a connection that is up.
LEMMA PollLives ==
    ASSUME SafeInv, Poll
    PROVE  CarefulInv'
<1>1. stack = << >> /\ running = << >> /\ phase = "poll" /\ phase' = "events"
  BY DEF Poll, SafeInv, EventsInv, CarefulInv, QueuesOK
<1>2. UNCHANGED <<conn, log, serverVars, stack, running, next, ioQueue, timers, userRef, userCall, constant>>
  BY DEF Poll, objects, userVars
<1>3. Rest' = Rest /\ Batch' = Batch
  BY <1>2 DEF Rest, Batch
<1>4. \A d : Waits(d)' = Waits(d)
  BY <1>2, <1>3 DEF Waits
<1>5. QueuesOK' /\ OncePending'
  BY <1>1, <1>2, <1>3 DEF SafeInv, CarefulInv, QueuesOK, QueueShape, OncePending, serverVars, constant
<1>6. ASSUME NEW d \in Conns
      PROVE  Reads(d)'
  <2>1. Reads(d) /\ Calls(d) = {} /\ Calls(d)' = {}
    <3>1. Contents(stack)' = Contents(stack)
      BY <1>2 DEF Contents
    <3> QED BY <1>1, <3>1, EmptyStack DEF SafeInv, CarefulInv, LifeOf, Calls
  <2>2. PICK W \in SUBSET Conns : active' = [c \in Conns |-> Revents(c, c \in W)]
    BY DEF Poll
  <2>3. active'[d] = Revents(d, d \in W)
    BY <2>2
  <2>4. /\ conn[d].life # "freed" => Consistent(conn[d])
        /\ conn[d].life = "freed" => ~conn[d].registered
    BY DEF SafeInv, PollerInv, PollerConsistent
  <2>5. active'[d] \subseteq {"ERR"} \cup conn[d].events
    <3>1. CASE ~conn[d].registered
      BY <2>3, <3>1 DEF Revents
    <3>2. CASE conn[d].registered
      <4>1. conn[d].interest = conn[d].events
        BY <2>4, <3>2 DEF Consistent
      <4> QED BY <2>3, <3>2, <4>1 DEF Revents
    <3> QED BY <3>1, <3>2
  <2> QED BY <1>2, <2>1, <2>5 DEF Reads
<1> QED BY <1>1, <1>2, <1>3, <1>4, <1>5, <1>6, EmptyStep

LEMMA CheckLives ==
    ASSUME SafeInv, CheckQuit
    PROVE  CarefulInv'
<1>1. stack = << >> /\ running = << >> /\ phase = "check" /\ phase' = "poll"
  BY DEF CheckQuit, SafeInv, EventsInv, CarefulInv, QueuesOK, Quiet
<1>2. UNCHANGED <<conn, log, serverVars, stack, active, running, next, ioQueue, timers, userRef, userCall, constant>>
  BY DEF CheckQuit, objects, userVars
<1>3. Rest' = Rest /\ Batch' = Batch
  BY <1>2 DEF Rest, Batch
<1>4. \A d : Waits(d)' = Waits(d)
  BY <1>2, <1>3 DEF Waits
<1>5. QueuesOK' /\ OncePending'
  BY <1>1, <1>2, <1>3 DEF SafeInv, CarefulInv, QueuesOK, QueueShape, OncePending, serverVars, constant
<1>6. Contents(stack)' = Contents(stack)
  BY <1>2 DEF Contents
<1>7. \A d \in Conns : Reads(d)'
  BY <1>2, <1>6 DEF SafeInv, CarefulInv, LifeOf, Reads, Calls
<1> QED BY <1>1, <1>2, <1>3, <1>4, <1>5, <1>7, EmptyStep

\* What is queued becomes the batch.
LEMMA SwapLives ==
    ASSUME SafeInv, SwapFunctors
    PROVE  CarefulInv'
<1>1. /\ stack = << >> /\ running = << >> /\ phase = "events" /\ phase' = "functors"
      /\ running' = ioQueue /\ next' = 1 /\ ioQueue' = << >>
  BY DEF SwapFunctors, SafeInv, CarefulInv, QueuesOK
<1>2. UNCHANGED <<conn, log, serverVars, stack, active, timers, userRef, userCall, constant>>
  BY DEF SwapFunctors, objects, userVars
<1>3. /\ Contents(ioQueue)' = {} /\ Contents(running)' = Contents(ioQueue) /\ Contents(running) = {}
  BY <1>1 DEF Contents
<1>4. Rest' = Contents(ioQueue) /\ Rest = {}
  <2>1. Rest = {}
    BY <1>3, RestIs
  <2>2. ioQueue \in Seq(FunctionType) /\ DOMAIN ioQueue = 1 .. Len(ioQueue)
    BY SafeTypes
  <2> QED BY <1>1, <2>1, <2>2 DEF Rest, Contents
<1>5. Batch' = Batch /\ \A d : Waits(d)' = Waits(d)
  BY <1>3, <1>4 DEF Batch, Waits
<1>6. QueuesOK'
  BY <1>1, <1>2, <1>3 DEF SafeInv, CarefulInv, QueuesOK, QueueShape, serverVars, constant
<1>7. OncePending'
  <2>1. ioQueue \in Seq(FunctionType) /\ DOMAIN ioQueue = 1 .. Len(ioQueue)
    BY SafeTypes
  <2>2. \A i, j \in next' .. Len(running') : running'[i].c = running'[j].c => i = j
    BY <1>1, <2>1 DEF SafeInv, CarefulInv, OncePending
  <2>3. \A i, j \in DOMAIN ioQueue' : ioQueue'[i].c = ioQueue'[j].c => i = j
    BY <1>1
  <2>4. \A i, j \in DOMAIN baseQueue' : baseQueue'[i] = baseQueue'[j] => i = j
    BY <1>2 DEF SafeInv, CarefulInv, OncePending, serverVars
  <2> QED BY <1>3, <2>2, <2>3, <2>4 DEF OncePending
<1>8. Contents(stack)' = Contents(stack)
  BY <1>2 DEF Contents
<1>9. \A d \in Conns : Reads(d)'
  BY <1>2, <1>8 DEF SafeInv, CarefulInv, LifeOf, Reads, Calls
<1> QED BY <1>1, <1>2, <1>5, <1>6, <1>7, <1>9, EmptyStep

LEMMA EndLives ==
    ASSUME SafeInv, EndFunctors
    PROVE  CarefulInv'
<1>1. /\ stack = << >> /\ next > Len(running) /\ phase = "functors" /\ phase' = "check"
      /\ running' = << >> /\ next' = 1 /\ ioQueue' = ioQueue
  BY DEF EndFunctors
<1>2. UNCHANGED <<conn, log, serverVars, stack, active, timers, userRef, userCall, constant>>
  BY DEF EndFunctors, objects, userVars
<1>3. Rest = {} /\ Rest' = {} /\ Contents(running)' = {}
  <2>1. running \in Seq(FunctionType) /\ next \in 1 .. Len(running) + 1 /\ Len(running) \in Nat
    BY SafeTypes
  <2>2. next .. Len(running) = {}
    BY <1>1, <2>1
  <2>3. 1 .. Len(<< >>) = {}
    OBVIOUS
  <2> QED BY <1>1, <2>2, <2>3 DEF Rest, Contents
<1>4. Batch' \subseteq Batch /\ \A d : Waits(d)' = Waits(d)
  BY <1>1, <1>3 DEF Batch, Waits
<1>5. QueuesOK'
  BY <1>1, <1>2, <1>3 DEF SafeInv, CarefulInv, QueuesOK, QueueShape, serverVars, constant
<1>6. OncePending'
  <2>1. \A i, j \in next' .. Len(running') : running'[i].c = running'[j].c => i = j
    BY <1>1
  <2>2. /\ \A i, j \in DOMAIN ioQueue' : ioQueue'[i].c = ioQueue'[j].c => i = j
        /\ \A i, j \in DOMAIN baseQueue' : baseQueue'[i] = baseQueue'[j] => i = j
    BY <1>1, <1>2 DEF SafeInv, CarefulInv, OncePending, serverVars
  <2> QED BY <1>3, <2>1, <2>2 DEF OncePending
<1>7. Contents(stack)' = Contents(stack)
  BY <1>2 DEF Contents
<1>8. \A d \in Conns : Reads(d)'
  BY <1>2, <1>7 DEF SafeInv, CarefulInv, LifeOf, Reads, Calls
<1> QED BY <1>1, <1>2, <1>4, <1>5, <1>6, <1>8, EmptyStep

\* A functor of the batch runs: no other of its connection waits.
LEMMA RunLives ==
    ASSUME SafeInv, RunFunctor
    PROVE  CarefulInv'
<1> DEFINE f == running[next]
           g == [f EXCEPT !.held = FALSE]
<1>1. /\ stack = << >> /\ next <= Len(running) /\ phase = "functors" /\ next' = next + 1
      /\ stack' = <<g>>
      /\ UNCHANGED <<conn, log, serverVars, phase, active, running, ioQueue, timers, userRef, userCall, constant>>
  BY DEF RunFunctor, objects, userVars
<1>2. /\ running \in Seq(FunctionType) /\ next \in 1 .. Len(running) /\ Len(running) \in Nat
      /\ f \in Contents(running)
  <2>1. running \in Seq(FunctionType) /\ next \in 1 .. Len(running) + 1 /\ Len(running) \in Nat
    BY SafeTypes
  <2>2. next \in 1 .. Len(running)
    BY <1>1, <2>1
  <2> QED BY <2>1, <2>2, ContentsAre
<1>3. /\ f \in FunctionType /\ f.fun \in Queueable /\ f.held
      /\ setup.single => f.fun = "connectionDestroy"
  BY <1>2 DEF SafeInv, CarefulInv, QueuesOK, QueueShape
<1>4. Rest = {f} \cup Rest' /\ \A e \in Rest' : e.c # f.c
  <2>1. next .. Len(running) = {next} \cup (next + 1 .. Len(running))
        /\ next \notin next + 1 .. Len(running)
    BY <1>2
  <2>2. Rest' = {running[i] : i \in next + 1 .. Len(running)}
    BY <1>1 DEF Rest
  <2>3. Rest = {f} \cup Rest'
    BY <2>1, <2>2 DEF Rest
  <2>4. ASSUME NEW e \in Rest', e.c = f.c
        PROVE  FALSE
    <3>1. PICK i \in next + 1 .. Len(running) : e = running[i]
      BY <2>2
    <3>2. i = next
      BY <2>1, <2>4, <3>1 DEF SafeInv, CarefulInv, OncePending
    <3> QED BY <2>1, <3>1, <3>2
  <2> QED BY <2>3, <2>4
<1>5. PICK c \in Conns : c = f.c
  BY <1>3 DEF FunctionType
<1>6. g \in FunctionType /\ g.fun = f.fun /\ g.c = c /\ ~g.held
  BY <1>3, <1>5 DEF FunctionType
<1> HIDE DEF f, g
<1>7. \A e \in Contents(ioQueue) : e.c # c
  BY <1>4, <1>5 DEF SafeInv, CarefulInv, OncePending
<1>8. Batch' = Batch /\ Contents(running)' = Contents(running) /\ Contents(ioQueue)' = Contents(ioQueue)
  BY <1>1 DEF Batch, Contents
<1>9. /\ Waits(c)' = {} /\ Waits(c) = {f.fun}
      /\ \A d : d # c => Waits(d)' = Waits(d)
  BY <1>4, <1>5, <1>7, <1>8 DEF Waits, Named
<1>10. FrameOK(g)
  BY <1>3, <1>6 DEF FrameOK, Queueable, Lower, Upper
<1>11. StackShape(stack)' /\ TopIsHeld' /\ Contents(stack)' = {g}
  BY <1>1, <1>2, <1>5, <1>6, <1>8, <1>10, CallsFirst
<1>12. /\ \A d : Calls(d) = {}
       /\ Calls(c)' = {f.fun} /\ \A d : d # c => Calls(d)' = {}
  BY <1>1, <1>6, <1>11, EmptyStack DEF Calls, Named
<1>13. UNCHANGED <<inMap, server, baseQueue, setup, fault>>
  BY <1>1 DEF serverVars, constant
<1>14. QueuesOK' /\ OncePending'
  <2>1. QueuesOK'
    BY <1>1, <1>8, <1>13 DEF SafeInv, CarefulInv, QueuesOK, QueueShape
  <2>2. \A i, j \in next' .. Len(running') : running'[i].c = running'[j].c => i = j
    <3>1. next' .. Len(running') \subseteq next .. Len(running)
      BY <1>1, <1>2
    <3> QED BY <1>1, <3>1 DEF SafeInv, CarefulInv, OncePending
  <2>3. \A e \in Contents(ioQueue)', h \in Rest' : e.c # h.c
    BY <1>4, <1>8 DEF SafeInv, CarefulInv, OncePending
  <2>4. /\ \A i, j \in DOMAIN ioQueue' : ioQueue'[i].c = ioQueue'[j].c => i = j
        /\ \A i, j \in DOMAIN baseQueue' : baseQueue'[i] = baseQueue'[j] => i = j
    BY <1>1, <1>13 DEF SafeInv, CarefulInv, OncePending
  <2> QED BY <2>1, <2>2, <2>3, <2>4 DEF OncePending
<1>15. LifeOf(c)'
  <2>1. /\ LifeOf(c) /\ conn'[c] = conn[c] /\ log'[c] = log[c] /\ active'[c] = {} /\ Calls(c) = {}
        /\ active[c] = {} /\ f.fun \in Queueable
    BY <1>1, <1>3, <1>12 DEF SafeInv, EventsInv, CarefulInv
  <2>2. Uses(c) /\ Alive(c)
    <3>1. f.fun \in Named(Batch, c)
      BY <1>2, <1>5 DEF Named, Batch
    <3>2. Uses(c)
      BY <3>1 DEF Uses
    <3> QED BY <2>1, <3>2 DEF LifeOf
  <2>3. Begins(c)' /\ Lives(c)'
    BY <1>1, <1>3, <1>9, <1>12, <1>13, <2>1 DEF LifeOf, Begins, Lives, Opens, Alive, Queueable, Up
  <2>4. Dies(c)'
    BY <1>1, <1>9, <1>12, <1>13, <2>1 DEF LifeOf, Dies, Closes, Destroys, Alive, Queueable
  <2>5. Once(c)' /\ Reads(c)'
    BY <1>1, <1>9, <1>12, <1>13, <2>1 DEF LifeOf, Once, Reads, Queueable
  <2>6. Phases(c)'
    BY <1>1, <1>3, <1>12, <1>13, <2>1 DEF LifeOf, Phases
  <2> QED BY <2>1, <2>2, <2>3, <2>4, <2>5, <2>6 DEF LifeOf, Alive
<1>16. ASSUME NEW d \in Conns, d # c
       PROVE  LifeOf(d)'
  <2>1. Uses(d)' => Uses(d)
    BY <1>8, <1>12, <1>13, <1>16 DEF Uses
  <2>2. LifeOf(d) /\ conn'[d] = conn[d] /\ log'[d] = log[d] /\ active'[d] = active[d]
    BY <1>1 DEF SafeInv, CarefulInv
  <2> QED BY <1>1, <1>9, <1>12, <1>13, <1>16, <2>1, <2>2, SameLife
<1>17. Quiet' /\ log' = [d \in Conns |-> log'[d]]
  BY <1>1, <1>13 DEF SafeInv, CarefulInv, Quiet
<1> QED BY <1>11, <1>14, <1>15, <1>16, <1>17 DEF CarefulInv

\* handleEvent finds the connection alive: the poller has its channel.
LEMMA HandleEventLives ==
    ASSUME SafeInv, NEW c \in Conns, HandleEvent(c)
    PROVE  CarefulInv'
<1> DEFINE f == Function("event", c, TRUE)
<1>1. /\ stack = << >> /\ phase = "events" /\ active[c] # {} /\ stack' = <<f>>
      /\ UNCHANGED <<conn, sock, ioQueue, log, others>>
  BY DEF HandleEvent
<1>2. f = Function("event", c, TRUE) /\ "event" \in Functions /\ "event" \in Lower
  BY DEF Functions, Lower
<1> HIDE DEF f
<1>3. f \in FunctionType /\ FrameOK(f) /\ f.fun = "event" /\ f.c = c /\ f.held
  BY <1>2, HeldCall
<1>4. StackShape(stack)' /\ TopIsHeld' /\ Contents(stack)' = {f}
  BY <1>1, <1>3, CallsFirst
<1>5. /\ \A d : Calls(d) = {}
      /\ Calls(c)' = {"event"} /\ \A d : d # c => Calls(d)' = {}
  BY <1>1, <1>3, <1>4, EmptyStack DEF Calls, Named
<1>6. /\ UNCHANGED <<serverVars, phase, active, running, next, ioQueue, timers, userRef, userCall, constant>>
      /\ UNCHANGED <<inMap, baseQueue, setup>>
  BY <1>1 DEF others, loopVars, userVars, serverVars, constant
<1>7. Waits(c)' = Waits(c)
  BY <1>6 DEF Waits, Rest
<1>8. LifeOf(c) /\ conn[c].mapped /\ Alive(c)
  BY <1>1 DEF SafeInv, EventsInv, CarefulInv, LifeOf
<1>9. Begins(c)' /\ Lives(c)'
  BY <1>1, <1>5, <1>6, <1>7, <1>8 DEF LifeOf, Begins, Lives, Opens, Alive, Up
<1>10. Dies(c)'
  BY <1>1, <1>5, <1>6, <1>7, <1>8 DEF LifeOf, Dies, Closes, Destroys, Alive
<1>11. Once(c)' /\ Reads(c)' /\ Phases(c)'
  BY <1>1, <1>5, <1>6, <1>7, <1>8 DEF LifeOf, Once, Reads, Phases
<1>12. LifeOf(c)'
  BY <1>1, <1>8, <1>9, <1>10, <1>11 DEF LifeOf, Alive
<1> QED BY <1>1, <1>4, <1>5, <1>6, <1>12, SafeTypes, StackStep

-----------------------------------------------------------------------------
(* The beginning and the end of a connection.                              *)

\* What is asked of a new connection, and of the channel of a dead one.
LEMMA BornIs ==
    LET r == [NewConnection EXCEPT !.life = "alive"]
    IN  /\ r.life = "alive" /\ r.state = "kConnecting" /\ ~r.reading /\ r.events = {} /\ ~r.mapped
  BY DEF NewConnection

LEMMA AcceptedLives ==
    ASSUME SafeInv, NEW c \in Conns, NewConnectionAccepted(c)
    PROVE  CarefulInv'
<1> DEFINE f == Function("connectionEstablished", c, TRUE)
           r == [NewConnection EXCEPT !.life = "alive"]
<1>1. /\ conn[c].life = "unborn" /\ conn' = [conn EXCEPT ![c].life = "alive"] /\ inMap' = inMap \cup {c}
      /\ setup.single => phase = "events" /\ stack = << >>
      /\ setup.single => stack' = <<f>> /\ ioQueue' = ioQueue
      /\ ~setup.single => stack' = stack /\ ioQueue' = Append(ioQueue, f)
      /\ UNCHANGED <<sock, server, baseQueue, loopVars, timers, userVars, log, constant>>
  BY DEF NewConnectionAccepted
<1>2. UNCHANGED <<log, server, baseQueue, phase, active, running, next, timers, userRef, userCall, setup, fault>>
  BY <1>1 DEF loopVars, userVars, constant
<1>3. LifeOf(c) /\ ~Alive(c) /\ ~Uses(c) /\ conn[c] = NewConnection /\ log[c] = << >>
  BY <1>1 DEF SafeInv, CarefulInv, LifeOf, Begins, Alive
<1>4. /\ Calls(c) = {} /\ Named(Batch, c) = {} /\ c \notin inMap /\ c \notin Contents(baseQueue)
      /\ Waits(c) = {}
  <2>1. Calls(c) = {} /\ Named(Batch, c) = {} /\ c \notin inMap /\ c \notin Contents(baseQueue)
    BY <1>3 DEF Uses
  <2>2. Contents(ioQueue) \cup Rest \subseteq Batch
    BY RestIs DEF Batch
  <2>3. Waits(c) \subseteq Named(Batch, c)
    BY <2>2 DEF Waits, Named
  <2> QED BY <2>1, <2>3
<1>5. ~conn[c].mapped /\ active[c] = {}
  BY <1>3 DEF NewConnection, SafeInv, EventsInv
<1>6. conn'[c] = r /\ \A d \in Conns \ {c} : conn'[d] = conn[d]
  BY <1>1, <1>3, SafeTypes
<1>7. r.life = "alive" /\ r.state = "kConnecting" /\ ~r.reading /\ r.events = {} /\ ~r.mapped
  BY BornIs
<1>8. f \in FunctionType /\ FrameOK(f) /\ f.c = c /\ f.fun = "connectionEstablished" /\ f.held
  BY FunctorIs DEF Queueable
<1> HIDE DEF f, r
<1>9. /\ StackShape(stack)' /\ TopIsHeld'
      /\ \A d : d # c => Calls(d)' = Calls(d)
      /\ Calls(c)' = IF setup.single THEN {"connectionEstablished"} ELSE {}
  <2>1. CASE setup.single
    <3>1. stack = << >> /\ stack' = <<f>>
      BY <1>1, <2>1
    <3>2. StackShape(stack)' /\ TopIsHeld' /\ Contents(stack)' = {f}
      BY <1>8, <3>1, CallsFirst
    <3>3. Calls(c)' = {"connectionEstablished"} /\ \A d : d # c => Calls(d)' = {}
      BY <1>8, <3>2 DEF Calls, Named
    <3> QED BY <2>1, <3>1, <3>2, <3>3, EmptyStack
  <2>2. CASE ~setup.single
    <3>1. stack' = stack
      BY <1>1, <2>2
    <3>2. StackShape(stack)' /\ TopIsHeld'
      BY <1>2, <3>1 DEF SafeInv, CarefulInv, TopIsHeld
    <3>3. \A d : Calls(d)' = Calls(d)
      BY <3>1 DEF Calls
    <3> QED BY <1>4, <2>2, <3>2, <3>3
  <2> QED BY <2>1, <2>2
<1>10. OnceIn(baseQueue)' /\ (setup.single => baseQueue' = << >>)
  BY <1>2 DEF SafeInv, CarefulInv, QueuesOK, OncePending, OnceIn
<1>11. /\ QueuesOK' /\ OncePending'
       /\ \A d : d # c => Waits(d)' = Waits(d) /\ Named(Batch, d)' = Named(Batch, d)
       /\ Waits(c)' = IF setup.single THEN {} ELSE {"connectionEstablished"}
  <2>1. CASE setup.single
    <3>1. ioQueue' = ioQueue /\ Rest' = Rest /\ Batch' = Batch
      BY <1>1, <1>2, <2>1 DEF Rest, Batch
    <3>2. QueuesOK' /\ OncePending'
      BY <1>2, <3>1 DEF SafeInv, CarefulInv, QueuesOK, QueueShape, OncePending
    <3>3. \A d : Waits(d)' = Waits(d)
      BY <3>1 DEF Waits
    <3> QED BY <1>4, <2>1, <3>1, <3>2, <3>3
  <2>2. CASE ~setup.single
    <3>1. ioQueue' = Append(ioQueue, f)
      BY <1>1, <2>2
    <3>2. /\ QueuesOK' /\ OncePending'
          /\ Waits(c)' = {f.fun} /\ \A d : d # c => Waits(d)' = Waits(d)
          /\ Batch' = Batch \cup {f}
      BY <1>2, <1>4, <1>8, <1>10, <2>2, <3>1, QueueStep DEF Queueable
    <3>3. \A d : d # c => Named(Batch, d)' = Named(Batch, d)
      BY <1>8, <3>2 DEF Named
    <3> QED BY <1>8, <2>2, <3>2, <3>3
  <2> QED BY <2>1, <2>2
<1>12. Begins(c)' /\ Lives(c)' /\ Alive(c)'
  BY <1>1, <1>2, <1>3, <1>6, <1>7, <1>9 DEF Begins, Lives, Opens, Alive, Up
<1>13. Dies(c)' /\ Once(c)'
  <2>1. /\ \A n \in Calls(c)' \cup Waits(c)' : n = "connectionEstablished"
        /\ c \notin Contents(baseQueue)'
        /\ "connectionEstablished" \in Calls(c)' => Waits(c)' = {}
    BY <1>2, <1>4, <1>9, <1>11
  <2>2. ~Closes(c)' /\ ~Destroys(c)'
    BY <2>1 DEF Closes, Destroys
  <2>3. Dies(c)'
    BY <1>6, <1>7, <2>2 DEF Dies
  <2>4. Once(c)'
    BY <2>1 DEF Once
  <2> QED BY <2>3, <2>4
<1>14. Reads(c)' /\ Phases(c)'
  BY <1>1, <1>2, <1>5, <1>6, <1>7, <1>9 DEF Reads, Phases
<1>15. LifeOf(c)'
  BY <1>2, <1>3, <1>12, <1>13, <1>14 DEF LifeOf
<1>16. ASSUME NEW d \in Conns, d # c
       PROVE  LifeOf(d)'
  <2>1. (d \in inMap)' <=> d \in inMap
    BY <1>1, <1>16
  <2>2. Uses(d)' => Uses(d)
    BY <1>2, <1>9, <1>11, <1>16, <2>1 DEF Uses
  <2>3. LifeOf(d) /\ conn'[d] = conn[d] /\ log'[d] = log[d] /\ active'[d] = active[d]
    BY <1>2, <1>6, <1>16 DEF SafeInv, CarefulInv
  <2> QED BY <1>2, <1>9, <1>11, <1>16, <2>1, <2>2, <2>3, SameLife
<1>17. Quiet' /\ log' = [d \in Conns |-> log'[d]]
  BY <1>2 DEF SafeInv, CarefulInv, Quiet
<1> QED BY <1>9, <1>11, <1>15, <1>16, <1>17 DEF CarefulInv

\* A connection is destroyed only after its channel has left the poller.
LEMMA OrphanIs ==
    ASSUME SafeInv, NEW c \in Orphans
    PROVE  /\ c \in Conns /\ Alive(c) /\ ~Uses(c) /\ Calls(c) = {} /\ Waits(c) = {}
           /\ conn[c].state = "kDisconnected" /\ ~conn[c].mapped
<1>1. c \in Conns /\ Alive(c) /\ ~Held(c) /\ LifeOf(c)
  BY DEF Orphans, SafeInv, CarefulInv
<1>2. /\ c \notin inMap /\ c \notin Contents(baseQueue)
      /\ \A f \in Contents(ioQueue) \cup Contents(running) \cup Contents(stack) : f.c = c => ~f.held
  BY <1>1 DEF Held
<1>3. Named(Batch, c) = {}
  <2>1. \A f \in Batch : f.held
    BY DEF SafeInv, CarefulInv, QueuesOK, QueueShape, Batch
  <2> QED BY <1>2, <2>1 DEF Named, Batch
<1>4. Calls(c) = {}
  <2> SUFFICES ASSUME NEW f \in Contents(stack), f.c = c
               PROVE  FALSE
    BY DEF Calls, Named
  <2>1. stack # << >>
    BY DEF Contents
  <2>2. /\ \A g \in Contents(Tail(stack)) : Below(g)
        /\ Contents(stack) = {Head(stack)} \cup Contents(Tail(stack))
    BY <2>1, SafeTypes, TailShape
  <2>3. ~f.held
    BY <1>2
  <2>4. f = Head(stack)
    BY <2>2, <2>3 DEF Below
  <2>5. PICK g \in Contents(Tail(stack)) \cup Contents(running) : g.c = c
    BY <2>1, <2>3, <2>4 DEF SafeInv, CarefulInv, TopIsHeld
  <2>6. CASE g \in Contents(Tail(stack))
    BY <1>2, <2>2, <2>5, <2>6 DEF Below
  <2>7. CASE g \in Contents(running)
    BY <1>3, <2>5, <2>7 DEF Named, Batch
  <2> QED BY <2>5, <2>6, <2>7
<1>5. Waits(c) = {}
  <2>1. Contents(ioQueue) \cup Rest \subseteq Batch
    BY RestIs DEF Batch
  <2> QED BY <1>3, <2>1 DEF Waits, Named
<1>6. ~Uses(c)
  BY <1>2, <1>3, <1>4 DEF Uses
<1>7. conn[c].state = "kDisconnected"
  <2>1. conn[c].state \in States
    BY <1>1, SafeTypes DEF Connections
  <2>2. conn[c].state # "kConnecting"
    BY <1>1, <1>2 DEF LifeOf, Begins
  <2>3. conn[c].state \notin Up
    BY <1>1, <1>2, <1>4 DEF LifeOf, Lives
  <2> QED BY <2>1, <2>2, <2>3 DEF States, Up
<1>8. ~conn[c].mapped
  BY <1>1, <1>2, <1>4, <1>5, <1>7 DEF LifeOf, Dies, Destroys
<1> QED BY <1>1, <1>4, <1>5, <1>6, <1>7, <1>8

\* Both assertions of the destructors hold.
LEMMA DestructorLives ==
    ASSUME SafeInv, NEW c \in Conns, Destructor(c)
    PROVE  CarefulInv'
<1> DEFINE q == [Unregister(conn[c]) EXCEPT !.life = "freed"]
<1>1. /\ Alive(c) /\ ~Uses(c) /\ Calls(c) = {} /\ Waits(c) = {}
      /\ conn[c].state = "kDisconnected" /\ ~conn[c].mapped
  BY OrphanIs DEF Destructor
<1>2. ~conn[c].addToLoop
  BY <1>1 DEF SafeInv, PollerInv, PollerConsistent, Consistent, Alive
<1>3. conn' = [conn EXCEPT ![c] = q] /\ UNCHANGED <<sock, stack, ioQueue, log, others>>
  BY <1>1, <1>2 DEF Destructor, Asserting
<1>4. conn[c] \in Connections /\ LifeOf(c) /\ active[c] = {}
  BY <1>1, SafeTypes DEF SafeInv, EventsInv, CarefulInv
<1>5. /\ q.life = "freed" /\ q.state = conn[c].state /\ (q.reading <=> conn[c].reading)
      /\ q.events = conn[c].events /\ (q.mapped <=> conn[c].mapped)
  BY <1>4 DEF Connections, Unregister, NoInterest
<1> HIDE DEF q
<1>6. conn'[c] = q /\ \A d \in Conns \ {c} : conn'[d] = conn[d]
  BY <1>3, SafeTypes
<1>7. /\ UNCHANGED <<serverVars, phase, active, running, next, ioQueue, timers, userRef, userCall, constant>>
      /\ UNCHANGED <<inMap, baseQueue, setup>>
  BY <1>3 DEF others, loopVars, userVars, serverVars, constant
<1>8. /\ \A d : Calls(d)' = Calls(d) /\ Waits(d)' = Waits(d)
      /\ Uses(c)' <=> Uses(c)
  <2>1. \A d : Calls(d)' = Calls(d)
    BY <1>3 DEF Calls
  <2>2. \A d : Waits(d)' = Waits(d)
    BY <1>7 DEF Waits, Rest
  <2>3. Batch' = Batch
    BY <1>7 DEF Batch
  <2> QED BY <1>7, <2>1, <2>2, <2>3 DEF Uses
<1>9. StackShape(stack)' /\ TopIsHeld'
  BY <1>3, <1>7 DEF SafeInv, CarefulInv, TopIsHeld
<1>10. ~Closes(c)' /\ ~Destroys(c)' /\ ~Opens(c)'
  <2>1. c \notin Contents(baseQueue)
    BY <1>1 DEF Uses
  <2> QED BY <1>1, <1>7, <1>8, <2>1 DEF Closes, Destroys, Opens
<1>11. Begins(c)' /\ Lives(c)' /\ Dies(c)'
  BY <1>1, <1>5, <1>6, <1>8, <1>10 DEF Begins, Lives, Dies, Alive
<1>12. Once(c)' /\ Reads(c)' /\ Phases(c)'
  BY <1>1, <1>4, <1>5, <1>6, <1>7, <1>8 DEF LifeOf, Once, Reads, Phases, Up
<1>13. LifeOf(c)'
  BY <1>1, <1>3, <1>4, <1>5, <1>6, <1>8, <1>11, <1>12 DEF LifeOf
<1> QED BY <1>3, <1>6, <1>7, <1>8, <1>9, <1>13, SafeTypes, StackStep

\* A step that changes nothing of this.
LEMMA IdleStep ==
    ASSUME SafeInv,
           UNCHANGED <<conn, log, serverVars, loopVars, stack, ioQueue, timers, userRef, userCall, constant>>
    PROVE  CarefulInv'
<1>1. UNCHANGED <<inMap, server, baseQueue, phase, active, running, next, setup, fault>>
  BY DEF serverVars, loopVars, constant
<1>2. Rest' = Rest /\ Batch' = Batch /\ \A d : Calls(d)' = Calls(d)
  BY <1>1 DEF Rest, Batch, Calls
<1>3. \A d : Waits(d)' = Waits(d)
  BY <1>2 DEF Waits
<1>4. ASSUME NEW d \in Conns
      PROVE  LifeOf(d)'
  <2>1. Uses(d)' <=> Uses(d)
    BY <1>1, <1>2 DEF Uses
  <2>2. LifeOf(d)
    BY DEF SafeInv, CarefulInv
  <2> QED BY <1>1, <1>2, <1>3, <2>1, <2>2, SameLife
<1>5. StackShape(stack)' /\ TopIsHeld' /\ Quiet'
  BY <1>1 DEF SafeInv, CarefulInv, TopIsHeld, Quiet
<1>6. QueuesOK' /\ OncePending'
  BY <1>1, <1>2 DEF SafeInv, CarefulInv, QueuesOK, QueueShape, OncePending
<1> QED BY <1>4, <1>5, <1>6 DEF SafeInv, CarefulInv

\* With careful users these never happen.
LEMMA NeverHappens ==
    ASSUME SafeInv
    PROVE  /\ ~UseAfterFree /\ ~QuitIoLoop /\ ~LoopDestructor
           /\ \A c \in Conns :
                ~SendInLoop(c) /\ ~SendGivesUp(c) /\ ~HandleWrite(c) /\ ~StartReadInLoop(c)
           /\ \A c \in Conns : ~TimerExpires(c) /\ ~Drop(c)
           /\ \A u \in Users : ~UserStore(u) /\ ~UserPush(u)
           /\ \A u \in Users, op \in Operations, c \in Conns : ~UserCheck(u, op, c)
<1>1. ~UseAfterFree
  BY TopOf DEF UseAfterFree
<1>2. ~QuitIoLoop
  BY DEF QuitIoLoop, SafeInv, CarefulInv, Quiet
<1>3. ~LoopDestructor
  BY DEF LoopDestructor, SafeInv, CarefulInv, Quiet, QueuesOK
<1>4. ASSUME NEW c \in Conns
      PROVE  ~SendInLoop(c) /\ ~SendGivesUp(c) /\ ~HandleWrite(c) /\ ~StartReadInLoop(c)
  <2>1. ASSUME NEW f \in {"sendInLoop", "handleWrite", "startReadInLoop"}, At(f, c)
        PROVE  FALSE
    <3>1. FrameOK(Head(stack)) /\ Head(stack).fun = f
      BY <2>1, AtTop
    <3> QED BY <3>1 DEF FrameOK, Lower, Upper
  <2> QED BY <2>1 DEF SendInLoop, SendGivesUp, HandleWrite, StartReadInLoop
<1>5. ASSUME NEW c \in Conns
      PROVE  ~TimerExpires(c) /\ ~Drop(c)
  BY DEF TimerExpires, Drop, SafeInv, CarefulInv, Quiet
<1>6. ASSUME NEW u \in Users
      PROVE  ~UserStore(u) /\ ~UserPush(u)
  BY DEF UserStore, UserPush, SafeInv, CarefulInv, Quiet
<1>7. ASSUME NEW u \in Users, NEW op \in Operations, NEW c \in Conns
      PROVE  ~UserCheck(u, op, c)
  BY DEF UserCheck, SafeInv, CarefulInv, Quiet
<1> QED BY <1>1, <1>2, <1>3, <1>4, <1>5, <1>6, <1>7

\* Every connection is in the list of the destructor once.
LEMMA OrderIs ==
    ASSUME NEW S, IsFiniteSet(S), NEW order \in [1 .. Cardinality(S) -> S], S = Contents(order)
    PROVE  \A i, j \in 1 .. Cardinality(S) : order[i] = order[j] => i = j
<1> DEFINE n == Cardinality(S)
           T == 1 .. n
<1>1. n \in Nat
  BY FS_CardinalityType
<1>2. IsFiniteSet(T) /\ Cardinality(T) = n
  <2>1. 1 \in Int /\ n \in Int
    BY <1>1
  <2>2. IsFiniteSet(1 .. n) /\ Cardinality(1 .. n) = IF 1 > n THEN 0 ELSE n - 1 + 1
    BY <2>1, FS_Interval
  <2> QED BY <1>1, <2>2
<1>3. order \in Surjection(T, S)
  BY DEF Surjection, Contents
<1> HIDE DEF T
<1>4. order \in Injection(T, S)
  BY <1>2, <1>3, FS_SurjSameCardinalityImpliesInj
<1> QED BY <1>4 DEF Injection, IsInjective, T

\* ~TcpServerff, with one loop, when no connection is on its way down: those it destroys are up.
LEMMA ServerLives ==
    ASSUME SafeInv, ServerDestructor
    PROVE  CarefulInv'
<1>1. /\ setup.single /\ setup.stops /\ server' = "stopping" /\ inMap' = {} /\ phase = "check" /\ stack = << >>
      /\ UNCHANGED <<objects, baseQueue, active, running, next, timers, userVars, constant>>
  BY DEF ServerDestructor, SafeInv, Careful
<1>2. PICK order \in [1 .. Cardinality(inMap) -> inMap] :
          /\ inMap = Contents(order)
          /\ stack' = [i \in DOMAIN order |-> Function("connectionDestroy", order[i], TRUE)]
          /\ phase' = "exited" /\ ioQueue' = ioQueue
  BY <1>1 DEF ServerDestructor
<1>3. UNCHANGED <<conn, log, baseQueue, active, running, next, ioQueue, timers, userRef, userCall, setup, fault>>
  BY <1>1, <1>2 DEF objects, userVars, constant
<1>4. running = << >> /\ ioQueue = << >> /\ baseQueue = << >>
  BY <1>1 DEF SafeInv, CarefulInv, QueuesOK
<1> DEFINE n == Cardinality(inMap)
           F(c) == Function("connectionDestroy", c, TRUE)
<1>5. n \in Nat /\ \A i, j \in 1 .. n : order[i] = order[j] => i = j
  <2>1. IsFiniteSet(inMap)
    BY DEF SafeInv, ConnInv, ServerTypes
  <2> QED BY <1>2, <2>1, OrderIs, FS_CardinalityType
<1>6. /\ inMap \subseteq Conns /\ DOMAIN order = 1 .. n
      /\ \A i \in 1 .. n : order[i] \in inMap
      /\ \A c \in inMap : \E i \in 1 .. n : c = order[i]
  <2>1. inMap \subseteq Conns
    BY SafeTypes
  <2>2. DOMAIN order = 1 .. n
    BY <1>2
  <2>3. \A c \in inMap : \E i \in 1 .. n : c = order[i]
    BY <1>2, <2>2 DEF Contents
  <2> QED BY <1>2, <2>1, <2>2, <2>3
<1> HIDE DEF n
<1>7. ASSUME NEW c \in Conns
      PROVE  /\ F(c) \in FunctionType /\ FrameOK(F(c)) /\ Below(F(c))
             /\ F(c).fun = "connectionDestroy" /\ F(c).c = c /\ F(c).held
  BY FunctorIs DEF Queueable, Below, Lower
<1>8. DOMAIN stack' = 1 .. n /\ \A i \in 1 .. n : stack'[i] = F(order[i])
  BY <1>2, <1>6
<1> HIDE DEF F
<1>9. StackShape(stack)'
  <2>1. ASSUME NEW i \in 1 .. n
        PROVE  FrameOK(stack'[i]) /\ Below(stack'[i])
    BY <1>6, <1>7, <1>8
  <2>2. ASSUME NEW i \in 1 .. n, NEW j \in 1 .. n, i < j
        PROVE  Beside(stack'[i], stack'[j])
    <3>1. order[i] # order[j] /\ order[i] \in Conns /\ order[j] \in Conns
      BY <1>5, <1>6, <2>2
    <3>2. stack'[i].c # stack'[j].c
      BY <1>7, <1>8, <3>1
    <3> QED BY <3>2 DEF Beside
  <2> QED BY <1>8, <2>1, <2>2 DEF StackShape
<1>10. Contents(stack)' = {F(c) : c \in inMap}
  BY <1>6, <1>8 DEF Contents
<1>11. TopIsHeld'
  <2> SUFFICES ASSUME stack' # << >>
               PROVE  Head(stack').held
    BY DEF TopIsHeld
  <2>1. stack' \in Seq(FunctionType)
    <3>1. stack' = [i \in 1 .. n |-> F(order[i])]
      BY <1>2, <1>6 DEF F
    <3>2. \A i \in 1 .. n : F(order[i]) \in FunctionType
      BY <1>6, <1>7
    <3> QED BY <1>5, <3>1, <3>2
  <2>2. Head(stack') = stack'[1] /\ 1 \in DOMAIN stack'
    BY <2>1
  <2> QED BY <1>6, <1>7, <1>8, <2>2
<1>12. /\ \A c : Calls(c) = {} /\ Waits(c) = {} /\ Waits(c)' = {} /\ Named(Batch, c)' = {}
       /\ \A c \in Conns : Calls(c)' = IF c \in inMap THEN {"connectionDestroy"} ELSE {}
  <2>1. Rest = {} /\ Rest' = {} /\ Contents(ioQueue) = {} /\ Contents(running) = {}
        /\ Contents(ioQueue)' = {} /\ Contents(running)' = {}
    <3>1. Contents(ioQueue) = {} /\ Contents(running) = {}
      BY <1>4 DEF Contents
    <3>2. Rest = {} /\ Rest' = Rest
      BY <1>3, <3>1, RestIs DEF Rest
    <3> QED BY <1>3, <3>1, <3>2
  <2>2. \A c : Waits(c) = {} /\ Waits(c)' = {} /\ Named(Batch, c)' = {}
    BY <2>1 DEF Waits, Named, Batch
  <2>3. \A c : Calls(c) = {}
    BY <1>1, EmptyStack
  <2>4. ASSUME NEW c \in Conns
        PROVE  Calls(c)' = IF c \in inMap THEN {"connectionDestroy"} ELSE {}
    BY <1>6, <1>7, <1>10 DEF Calls, Named
  <2> QED BY <2>2, <2>3, <2>4
<1>13. \A d \in Conns : d \notin Contents(baseQueue) /\ d \notin Contents(baseQueue)'
  BY <1>3, <1>4 DEF Contents
<1>14. ASSUME NEW c \in Conns
       PROVE  LifeOf(c)'
  <2>1. /\ LifeOf(c) /\ conn'[c] = conn[c] /\ log'[c] = log[c] /\ active'[c] = {} /\ active[c] = {}
        /\ conn[c] \in Connections
    BY <1>1, <1>3, SafeTypes DEF SafeInv, EventsInv, CarefulInv
  <2>2. CASE c \in inMap
    <3>1. Alive(c) /\ conn[c].state = "kConnected"
      <4>1. Alive(c) /\ conn[c].state \in States
        BY <2>1, <2>2 DEF LifeOf, Uses, Connections
      <4>2. conn[c].state # "kConnecting"
        BY <1>1, <1>12, <2>1, <4>1 DEF LifeOf, Begins
      <4>3. conn[c].state # "kDisconnecting"
        BY <1>1, <1>12, <2>1, <4>1 DEF LifeOf, Lives
      <4>4. conn[c].state # "kDisconnected"
        BY <1>12, <1>13, <2>1, <2>2, <4>1 DEF LifeOf, Dies, Closes
      <4> QED BY <4>1, <4>2, <4>3, <4>4 DEF States
    <3>2. conn[c].mapped /\ log[c] # << >> /\ ~LastIsDown(log[c])
      BY <2>1, <3>1 DEF LifeOf, Lives, Up
    <3>3. Calls(c)' = {"connectionDestroy"} /\ Waits(c)' = {} /\ c \notin inMap'
      BY <1>1, <1>12, <2>2
    <3>4. Begins(c)' /\ Lives(c)'
      BY <2>1, <3>1, <3>2, <3>3 DEF Begins, Lives, Opens, Alive, Up
    <3>5. Dies(c)'
      BY <1>13, <2>1, <3>1, <3>2, <3>3 DEF Dies, Closes, Destroys
    <3>6. Once(c)' /\ Reads(c)' /\ Phases(c)'
      BY <2>1, <3>3 DEF LifeOf, Once, Reads, Phases, Up
    <3> QED BY <2>1, <3>1, <3>4, <3>5, <3>6 DEF LifeOf, Alive
  <2>3. CASE c \notin inMap
    <3>1. Calls(c)' = Calls(c) /\ Calls(c)' = {} /\ Waits(c)' = Waits(c)
      BY <1>12, <2>3
    <3>2. ~Uses(c)'
      BY <1>1, <1>12, <1>13, <3>1 DEF Uses
    <3>3. setup' = setup /\ ((c \in inMap)' <=> c \in inMap)
          /\ ((c \in Contents(baseQueue))' <=> c \in Contents(baseQueue))
      BY <1>1, <1>3, <1>13, <2>3
    <3> QED BY <2>1, <3>1, <3>2, <3>3, SameLife
  <2> QED BY <2>2, <2>3
<1>15. QueuesOK' /\ OncePending'
  <2>1. Rest' = Rest
    BY <1>3 DEF Rest
  <2>2. QueuesOK'
    BY <1>3, <1>4 DEF SafeInv, CarefulInv, QueuesOK, QueueShape
  <2> QED BY <1>3, <2>1, <2>2 DEF SafeInv, CarefulInv, OncePending
<1>16. Quiet' /\ log' = [d \in Conns |-> log'[d]]
  BY <1>1, <1>3 DEF SafeInv, CarefulInv, Quiet
<1> QED BY <1>9, <1>11, <1>14, <1>15, <1>16 DEF CarefulInv

-----------------------------------------------------------------------------
(* The inductive invariant, and what it shows.                             *)

LEMMA LifeInit == Init => LifeInv
<1> SUFFICES ASSUME Init
             PROVE  CarefulInv
  BY DEF LifeInv
<1>1. /\ conn = [c \in Conns |-> NewConnection] /\ inMap = {} /\ server = "running" /\ baseQueue = << >>
      /\ phase = "check" /\ active = [c \in Conns |-> {}] /\ stack = << >> /\ running = << >> /\ next = 1
      /\ ioQueue = << >> /\ timers = {} /\ userRef = {} /\ fault = "none"
      /\ userCall = [u \in Users |-> [op |-> "none"]] /\ log = [c \in Conns |-> << >>]
  BY DEF Init
<1>2. Contents(stack) = {} /\ Contents(running) = {} /\ Contents(ioQueue) = {} /\ Contents(baseQueue) = {}
  BY <1>1 DEF Contents
<1>3. Rest = {}
  <2>1. Len(<< >>) = 0 /\ 1 .. 0 = {}
    OBVIOUS
  <2> QED BY <1>1, <2>1 DEF Rest
<1>4. \A c : Calls(c) = {} /\ Waits(c) = {} /\ Named(Batch, c) = {}
  BY <1>2, <1>3 DEF Calls, Waits, Batch, Named
<1>5. Quiet
  BY <1>1 DEF Quiet
<1>6. StackShape(stack) /\ TopIsHeld
  BY <1>1 DEF StackShape, TopIsHeld
<1>7. QueuesOK
  BY <1>1, <1>2 DEF QueuesOK, QueueShape
<1>8. OncePending
  <2>1. Len(<< >>) = 0 /\ 1 .. 0 = {}
    OBVIOUS
  <2>2. \A i, j \in next .. Len(running) : running[i].c = running[j].c => i = j
    BY <1>1, <2>1
  <2>3. /\ \A i, j \in DOMAIN ioQueue : ioQueue[i].c = ioQueue[j].c => i = j
        /\ \A i, j \in DOMAIN baseQueue : baseQueue[i] = baseQueue[j] => i = j
    BY <1>1
  <2> QED BY <1>2, <2>2, <2>3 DEF OncePending
<1>9. ASSUME NEW c \in Conns
      PROVE  LifeOf(c)
  <2>1. conn[c] = NewConnection /\ log[c] = << >> /\ active[c] = {}
    BY <1>1
  <2>2. /\ NewConnection.life = "unborn" /\ NewConnection.state = "kConnecting" /\ ~NewConnection.reading
        /\ NewConnection.events = {} /\ ~NewConnection.mapped
    BY DEF NewConnection
  <2>3. ~Alive(c) /\ ~Opens(c) /\ ~Closes(c) /\ ~Destroys(c) /\ ~Uses(c)
    BY <1>1, <1>2, <1>4, <2>1, <2>2 DEF Alive, Opens, Closes, Destroys, Uses
  <2>4. Begins(c) /\ Lives(c) /\ Dies(c)
    BY <1>4, <2>1, <2>3 DEF Begins, Lives, Dies
  <2>5. Once(c) /\ Reads(c) /\ Phases(c)
    BY <1>4, <2>1, <2>2 DEF Once, Reads, Phases
  <2> QED BY <2>1, <2>2, <2>3, <2>4, <2>5 DEF LifeOf
<1>10. log = [c \in Conns |-> log[c]]
  BY <1>1
<1> QED BY <1>5, <1>6, <1>7, <1>8, <1>9, <1>10 DEF CarefulInv

\* The bodies of the functions.
LEMMA BodyLives ==
    ASSUME SafeInv, NEW c \in Conns, Body(c)
    PROVE  CarefulInv'
<1>1. CASE HandleError(c)
  <2>1. stack # << >> /\ Head(stack).fun = "handleError"
    BY <1>1 DEF HandleError, At
  <2>2. Return(<< >>) /\ UNCHANGED <<conn, log, serverVars, loopVars, ioQueue, timers, userRef, userCall, constant>>
    BY <1>1 DEF HandleError, others, userVars
  <2> QED BY <2>1, <2>2, ReturnLives
<1>2. CASE ShutdownInLoop(c)
  <2>1. stack # << >> /\ Head(stack).fun = "shutdownInLoop"
    BY <1>2 DEF ShutdownInLoop, At
  <2>2. Return(<< >>) /\ UNCHANGED <<conn, log, serverVars, loopVars, ioQueue, timers, userRef, userCall, constant>>
    BY <1>2 DEF ShutdownInLoop, others, userVars
  <2> QED BY <2>1, <2>2, ReturnLives
<1>3. ConnectionEstablished(c) => CarefulInv'
  BY EstablishedLives
<1>4. ConnectionDestroy(c) => CarefulInv'
  BY DestroyLives
<1>5. Remove(c) => CarefulInv'
  BY RemoveLives
<1>6. HandleClose(c) => CarefulInv'
  BY CloseLives
<1>7. HandleRead(c) => CarefulInv'
  BY ReadLives
<1>8. ForceCloseInLoop(c) => CarefulInv'
  BY ForceCloseLives
<1>9. StopReadInLoop(c) => CarefulInv'
  BY StopReadLives
<1>10. RemoveConnection(c) => CarefulInv'
  BY RemoveConnectionLives
<1>11. HandleEventWithGuard(c) => CarefulInv'
  BY EventLives
<1> QED BY <1>1, <1>2, <1>3, <1>4, <1>5, <1>6, <1>7, <1>8, <1>9, <1>10, <1>11, NeverHappens DEF Body

LEMMA IoLives ==
    ASSUME SafeInv, IoStep
    PROVE  CarefulInv'
<1>1. CASE CallbackReturns
  <2>1. stack # << >> /\ Head(stack).fun = "callback"
    BY <1>1 DEF CallbackReturns
  <2>2. Return(<< >>) /\ UNCHANGED <<conn, log, serverVars, loopVars, ioQueue, timers, userRef, userCall, constant>>
    BY <1>1 DEF CallbackReturns, others, userVars
  <2> QED BY <2>1, <2>2, ReturnLives
<1>2. ASSUME NEW c \in Conns, Destructor(c) \/ Body(c) \/ HandleEvent(c)
      PROVE  CarefulInv'
  BY <1>2, DestructorLives, BodyLives, HandleEventLives
<1>3. Poll \/ CheckQuit => CarefulInv'
  BY PollLives, CheckLives
<1>4. SwapFunctors \/ RunFunctor \/ EndFunctors => CarefulInv'
  BY SwapLives, RunLives, EndLives
<1> QED BY <1>1, <1>2, <1>3, <1>4, NeverHappens DEF IoStep

LEMMA CarefulStep ==
    ASSUME SafeInv, [Next]_vars
    PROVE  CarefulInv'
<1>1. CASE UNCHANGED vars
  <2>1. UNCHANGED <<conn, log, serverVars, loopVars, stack, ioQueue, timers, userRef, userCall, constant>>
    BY <1>1 DEF vars, serverVars, loopVars, userVars, constant
  <2> QED BY <2>1, IdleStep
<1>2. CASE Next
  <2>1. IoStep => CarefulInv'
    BY IoLives
  <2>2. ASSUME NEW op \in Operations, NEW c \in Conns, CallFromCallback(op, c)
        PROVE  CarefulInv'
    BY <2>2, CallbackLives
  <2>3. ASSUME NEW c \in Conns, NewConnectionAccepted(c) \/ Peer(c)
        PROVE  CarefulInv'
    <3>1. Peer(c) => UNCHANGED <<conn, log, serverVars, loopVars, stack, ioQueue, timers, userRef, userCall, constant>>
      BY DEF Peer, others, userVars
    <3> QED BY <2>3, <3>1, AcceptedLives, IdleStep
  <2>4. BaseStep \/ ServerDestructor => CarefulInv'
    BY BaseLives, ServerLives
  <2>5. ASSUME NEW u \in Users
        PROVE  ~UserStep(u)
    BY NeverHappens DEF UserStep
  <2>6. ASSUME NEW k \in 1 .. calls, DataGoes(k)
        PROVE  CarefulInv'
    <3>1. UNCHANGED <<conn, log, serverVars, loopVars, stack, ioQueue, timers, userRef, userCall, constant>>
      BY <2>6 DEF DataGoes, objects
    <3> QED BY <3>1, IdleStep
  <2> QED BY <1>2, <2>1, <2>2, <2>3, <2>4, <2>5, <2>6, NeverHappens DEF Next
<1> QED BY <1>1, <1>2

\* How the program is set up never changes, and with it whether its users are careful.
LEMMA SetupStays == [Next]_vars => setup' = setup
<1> SUFFICES ASSUME Next
             PROVE  setup' = setup
  BY DEF vars
<1>1. ASSUME NEW c \in Conns, Body(c)
      PROVE  setup' = setup
  <2>1. ConnectionEstablished(c) \/ ConnectionDestroy(c) \/ Remove(c) \/ HandleClose(c) \/ HandleRead(c)
          => setup' = setup
    BY DEF ConnectionEstablished, ConnectionDestroy, Remove, HandleClose, HandleRead, Asserting, Fail, others, constant
  <2>2. HandleError(c) \/ HandleWrite(c) \/ SendInLoop(c) \/ SendGivesUp(c) \/ ShutdownInLoop(c)
          => setup' = setup
    BY DEF HandleError, HandleWrite, SendInLoop, SendGivesUp, ShutdownInLoop, Asserting, Fail, others, constant
  <2>3. ForceCloseInLoop(c) \/ StartReadInLoop(c) \/ StopReadInLoop(c) \/ RemoveConnection(c)
          \/ HandleEventWithGuard(c) => setup' = setup
    BY DEF ForceCloseInLoop, StartReadInLoop, StopReadInLoop, RemoveConnection, RemoveConnectionInLoop,
           HandleEventWithGuard, Asserting, Fail, others, constant
  <2> QED BY <1>1, <2>1, <2>2, <2>3 DEF Body
<1>2. ASSUME NEW c \in Conns, Destructor(c) \/ HandleEvent(c) \/ TimerExpires(c) \/ Drop(c)
                              \/ NewConnectionAccepted(c) \/ Peer(c)
      PROVE  setup' = setup
  BY <1>2 DEF Destructor, HandleEvent, TimerExpires, Drop, NewConnectionAccepted, Peer, Asserting, Fail, others, constant
<1>3. CallbackReturns \/ Poll \/ CheckQuit \/ UseAfterFree \/ SwapFunctors \/ RunFunctor \/ EndFunctors
        \/ LoopDestructor => setup' = setup
  BY DEF CallbackReturns, Poll, CheckQuit, UseAfterFree, SwapFunctors, RunFunctor, EndFunctors, LoopDestructor, Fail,
         others, constant
<1>4. IoStep => setup' = setup
  BY <1>1, <1>2, <1>3 DEF IoStep
<1>5. BaseStep \/ ServerDestructor \/ QuitIoLoop => setup' = setup
  BY DEF BaseStep, RemoveConnectionInLoop, Asserting, Fail, ServerDestructor, QuitIoLoop, constant
<1>6. ASSUME NEW op \in Operations, NEW c \in Conns, CallFromCallback(op, c)
      PROVE  setup' = setup
  BY <1>6 DEF CallFromCallback, constant
<1>7. ASSUME NEW u \in Users, UserStep(u)
      PROVE  setup' = setup
  BY <1>7 DEF UserStep, UserCheck, UserStore, UserPush, constant
<1>8. ASSUME NEW k \in 1 .. calls, DataGoes(k)
      PROVE  setup' = setup
  BY <1>8 DEF DataGoes, constant
<1> QED BY <1>2, <1>4, <1>5, <1>6, <1>7, <1>8 DEF Next

LEMMA LifeStep == ConnInv /\ PollerInv /\ EventsInv /\ LifeInv /\ [Next]_vars => LifeInv'
<1> SUFFICES ASSUME ConnInv, PollerInv, EventsInv, LifeInv, [Next]_vars, Careful'
             PROVE  CarefulInv'
  BY DEF LifeInv
<1>1. Careful
  BY SetupStays DEF Careful
<1>2. SafeInv
  BY <1>1 DEF SafeInv, LifeInv
<1> QED BY <1>2, CarefulStep

\* The inductive invariant: with careful users every function on the stack and in the queues is of
\* a connection that is alive and in the state the function expects; a connection that is not yet
\* established, closed, removed or destroyed has exactly one functor or call that will do it.
THEOREM LifeInvariance == Spec => []LifeInv
BY LifeInit, LifeStep, InitPoller, PollerStep, EventsInit, EventsStep, ConnInit, ConnStep, PTL DEF Spec

\* However the peers, the callbacks, the loops and the destructor of the server interleave, with
\* careful users no assertion of the library fails, and none of its functions runs on a connection
\* that has been destroyed.
THEOREM CarefulUseIsSafe == Spec => []NoFault
<1>1. LifeInv => (Careful => Sound)
  BY DEF LifeInv, CarefulInv, Quiet, Sound
<1>2. ConnInv /\ LifeInv => NoFault
  BY <1>1, ConnTypeOK DEF NoFault
<1> QED BY <1>2, ConnInvariance, LifeInvariance, PTL

\* The channels that the loop still has to handle are alive also where assertions are not compiled
\* in, if the users are careful.
THEOREM CarefulActiveAreAlive == Spec => [](Careful => ActiveAreAlive)
<1>1. EventsInv /\ LifeInv => (Careful => ActiveAreAlive)
  BY DEF LifeInv, CarefulInv, LifeOf, EventsInv, ActiveAreAlive
<1> QED BY <1>1, LifeInvariance, InitPoller, PollerStep, EventsInit, EventsStep, ConnInit, ConnStep, PTL DEF Spec

-----------------------------------------------------------------------------
(* The refinement: connections live as promised.                           *)

StageMap == [c \in Conns |-> IF Careful THEN Stage(c) ELSE "none"]
LogMap == [c \in Conns |-> IF Careful THEN log[c] ELSE << >>]

LEMMA StageIs ==
    ASSUME NEW c \in Conns
    PROVE  /\ conn[c].life = "unborn" => Stage(c) = "none"
           /\ conn[c].life = "freed" => Stage(c) = "gone"
           /\ Alive(c) /\ log[c] = << >> => Stage(c) = "open"
           /\ Alive(c) /\ log[c] # << >> => Stage(c) = IF LastIsDown(log[c]) THEN "down" ELSE "up"
  BY DEF Stage, Alive, LastIsDown

\* Only one connection changes.
LEMMA OneMoves ==
    ASSUME Careful, setup' = setup, NEW c \in Conns,
           \A d \in Conns \ {c} : conn'[d].life = conn[d].life /\ log'[d] = log[d]
    PROVE  /\ StageMap[c] = Stage(c) /\ LogMap[c] = log[c]
           /\ StageMap' = [StageMap EXCEPT ![c] = Stage(c)']
           /\ LogMap' = [LogMap EXCEPT ![c] = log'[c]]
<1>1. Careful'
  BY DEF Careful
<1>2. \A d \in Conns \ {c} : Stage(d)' = Stage(d)
  BY DEF Stage, Alive
<1> QED BY <1>1, <1>2 DEF StageMap, LogMap

\* No connection does.
LEMMA NoneMoves ==
    ASSUME setup' = setup, \A d \in Conns : conn'[d].life = conn[d].life /\ log'[d] = log[d]
    PROVE  StageMap' = StageMap /\ LogMap' = LogMap
<1>1. Careful' <=> Careful
  BY DEF Careful
<1>2. \A d \in Conns : Stage(d)' = Stage(d)
  BY DEF Stage, Alive
<1> QED BY <1>1, <1>2 DEF StageMap, LogMap

LEMMA LifeIs ==
    /\ Life!vars = <<StageMap, LogMap>>
    /\ \A c \in Conns :
         /\ StageMap[c] = "none" /\ StageMap' = [StageMap EXCEPT ![c] = "open"] /\ LogMap' = LogMap => Life!Next
         /\ StageMap[c] = "open" /\ StageMap' = [StageMap EXCEPT ![c] = "up"]
              /\ LogMap' = [LogMap EXCEPT ![c] = Append(LogMap[c], "up")] => Life!Next
         /\ StageMap[c] = "up" /\ StageMap' = [StageMap EXCEPT ![c] = "up"]
              /\ LogMap' = [LogMap EXCEPT ![c] = Append(LogMap[c], "message")] => Life!Next
         /\ StageMap[c] = "up" /\ StageMap' = [StageMap EXCEPT ![c] = "down"]
              /\ LogMap' = [LogMap EXCEPT ![c] = Append(LogMap[c], "down")] => Life!Next
         /\ StageMap[c] = "down" /\ StageMap' = [StageMap EXCEPT ![c] = "gone"] /\ LogMap' = LogMap => Life!Next
<1>1. Life!vars = <<StageMap, LogMap>>
  BY DEF Life!vars, StageMap, LogMap
<1>2. ASSUME NEW c \in Conns, NEW from, NEW to
      PROVE  Life!Moves(c, from, to) <=> StageMap[c] = from /\ StageMap' = [StageMap EXCEPT ![c] = to]
  BY DEF Life!Moves, StageMap
<1>3. ASSUME NEW c \in Conns, NEW n
      PROVE  LogMap' = [LogMap EXCEPT ![c] = Append(LogMap[c], n)] <=>
             [d \in Conns |-> IF Careful THEN log[d] ELSE << >>]' =
                [[d \in Conns |-> IF Careful THEN log[d] ELSE << >>] EXCEPT ![c] = Append(@, n)]
  BY DEF LogMap
<1> QED BY <1>1, <1>2, <1>3 DEF Life!Next, Life!Open, Life!Up, Life!Message, Life!Down, Life!Gone, LogMap

LEMMA Careless == ~Careful /\ setup' = setup => StageMap' = StageMap /\ LogMap' = LogMap
<1> SUFFICES ASSUME ~Careful, setup' = setup
             PROVE  StageMap' = StageMap /\ LogMap' = LogMap
  OBVIOUS
<1>1. ~Careful'
  BY DEF Careful
<1> QED BY <1>1 DEF StageMap, LogMap

Promised == Life!Next \/ (StageMap' = StageMap /\ LogMap' = LogMap)

\* The first callback, and the last.
LEMMA UpIsPromised ==
    ASSUME SafeInv, NEW c \in Conns, ConnectionEstablished(c), setup' = setup
    PROVE  Promised
<1> DEFINE q == EnableReading([conn[c] EXCEPT !.state = "kConnected"])
<1>1. At("connectionEstablished", c)
  BY DEF ConnectionEstablished
<1>2. Alive(c) /\ conn[c] \in Connections /\ Consistent(conn[c]) /\ LifeOf(c) /\ "connectionEstablished" \in Calls(c)
  BY <1>1, AtTop
<1>3. conn[c].state = "kConnecting" /\ log[c] = << >>
  BY <1>2 DEF LifeOf, Begins, Opens
<1>4. conn' = [conn EXCEPT ![c] = q] /\ Report(c, "up")
  BY <1>3 DEF ConnectionEstablished, Asserting
<1>5. q.life = "alive"
  BY <1>2, RecordsAre DEF States, Alive
<1> HIDE DEF q
<1>6. conn'[c] = q /\ \A d \in Conns \ {c} : conn'[d] = conn[d]
  BY <1>4, SafeTypes
<1>7. /\ \A d \in Conns \ {c} : log'[d] = log[d]
      /\ log'[c] # << >> /\ ~LastIsDown(log'[c]) /\ log'[c] = Append(log[c], "up")
  BY <1>4, ReportIs
<1>8. Stage(c) = "open"
  BY <1>2, <1>3, StageIs
<1>9. Stage(c)' = "up"
  BY <1>5, <1>6, <1>7 DEF Stage, Alive, LastIsDown
<1>10. /\ StageMap[c] = Stage(c) /\ LogMap[c] = log[c]
       /\ StageMap' = [StageMap EXCEPT ![c] = Stage(c)']
       /\ LogMap' = [LogMap EXCEPT ![c] = log'[c]]
  BY <1>6, <1>7, OneMoves DEF SafeInv
<1> QED BY <1>7, <1>8, <1>9, <1>10, LifeIs DEF Promised

LEMMA DownIsPromised ==
    ASSUME SafeInv, NEW c \in Conns, HandleClose(c) \/ ConnectionDestroy(c), setup' = setup
    PROVE  Promised
<1> DEFINE q == DisableAll([conn[c] EXCEPT !.state = "kDisconnected"])
<1>1. /\ Alive(c) /\ conn[c] \in Connections /\ Consistent(conn[c]) /\ LifeOf(c)
      /\ HandleClose(c) => "handleClose" \in Calls(c)
  BY AtTop DEF HandleClose, ConnectionDestroy
<1>2. CASE ConnectionDestroy(c) /\ conn[c].state # "kConnected"
  BY <1>2, NoneMoves DEF ConnectionDestroy, Promised
<1>3. CASE HandleClose(c) \/ (ConnectionDestroy(c) /\ conn[c].state = "kConnected")
  <2>1. conn[c].state \in Up
    BY <1>1, <1>3 DEF LifeOf, Lives, Up
  <2>2. log[c] # << >> /\ ~LastIsDown(log[c])
    BY <1>1, <2>1 DEF LifeOf, Lives
  <2>3. conn' = [conn EXCEPT ![c] = q] /\ Report(c, "down")
    BY <1>3, <2>1 DEF HandleClose, ConnectionDestroy, Asserting, Up
  <2>4. q.life = "alive"
    BY <1>1, RecordsAre DEF States, Alive
  <2> HIDE DEF q
  <2>5. conn'[c] = q /\ \A d \in Conns \ {c} : conn'[d] = conn[d]
    BY <2>3, SafeTypes
  <2>6. /\ \A d \in Conns \ {c} : log'[d] = log[d]
        /\ log'[c] # << >> /\ LastIsDown(log'[c]) /\ log'[c] = Append(log[c], "down")
    BY <2>3, ReportIs
  <2>7. Stage(c) = "up"
    BY <1>1, <2>2, StageIs
  <2>8. Stage(c)' = "down"
    BY <2>4, <2>5, <2>6 DEF Stage, Alive, LastIsDown
  <2>9. /\ StageMap[c] = Stage(c) /\ LogMap[c] = log[c]
        /\ StageMap' = [StageMap EXCEPT ![c] = Stage(c)']
        /\ LogMap' = [LogMap EXCEPT ![c] = log'[c]]
    BY <2>5, <2>6, OneMoves DEF SafeInv
  <2> QED BY <2>6, <2>7, <2>8, <2>9, LifeIs DEF Promised
<1> QED BY <1>2, <1>3

\* A message comes between the two.
LEMMA MessageIsPromised ==
    ASSUME SafeInv, NEW c \in Conns, HandleRead(c), setup' = setup
    PROVE  Promised
<1>1. Alive(c) /\ LifeOf(c) /\ "handleRead" \in Calls(c)
  BY AtTop DEF HandleRead
<1>2. log[c] # << >> /\ ~LastIsDown(log[c])
  BY <1>1 DEF LifeOf, Lives
<1>3. conn' = conn
  BY DEF HandleRead
<1>4. CASE log' = log
  BY <1>3, <1>4, NoneMoves DEF Promised
<1>5. CASE Report(c, "message")
  <2>1. /\ \A d \in Conns \ {c} : log'[d] = log[d]
        /\ log'[c] # << >> /\ ~LastIsDown(log'[c])
        /\ log'[c] = Append(log[c], "message") \/ log'[c] = log[c]
    BY <1>5, ReportIs
  <2>2. Stage(c) = "up"
    BY <1>1, <1>2, StageIs
  <2>3. Stage(c)' = "up"
    BY <1>1, <1>3, <2>1 DEF Stage, Alive, LastIsDown
  <2>4. /\ StageMap[c] = Stage(c) /\ LogMap[c] = log[c]
        /\ StageMap' = [StageMap EXCEPT ![c] = Stage(c)']
        /\ LogMap' = [LogMap EXCEPT ![c] = log'[c]]
    BY <1>3, <2>1, OneMoves DEF SafeInv
  <2>5. CASE log'[c] = log[c]
    BY <1>3, <2>1, <2>5, NoneMoves DEF Promised
  <2>6. CASE log'[c] = Append(log[c], "message")
    BY <2>2, <2>3, <2>4, <2>6, LifeIs DEF Promised
  <2> QED BY <2>1, <2>5, <2>6
<1> QED BY <1>4, <1>5 DEF HandleRead

\* The object is there before the first and after the last.
LEMMA OpenIsPromised ==
    ASSUME SafeInv, NEW c \in Conns, NewConnectionAccepted(c), setup' = setup
    PROVE  Promised
<1> DEFINE r == [NewConnection EXCEPT !.life = "alive"]
<1>1. conn[c].life = "unborn" /\ conn' = [conn EXCEPT ![c].life = "alive"] /\ log' = log
  BY DEF NewConnectionAccepted
<1>2. conn[c] = NewConnection /\ log[c] = << >>
  BY <1>1 DEF SafeInv, CarefulInv, LifeOf, Begins
<1>3. conn'[c] = r /\ \A d \in Conns \ {c} : conn'[d] = conn[d]
  BY <1>1, <1>2, SafeTypes
<1>4. r.life = "alive"
  BY BornIs
<1> HIDE DEF r
<1>5. Stage(c) = "none"
  BY <1>1, StageIs
<1>6. Stage(c)' = "open"
  BY <1>1, <1>2, <1>3, <1>4 DEF Stage, Alive
<1>7. /\ StageMap[c] = Stage(c) /\ StageMap' = [StageMap EXCEPT ![c] = Stage(c)']
      /\ LogMap' = [LogMap EXCEPT ![c] = log'[c]] /\ LogMap[c] = log[c]
  BY <1>1, <1>3, OneMoves DEF SafeInv
<1>8. LogMap' = LogMap
  BY <1>1, <1>7 DEF LogMap
<1> QED BY <1>5, <1>6, <1>7, <1>8, LifeIs DEF Promised

LEMMA GoneIsPromised ==
    ASSUME SafeInv, NEW c \in Conns, Destructor(c), setup' = setup
    PROVE  Promised
<1> DEFINE q == [Unregister(conn[c]) EXCEPT !.life = "freed"]
<1>1. Alive(c) /\ conn[c].state = "kDisconnected" /\ ~conn[c].mapped
  BY OrphanIs DEF Destructor
<1>2. ~conn[c].addToLoop
  BY <1>1 DEF SafeInv, PollerInv, PollerConsistent, Consistent, Alive
<1>3. conn' = [conn EXCEPT ![c] = q] /\ log' = log
  BY <1>1, <1>2 DEF Destructor, Asserting
<1>4. conn[c] \in Connections /\ log[c] # << >> /\ LastIsDown(log[c])
  BY <1>1, SafeTypes DEF SafeInv, CarefulInv, LifeOf, Dies, LastIsDown
<1>5. q.life = "freed"
  BY <1>4 DEF Connections, Unregister, NoInterest
<1> HIDE DEF q
<1>6. conn'[c] = q /\ \A d \in Conns \ {c} : conn'[d] = conn[d]
  BY <1>3, SafeTypes
<1>7. Stage(c) = "down"
  BY <1>1, <1>4, StageIs
<1>8. Stage(c)' = "gone"
  <2>1. conn'[c].life = "freed" /\ conn'[c].life # "unborn"
    BY <1>5, <1>6
  <2> QED BY <2>1 DEF Stage, Alive
<1>9. /\ StageMap[c] = Stage(c) /\ StageMap' = [StageMap EXCEPT ![c] = Stage(c)']
      /\ LogMap' = [LogMap EXCEPT ![c] = log'[c]] /\ LogMap[c] = log[c]
  BY <1>3, <1>6, OneMoves DEF SafeInv
<1>10. LogMap' = LogMap
  BY <1>3, <1>9 DEF LogMap
<1> QED BY <1>7, <1>8, <1>9, <1>10, LifeIs DEF Promised

\* Nothing else has a part in the life of a connection.
LEMMA OthersPromised ==
    ASSUME SafeInv, NEW c \in Conns, setup' = setup,
           \/ Remove(c) \/ HandleError(c) \/ ShutdownInLoop(c) \/ ForceCloseInLoop(c) \/ StopReadInLoop(c)
           \/ RemoveConnection(c) \/ HandleEventWithGuard(c) \/ HandleEvent(c) \/ Peer(c)
           \/ \E op \in Operations : CallFromCallback(op, c)
    PROVE  Promised
<1>1. CASE \/ HandleError(c) \/ ShutdownInLoop(c) \/ ForceCloseInLoop(c)
           \/ HandleEventWithGuard(c) \/ HandleEvent(c) \/ Peer(c)
  <2>1. conn' = conn /\ log' = log
    BY <1>1 DEF HandleError, ShutdownInLoop, ForceCloseInLoop, HandleEventWithGuard, HandleEvent, Peer, objects
  <2> QED BY <2>1, NoneMoves DEF Promised
<1>2. CASE RemoveConnection(c)
  <2>1. conn' = conn /\ log' = log
    BY <1>2 DEF RemoveConnection, RemoveConnectionInLoop, Asserting, Fail, objects
  <2> QED BY <2>1, NoneMoves DEF Promised
<1>3. ASSUME NEW r, r.life = conn[c].life, log' = log, conn' = [conn EXCEPT ![c] = r]
      PROVE  Promised
  <2>1. \A d \in Conns : conn'[d].life = conn[d].life
    BY <1>3, SafeTypes
  <2> QED BY <1>3, <2>1, NoneMoves DEF Promised
<1>4. CASE Remove(c)
  <2> DEFINE q == RemoveChannel(conn[c])
  <2>1. conn[c] \in Connections /\ Consistent(conn[c])
    BY <1>4, AtTop DEF Remove
  <2>2. q.life = conn[c].life
    BY <2>1, RecordsAre DEF States
  <2>3. log' = log /\ (conn' = [conn EXCEPT ![c] = q] \/ conn' = conn)
    BY <1>4 DEF Remove, Asserting, Fail
  <2> HIDE DEF q
  <2>4. CASE conn' = conn
    BY <2>3, <2>4, NoneMoves DEF Promised
  <2> QED BY <1>3, <2>2, <2>3, <2>4
<1>5. CASE StopReadInLoop(c)
  <2> DEFINE q == DisableReading([conn[c] EXCEPT !.reading = FALSE])
             r == IF conn[c].reading \/ IsReading(conn[c]) THEN q ELSE conn[c]
  <2>1. conn[c] \in Connections /\ Consistent(conn[c])
    BY <1>5, AtTop DEF StopReadInLoop
  <2>2. q.life = conn[c].life
    BY <2>1, RecordsAre DEF States
  <2>3. log' = log /\ conn' = [conn EXCEPT ![c] = r]
    BY <1>5 DEF StopReadInLoop
  <2> HIDE DEF q
  <2>4. r.life = conn[c].life
    BY <2>2
  <2> HIDE DEF r
  <2> QED BY <1>3, <2>3, <2>4
<1>6. ASSUME NEW op \in Operations, CallFromCallback(op, c)
      PROVE  Promised
  <2> DEFINE r == [conn[c] EXCEPT !.state = "kDisconnecting"]
  <2>1. log' = log /\ (conn' = conn \/ conn' = [conn EXCEPT ![c] = r])
    BY <1>6 DEF CallFromCallback, Store
  <2>2. r.life = conn[c].life
    BY SafeTypes DEF Connections
  <2> HIDE DEF r
  <2>3. CASE conn' = conn
    BY <2>1, <2>3, NoneMoves DEF Promised
  <2> QED BY <1>3, <2>1, <2>2, <2>3
<1> QED BY <1>1, <1>2, <1>4, <1>5, <1>6

LEMMA PromisedStep ==
    ASSUME ConnInv, PollerInv, EventsInv, LifeInv, [Next]_vars
    PROVE  [Life!Next]_(Life!vars)
<1> SUFFICES Promised
  <2>1. StageMap' = StageMap /\ LogMap' = LogMap => (Life!vars)' = Life!vars
    BY DEF Life!vars, StageMap, LogMap
  <2> QED BY <2>1 DEF Promised
<1>1. setup' = setup
  BY SetupStays
<1>2. CASE ~Careful
  BY <1>1, <1>2, Careless DEF Promised
<1>3. CASE Careful
  <2>1. SafeInv
    BY <1>3 DEF SafeInv, LifeInv
  <2>2. CASE UNCHANGED vars
    BY <1>1, <2>2, NoneMoves DEF vars, Promised
  <2>3. ASSUME NEW c \in Conns, Body(c)
        PROVE  Promised
    <3>1. ConnectionEstablished(c) => Promised
      BY <1>1, <2>1, UpIsPromised
    <3>2. ConnectionDestroy(c) \/ HandleClose(c) => Promised
      BY <1>1, <2>1, DownIsPromised
    <3>3. HandleRead(c) => Promised
      BY <1>1, <2>1, MessageIsPromised
    <3>4. \/ Remove(c) \/ HandleError(c) \/ ShutdownInLoop(c) \/ ForceCloseInLoop(c) \/ StopReadInLoop(c)
          \/ RemoveConnection(c) \/ HandleEventWithGuard(c)
          => Promised
      BY <1>1, <2>1, OthersPromised
    <3> QED BY <2>1, <2>3, <3>1, <3>2, <3>3, <3>4, NeverHappens DEF Body
  <2>4. ASSUME NEW c \in Conns, Destructor(c) \/ HandleEvent(c) \/ Peer(c) \/ NewConnectionAccepted(c)
        PROVE  Promised
    BY <1>1, <2>1, <2>4, GoneIsPromised, OpenIsPromised, OthersPromised
  <2>5. ASSUME NEW op \in Operations, NEW c \in Conns, CallFromCallback(op, c)
        PROVE  Promised
    BY <1>1, <2>1, <2>5, OthersPromised
  <2>6. CASE CallbackReturns \/ Poll \/ CheckQuit \/ SwapFunctors \/ RunFunctor \/ EndFunctors
    <3>1. conn' = conn /\ log' = log
      BY <2>6 DEF CallbackReturns, Poll, CheckQuit, SwapFunctors, RunFunctor, EndFunctors, objects
    <3> QED BY <1>1, <3>1, NoneMoves DEF Promised
  <2>7. CASE BaseStep \/ ServerDestructor
    <3>1. conn' = conn /\ log' = log
      BY <2>7 DEF BaseStep, RemoveConnectionInLoop, Asserting, Fail, ServerDestructor, objects
    <3> QED BY <1>1, <3>1, NoneMoves DEF Promised
  <2>8. IoStep => Promised
    BY <2>1, <2>3, <2>4, <2>6, NeverHappens DEF IoStep
  <2>9. \A u \in Users : ~UserStep(u)
    BY <2>1, NeverHappens DEF UserStep
  <2>10. ASSUME NEW k \in 1 .. calls, DataGoes(k)
         PROVE  Promised
    <3>1. conn' = conn /\ log' = log
      BY <2>10 DEF DataGoes, objects
    <3> QED BY <1>1, <3>1, NoneMoves DEF Promised
  <2>11. Next => Promised
    BY <2>1, <2>4, <2>5, <2>7, <2>8, <2>9, <2>10, NeverHappens DEF Next
  <2> QED BY <2>2, <2>11
<1> QED BY <1>2, <1>3

\* With careful users TcpConnectionff implements ConnectionLife: one connection callback when the
\* connection is up, then messages, then one when it is down, and only then is the object destroyed.
THEOREM ConnectionsLiveAsPromised == Spec => LivesAsPromised
<1>1. Init => Life!Init
  <2> SUFFICES ASSUME Init
               PROVE  Life!Init
    OBVIOUS
  <2>1. \A c \in Conns : conn[c].life = "unborn" /\ log[c] = << >>
    BY DEF Init, NewConnection
  <2>2. \A c \in Conns : Stage(c) = "none"
    BY <2>1, StageIs
  <2> QED BY <2>1, <2>2 DEF Life!Init
<1> QED BY <1>1, PromisedStep, LifeInvariance, InitPoller, PollerStep, EventsInit, EventsStep, ConnInit, ConnStep,
           PTL DEF Spec, LivesAsPromised, Life!Spec
=============================================================================
