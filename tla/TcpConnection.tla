--------------------------- MODULE TcpConnection ---------------------------
(***************************************************************************)
(* The life of the connections of one TcpServerff: TcpConnectionff, its    *)
(* Channelff and Pollerff (module Channel), and the part of TcpServerff    *)
(* that accepts, registers and removes them.  An I/O loop runs the         *)
(* connections; a base loop runs the server; with one loop they are the    *)
(* same (setThreadNum(0)).  Of a loop only what EventLoop establishes is   *)
(* kept: handlers first, then the functors queued so far, in order.        *)
(*                                                                         *)
(* The I/O thread is one call stack.  A user callback is a frame during    *)
(* which the user may call the connection; when it returns, the code below *)
(* it goes on.  Threads that are not the I/O thread (Users) call through   *)
(* runInLoop; the check of state_, the store to it and the push are three  *)
(* steps.  Object lifetime is kept: a connection whose last shared_ptr is  *)
(* gone is destroyed, and functors bound to a raw `this` do not keep it.   *)
(***************************************************************************)
EXTENDS Channel, Integers, Sequences, FiniteSets

CONSTANTS
    Conns,        \* the connections, numbered as newConnection numbers them
    Users,        \* threads other than the loops' that call connections
    Setups,       \* the ways in which the program may be built and use the library
    MaxSend,      \* bound: units of data in one send
    MaxData,      \* bound: units of data sent on a connection
    HighWaterMark \* highWaterMark_, in units of data

Operations == {"send", "shutdown", "forceClose", "forceCloseWithDelay", "startRead",
               "stopRead", "keep"}

\* conns: the connections that are accepted; single: the server has no I/O threads;
\* debug: assertions are compiled in; stops: the server may be destroyed while it has
\* connections; callbackOps: what callbacks call, with cross also on connections other
\* than their own; userOps: what the other threads call; maxCalls: the bound on the calls
\* of both.
SetupType ==
    [conns : SUBSET Conns, single : BOOLEAN, debug : BOOLEAN, stops : BOOLEAN,
     cross : BOOLEAN, callbackOps : SUBSET Operations, userOps : SUBSET (Operations \ {"keep"}),
     maxCalls : Nat]

ASSUME SetupsAssumption == Setups \subseteq SetupType
ASSUME ConnsAssumption == Conns \subseteq Nat
ASSUME BoundsAssumption == {MaxSend, MaxData, HighWaterMark} \subseteq Nat

VARIABLES
    setup,      \* how this run of the program is set up; never changes
    conn,       \* the objects: state_, reading_, outputBuffer_ and the channel
    sock,       \* the kernel's side of each connection, and its peer
    inMap,      \* connections_ of the server
    server,     \* "running"; "stopping": its destructor has queued the destroys of
                \* its connections; "stopped": the I/O loop has been told to quit
    baseQueue,  \* removals queued in the base loop, when it is another loop
    phase,      \* where the I/O loop is in an iteration
    active,     \* revents_ of the channels of activeChannels_, the bits not yet handled
    stack,      \* the call stack of the I/O thread, top first
    running,    \* the functors doPendingFunctors has swapped out
    next,       \* the index in running of the functor to run next
    ioQueue,    \* pendingFunctors_ of the I/O loop
    timers,     \* connections with a forceCloseWithDelay timer
    userRef,    \* connections the users keep a shared_ptr to
    userCall,   \* the call each user is in the middle of
    calls,      \* calls made by users, at most setup.maxCalls
    reused,     \* the calls of send whose data has gone before the I/O loop has taken it
    log,        \* history: the connection and message callbacks of each connection
    fault       \* the assertion that failed or the dead object that was used

objects    == <<conn, sock, log>>
constant   == <<setup, fault>>
serverVars == <<inMap, server, baseQueue>>
loopVars   == <<phase, active, running, next>>
userVars   == <<userRef, userCall, calls, reused>>
others     == <<serverVars, loopVars, timers, userVars, constant>>
vars == <<setup, conn, sock, serverVars, loopVars, stack, ioQueue, timers, userVars, log, fault>>

States == {"kConnecting", "kConnected", "kDisconnecting", "kDisconnected"}

NewConnection ==
    [life |-> "unborn", state |-> "kConnecting", reading |-> FALSE, out |-> << >>,
     events |-> {}, index |-> "kNew", addToLoop |-> FALSE, mapped |-> FALSE,
     registered |-> FALSE, interest |-> {}]

\* rcv: there is data to read; fin: the peer has closed; rst: it has reset; err: an
\* error is pending; wrShut: our side is shut down; wire: the data written, in
\* order; accepted: how much data sendInLoop was given.  The units of data sent on a
\* connection are numbered from 1; 0 stands for other bytes.
NewSocket ==
    [rcv |-> FALSE, fin |-> FALSE, rst |-> FALSE, err |-> FALSE, wrShut |-> FALSE,
     wire |-> << >>, accepted |-> 0]

Init ==
    /\ setup \in Setups
    /\ conn = [c \in Conns |-> NewConnection]
    /\ sock = [c \in Conns |-> NewSocket]
    /\ inMap = {}
    /\ server = "running"
    /\ baseQueue = << >>
    /\ phase = "check"
    /\ active = [c \in Conns |-> {}]
    /\ stack = << >>
    /\ running = << >>
    /\ next = 1
    /\ ioQueue = << >>
    /\ timers = {}
    /\ userRef = {}
    /\ userCall = [u \in Users |-> [op |-> "none"]]
    /\ calls = 0
    /\ reused = {}
    /\ log = [c \in Conns |-> << >>]
    /\ fault = "none"

-----------------------------------------------------------------------------
(* Functions, functors and the lifetime of connections.                    *)

\* A call of, or a functor bound to, function f of connection c; n: the amount of data of a
\* send, and from: the call, by another thread, whose caller owns the memory that the data is
\* still in, or 0; held: the call or the functor owns a shared_ptr.
Function(f, c, held) == [fun |-> f, c |-> c, n |-> 0, from |-> 0, held |-> held]

Contents(s) == {s[i] : i \in DOMAIN s}

\* Some shared_ptr to c exists: in connections_, in a functor (those of a batch
\* live until the batch has run), in a running function, a timer, or with a user.
Held(c) ==
    \/ c \in inMap \cup timers \cup userRef \cup Contents(baseQueue)
    \/ \E f \in Contents(ioQueue) \cup Contents(running) \cup Contents(stack) :
          f.c = c /\ f.held

Alive(c) == conn[c].life = "alive"

\* Objects without an owner: their destructors run before anything else happens.
Orphans == {c \in Conns : Alive(c) /\ ~Held(c)}

\* A fault ends the run.
Sound == fault = "none"
Runs == Sound /\ Orphans = {}

Fail(what) ==
    /\ fault' = what
    /\ UNCHANGED <<setup, conn, sock, stack, ioQueue, log, serverVars, loopVars, timers, userVars>>

\* An assertion stops the process; without setup.debug it is not there.
Asserting(P, where, A) == IF P \/ ~setup.debug THEN A ELSE Fail(where)

\* Function f of connection c is about to run, at the top of the stack.
At(f, c) ==
    /\ stack # << >>
    /\ Head(stack).fun = f
    /\ Head(stack).c = c
    /\ Alive(c)
    /\ Runs

\* A function is about to run on an object that has been destroyed.
UseAfterFree ==
    /\ stack # << >>
    /\ ~Alive(Head(stack).c)
    /\ Runs
    /\ Fail("use after free")

\* The function at the top returns, after calling the functions fs.
Return(fs) == stack' = fs \o Tail(stack)

Report(c, callback) ==
    log' = [log EXCEPT ![c] =
              IF @ # << >> /\ @[Len(@)] = "message" /\ callback = "message"
              THEN @ ELSE Append(@, callback)]

\* A user callback about c.
Callback(c) == Function("callback", c, TRUE)

\* ~TcpConnectionff, ~Channelff, and the close of the descriptor.
Destructor(c) ==
    /\ Sound
    /\ c \in Orphans
    /\ Asserting(conn[c].state = "kDisconnected", "TcpConnectionff.cpp:58",
       Asserting(~conn[c].addToLoop, "Channelff.cpp:30",
          /\ conn' = [conn EXCEPT ![c] = [Unregister(@) EXCEPT !.life = "freed"]]
          /\ UNCHANGED <<sock, stack, ioQueue, log, others>>))

-----------------------------------------------------------------------------
(* TcpConnectionff: the functions that run on the I/O thread.              *)

ConnectionEstablished(c) ==
    /\ At("connectionEstablished", c)
    /\ Asserting(conn[c].state = "kConnecting", "TcpConnectionff.cpp:230",
          /\ conn' = [conn EXCEPT ![c] = EnableReading([@ EXCEPT !.state = "kConnected"])]
          /\ Report(c, "up")
          /\ Return(<<Callback(c)>>)
          /\ UNCHANGED <<sock, ioQueue, others>>)

ConnectionDestroy(c) ==
    /\ At("connectionDestroy", c)
    /\ IF conn[c].state = "kConnected"
       THEN /\ conn' = [conn EXCEPT ![c] = DisableAll([@ EXCEPT !.state = "kDisconnected"])]
            /\ Report(c, "down")
            /\ Return(<<Callback(c), Function("remove", c, TRUE)>>)
       ELSE /\ Return(<<Function("remove", c, TRUE)>>)
            /\ UNCHANGED <<conn, log>>
    /\ UNCHANGED <<sock, ioQueue, others>>

\* The rest of connectionDestroy: connChannel_->remove().
Remove(c) ==
    /\ At("remove", c)
    /\ Asserting(RemoveAsserts(conn[c]), "Channelff.cpp:73",
          /\ conn' = [conn EXCEPT ![c] = RemoveChannel(@)]
          /\ Return(<< >>)
          /\ UNCHANGED <<sock, ioQueue, log, others>>)

\* Faulty variants: the channel keeps its events; the state is not changed.
HandleCloseKeepsEvents(c) ==
    /\ At("handleClose", c)
    /\ conn' = [conn EXCEPT ![c].state = "kDisconnected"]
    /\ Report(c, "down")
    /\ Return(<<Callback(c), Function("closeCallback", c, TRUE)>>)
    /\ UNCHANGED <<sock, ioQueue, others>>
HandleCloseKeepsState(c) ==
    /\ At("handleClose", c)
    /\ conn' = [conn EXCEPT ![c] = DisableAll(@)]
    /\ Report(c, "down")
    /\ Return(<<Callback(c), Function("closeCallback", c, TRUE)>>)
    /\ UNCHANGED <<sock, ioQueue, others>>

HandleClose(c) ==
    /\ At("handleClose", c)
    /\ Asserting(conn[c].state \in {"kConnected", "kDisconnecting"},
                 "TcpConnectionff.cpp:307",
          /\ conn' = [conn EXCEPT ![c] = DisableAll([@ EXCEPT !.state = "kDisconnected"])]
          /\ Report(c, "down")
          /\ Return(<<Callback(c), Function("closeCallback", c, TRUE)>>)
          /\ UNCHANGED <<sock, ioQueue, others>>)

\* Faulty variant: the end of the peer's data is taken for an error.
HandleReadNoClose(c) ==
    /\ At("handleRead", c)
    /\ sock' = [sock EXCEPT ![c].rcv = FALSE]
    /\ IF sock[c].rcv
       THEN Report(c, "message") /\ Return(<<Callback(c)>>)
       ELSE Return(<<Function("handleError", c, FALSE)>>) /\ UNCHANGED log
    /\ UNCHANGED <<conn, ioQueue, others>>

\* read(2) takes all the data there is, or tells that the peer has closed; a pending
\* error or an empty socket makes it fail, which handleError logs.
HandleRead(c) ==
    /\ At("handleRead", c)
    /\ \/ /\ sock[c].rcv
          /\ sock' = [sock EXCEPT ![c].rcv = FALSE]
          /\ Report(c, "message")
          /\ Return(<<Callback(c)>>)
       \/ /\ ~sock[c].rcv /\ ~sock[c].err /\ (sock[c].fin \/ sock[c].rst)
          /\ Return(<<Function("handleClose", c, FALSE)>>)
          /\ UNCHANGED <<sock, log>>
       \/ /\ ~sock[c].rcv /\ (sock[c].err \/ ~(sock[c].fin \/ sock[c].rst))
          /\ Return(<<Function("handleError", c, FALSE)>>)
          /\ UNCHANGED <<sock, log>>
    /\ UNCHANGED <<conn, ioQueue, others>>

\* getsockopt(SO_ERROR) clears the error it reports.
HandleError(c) ==
    /\ At("handleError", c)
    /\ sock' = [sock EXCEPT ![c].err = FALSE]
    /\ Return(<< >>)
    /\ UNCHANGED <<conn, ioQueue, log, others>>

\* How many of n units write(2) takes; 0 stands for EAGAIN.  On a socket that is
\* shut down or reset it fails with EPIPE or ECONNRESET.
BrokenPipe(c) == sock[c].wrShut \/ sock[c].rst
Taken(c, n) == IF BrokenPipe(c) THEN {0} ELSE 0 .. n

\* Faulty variant: data that waits is overtaken.
WritesDirectlyAlways(c) == ~IsWriting(conn[c])

\* A write is tried at once only when nothing waits to be written.
WritesDirectly(c) == ~IsWriting(conn[c]) /\ conn[c].out = << >>

\* What a send of n units finds where its data was.
DataFound(c, n) ==
    [i \in 1 .. n |-> IF Head(stack).from \in reused THEN 0 ELSE sock[c].accepted + i]

SendInLoop(c) ==
    /\ At("sendInLoop", c)
    /\ conn[c].state # "kDisconnected"
    /\ \E w \in (IF WritesDirectly(c) THEN Taken(c, Head(stack).n) ELSE {0}) :
       LET n          == Head(stack).n
           data       == DataFound(c, n)
           oldLen     == Len(conn[c].out)
           remaining  == n - w
           faultError == WritesDirectly(c) /\ BrokenPipe(c)
           buffers    == ~faultError /\ remaining > 0
           buffered   == [conn[c] EXCEPT !.out = @ \o SubSeq(data, w + 1, n)]
           highWater  == oldLen < HighWaterMark /\ oldLen + remaining >= HighWaterMark
       IN  Asserting(remaining < n, "TcpConnectionff.cpp:127",
              /\ sock' = [sock EXCEPT ![c].wire = @ \o SubSeq(data, 1, w),
                                      ![c].accepted = IF faultError THEN @ ELSE @ + n]
              /\ conn' = [conn EXCEPT ![c] = IF ~buffers THEN @
                                             ELSE IF IsWriting(@) THEN buffered
                                             ELSE EnableWriting(buffered)]
              /\ ioQueue' = IF remaining = 0 \/ (buffers /\ highWater)
                            THEN Append(ioQueue, Callback(c)) ELSE ioQueue
              /\ Return(<< >>)
              /\ UNCHANGED <<log, others>>)

\* A connection that is closed gives up the data.
SendGivesUp(c) ==
    /\ At("sendInLoop", c)
    /\ conn[c].state = "kDisconnected"
    /\ Return(<< >>)
    /\ UNCHANGED <<conn, sock, ioQueue, log, others>>

\* With the channel not isWriting() only a line is logged.
HandleWrite(c) ==
    /\ At("handleWrite", c)
    /\ \E w \in (IF IsWriting(conn[c]) THEN Taken(c, Len(conn[c].out)) ELSE {0}) :
       LET rest    == SubSeq(conn[c].out, w + 1, Len(conn[c].out))
           drained == w > 0 /\ rest = << >>
           written == [conn[c] EXCEPT !.out = rest]
       IN  /\ sock' = [sock EXCEPT ![c].wire = @ \o SubSeq(conn[c].out, 1, w)]
           /\ conn' = [conn EXCEPT ![c] = IF drained THEN DisableWriting(written) ELSE written]
           /\ ioQueue' = IF drained THEN Append(ioQueue, Callback(c)) ELSE ioQueue
           /\ Return(IF drained /\ conn[c].state = "kDisconnecting"
                     THEN <<Function("shutdownInLoop", c, FALSE)>> ELSE << >>)
           /\ UNCHANGED <<log, others>>

ShutdownInLoop(c) ==
    /\ At("shutdownInLoop", c)
    /\ sock' = [sock EXCEPT ![c].wrShut = @ \/ ~IsWriting(conn[c])]
    /\ Return(<< >>)
    /\ UNCHANGED <<conn, ioQueue, log, others>>

ForceCloseInLoop(c) ==
    /\ At("forceCloseInLoop", c)
    /\ Return(IF conn[c].state \in {"kConnected", "kDisconnecting"}
              THEN <<Function("handleClose", c, TRUE)>> ELSE << >>)
    /\ UNCHANGED <<conn, sock, ioQueue, log, others>>

StartReadInLoop(c) ==
    /\ At("startReadInLoop", c)
    /\ conn' = [conn EXCEPT ![c] = IF ~@.reading \/ ~IsReading(@)
                                   THEN EnableReading([@ EXCEPT !.reading = TRUE]) ELSE @]
    /\ Return(<< >>)
    /\ UNCHANGED <<sock, ioQueue, log, others>>

StopReadInLoop(c) ==
    /\ At("stopReadInLoop", c)
    /\ conn' = [conn EXCEPT ![c] = IF @.reading \/ IsReading(@)
                                   THEN DisableReading([@ EXCEPT !.reading = FALSE]) ELSE @]
    /\ Return(<< >>)
    /\ UNCHANGED <<sock, ioQueue, log, others>>

-----------------------------------------------------------------------------
(* What users call.                                                        *)

\* The check of state_ with which a member function begins.
Permitted(op, c) ==
    CASE op \in {"send", "shutdown"} -> conn[c].state = "kConnected"
      [] op \in {"forceClose", "forceCloseWithDelay"} ->
            conn[c].state \in {"kConnected", "kDisconnecting"}
      [] OTHER -> TRUE

\* Those that set kDisconnecting after it.
Stores(op) == op \in {"shutdown", "forceClose", "forceCloseWithDelay"}
Store(op, c) ==
    conn' = IF Stores(op) THEN [conn EXCEPT ![c].state = "kDisconnecting"] ELSE conn

\* The function each hands to runInLoop; only forceClose binds a shared_ptr, and the data of
\* a send is bound as a pointer to the memory of its caller.
InLoop(op, c, n, from) ==
    [fun |-> CASE op = "send" -> "sendInLoop"
               [] op = "shutdown" -> "shutdownInLoop"
               [] op = "forceClose" -> "forceCloseInLoop"
               [] op = "startRead" -> "startReadInLoop"
               [] op = "stopRead" -> "stopReadInLoop"
               [] OTHER -> "none",
     c |-> c, n |-> n, from |-> from, held |-> op = "forceClose"]

\* The amounts of data a call of op on c may carry.
Amounts(op, c) ==
    IF op = "send" THEN {n \in 1 .. MaxSend : sock[c].accepted + n <= MaxData} ELSE {0}

\* A callback calls its own connection or, with setup.cross, one the users keep.
CallFromCallback(op, c) ==
    /\ stack # << >>
    /\ Head(stack).fun = "callback"
    /\ c = Head(stack).c \/ (setup.cross /\ c \in userRef)
    /\ op \in setup.callbackOps
    /\ calls < setup.maxCalls
    /\ Runs
    /\ calls' = calls + 1
    /\ Permitted(op, c)
    /\ Store(op, c)
    /\ CASE op = "keep" ->
              /\ userRef' = userRef \cup {c}
              /\ UNCHANGED <<stack, timers>>
         [] op = "forceCloseWithDelay" ->
              /\ timers' = timers \cup {c}
              /\ UNCHANGED <<stack, userRef>>
         [] OTHER ->
              /\ \E n \in Amounts(op, c) : stack' = <<InLoop(op, c, n, 0)>> \o stack
              /\ UNCHANGED <<timers, userRef>>
    /\ UNCHANGED <<sock, serverVars, loopVars, ioQueue, userCall, reused, log, constant>>

CallbackReturns ==
    /\ stack # << >>
    /\ Head(stack).fun = "callback"
    /\ Return(<< >>)
    /\ Runs
    /\ UNCHANGED <<conn, sock, ioQueue, log, others>>

\* Another thread calls a connection it has a pointer to: it checks state_ ...
UserCheck(u, op, c) ==
    /\ userCall[u].op = "none"
    /\ c \in userRef
    /\ op \in setup.userOps
    /\ calls < setup.maxCalls
    /\ Runs
    /\ calls' = calls + 1
    /\ Permitted(op, c)
    /\ \E n \in Amounts(op, c) :
          userCall' = [userCall EXCEPT ![u] =
             [op |-> op, c |-> c, n |-> n, from |-> IF op = "send" THEN calls + 1 ELSE 0,
              at |-> IF Stores(op) THEN "store" ELSE "push"]]
    /\ UNCHANGED <<objects, serverVars, loopVars, stack, ioQueue, timers, userRef, reused, constant>>

\* ... stores kDisconnecting ...
UserStore(u) ==
    /\ userCall[u].op # "none"
    /\ userCall[u].at = "store"
    /\ Runs
    /\ Store(userCall[u].op, userCall[u].c)
    /\ userCall' = [userCall EXCEPT ![u].at = "push"]
    /\ UNCHANGED <<sock, serverVars, loopVars, stack, ioQueue, timers, userRef, calls, reused, log,
                   constant>>

\* ... and queues the function, or adds the timer.
UserPush(u) ==
    LET call == userCall[u]
    IN  /\ Runs
        /\ call.op # "none"
        /\ call.at = "push"
        /\ userCall' = [userCall EXCEPT ![u] = [op |-> "none"]]
        /\ IF call.op = "forceCloseWithDelay"
           THEN timers' = timers \cup {call.c} /\ UNCHANGED ioQueue
           ELSE /\ ioQueue' = Append(ioQueue, InLoop(call.op, call.c, call.n, call.from))
                /\ UNCHANGED timers
        /\ UNCHANGED <<objects, serverVars, loopVars, stack, userRef, calls, reused, constant>>

\* The memory that the data of a queued send is in gets other bytes: the string of the caller
\* ends, or more is put into its Bufferff, which send has marked as empty.
DataGoes(k) ==
    /\ k \notin reused
    /\ \E f \in Contents(ioQueue) \cup Contents(SubSeq(running, next, Len(running)))
                \cup Contents(stack) : f.from = k
    /\ Runs
    /\ reused' = reused \cup {k}
    /\ UNCHANGED <<objects, serverVars, loopVars, stack, ioQueue, timers, userRef, userCall, calls,
                   constant>>

\* A pointer that no call in progress uses is dropped.
Drop(c) ==
    /\ c \in userRef
    /\ \A u \in Users : userCall[u].op # "none" => userCall[u].c # c
    /\ Runs
    /\ userRef' = userRef \ {c}
    /\ UNCHANGED <<objects, serverVars, loopVars, stack, ioQueue, timers, userCall, calls, reused,
                   constant>>

-----------------------------------------------------------------------------
(* TcpServerff.                                                            *)

\* newConnection: from the acceptor's handler, on the base loop, with nextConnId_.
NewConnectionAccepted(c) ==
    /\ server = "running"
    /\ c \in setup.conns
    /\ \A d \in setup.conns : conn[d].life = "unborn" => c <= d
    /\ conn[c].life = "unborn"
    /\ setup.single => phase = "events" /\ stack = << >>
    /\ Runs
    /\ conn' = [conn EXCEPT ![c].life = "alive"]
    /\ inMap' = inMap \cup {c}
    /\ IF setup.single
       THEN /\ stack' = <<Function("connectionEstablished", c, TRUE)>>
            /\ UNCHANGED ioQueue
       ELSE /\ ioQueue' = Append(ioQueue, Function("connectionEstablished", c, TRUE))
            /\ UNCHANGED stack
    /\ UNCHANGED <<sock, server, baseQueue, loopVars, timers, userVars, log, constant>>

\* Faulty variant: the destroy runs at once.
RemoveConnectionAtOnce(c) ==
    /\ inMap' = inMap \ {c}
    /\ IF setup.single
       THEN /\ Return(<<Function("connectionDestroy", c, TRUE)>>)
            /\ UNCHANGED <<ioQueue, baseQueue>>
       ELSE /\ ioQueue' = Append(ioQueue, Function("connectionDestroy", c, TRUE))
            /\ baseQueue' = Tail(baseQueue)
            /\ UNCHANGED stack
    /\ UNCHANGED <<objects, server, loopVars, timers, userVars, constant>>

\* removeConnectionInLoop; the destroy is queued, never run at once.
RemoveConnectionInLoop(c) ==
    Asserting(c \in inMap, "TcpServerff.cpp:98",
        /\ inMap' = inMap \ {c}
        /\ ioQueue' = Append(ioQueue, Function("connectionDestroy", c, TRUE))
        /\ baseQueue' = IF setup.single THEN baseQueue ELSE Tail(baseQueue)
        /\ stack' = IF setup.single THEN Tail(stack) ELSE stack
        /\ UNCHANGED <<objects, server, loopVars, timers, userVars, constant>>)

\* The end of handleClose, closeCallback_: removeConnection runs the removal in the
\* base loop.
RemoveConnection(c) ==
    /\ At("closeCallback", c)
    /\ IF setup.single
       THEN RemoveConnectionInLoop(c)
       ELSE /\ baseQueue' = Append(baseQueue, c)
            /\ Return(<< >>)
            /\ UNCHANGED <<objects, inMap, server, loopVars, ioQueue, timers, userVars, constant>>

BaseStep ==
    /\ ~setup.single
    /\ server = "running"
    /\ baseQueue # << >>
    /\ Runs
    /\ RemoveConnectionInLoop(Head(baseQueue))

\* ~TcpServerff, on the thread of the base loop, whose loop() has returned: with one
\* loop the destroys run at once, otherwise they are queued.
ServerDestructor ==
    /\ setup.stops
    /\ server = "running"
    /\ setup.single => phase = "check" /\ stack = << >>
    /\ Runs
    /\ server' = "stopping"
    /\ inMap' = {}
    /\ \E order \in [1 .. Cardinality(inMap) -> inMap] :
          /\ inMap = Contents(order)
          /\ LET destroys == [i \in DOMAIN order |->
                                 Function("connectionDestroy", order[i], TRUE)]
             IN  IF setup.single
                 THEN stack' = destroys /\ phase' = "exited" /\ UNCHANGED ioQueue
                 ELSE ioQueue' = ioQueue \o destroys /\ UNCHANGED <<stack, phase>>
    /\ UNCHANGED <<objects, baseQueue, active, running, next, timers, userVars, constant>>

\* Then its I/O threads are told to quit.
QuitIoLoop ==
    /\ server = "stopping"
    /\ ~setup.single
    /\ Runs
    /\ server' = "stopped"
    /\ UNCHANGED <<objects, inMap, baseQueue, loopVars, stack, ioQueue, timers, userVars, constant>>

\* The loops are destroyed, and with them the functors and timers they still have.
LoopDestructor ==
    /\ phase = "exited"
    /\ stack = << >>
    /\ ioQueue # << >> \/ baseQueue # << >> \/ timers # {}
    /\ Runs
    /\ ioQueue' = << >>
    /\ baseQueue' = << >>
    /\ timers' = {}
    /\ UNCHANGED <<objects, inMap, server, loopVars, stack, userVars, constant>>

-----------------------------------------------------------------------------
(* The I/O loop.                                                           *)

\* What epoll reports of c; out: its send buffer has room.
Revents(c, out) ==
    IF ~conn[c].registered THEN {}
    ELSE (IF sock[c].err THEN {"ERR"} ELSE {})
         \cup (IF sock[c].rcv \/ sock[c].fin \/ sock[c].rst
               THEN {"IN"} \cap conn[c].interest ELSE {})
         \cup (IF out THEN {"OUT"} \cap conn[c].interest ELSE {})

Poll ==
    /\ phase = "poll"
    /\ Runs
    /\ phase' = "events"
    /\ \E W \in SUBSET Conns : active' = [c \in Conns |-> Revents(c, c \in W)]
    /\ UNCHANGED <<objects, serverVars, stack, running, next, ioQueue, timers, userVars, constant>>

\* loop() goes on, or returns when quit_ is set: its loop is then destroyed.
CheckQuit ==
    /\ phase = "check"
    /\ Runs
    /\ phase' = IF server = "stopped" THEN "exited" ELSE "poll"
    /\ UNCHANGED <<objects, serverVars, active, running, next, stack, ioQueue, timers, userVars, constant>>

\* Channelff::handleEvent: a channel of the list is handled if tie_ still locks.
HandleEvent(c) ==
    /\ phase = "events"
    /\ stack = << >>
    /\ active[c] # {}
    /\ Runs
    /\ stack' = <<Function("event", c, TRUE)>>
    /\ UNCHANGED <<conn, sock, ioQueue, log, others>>

\* handleEventWithGuard: the error, read and write callbacks, in this order.
HandlerOf(bit) ==
    CASE bit = "ERR" -> "handleError" [] bit = "IN" -> "handleRead" [] bit = "OUT" -> "handleWrite"

NextBit(bits) == IF "ERR" \in bits THEN "ERR" ELSE IF "IN" \in bits THEN "IN" ELSE "OUT"

HandleEventWithGuard(c) ==
    /\ At("event", c)
    /\ IF active[c] = {}
       THEN Return(<< >>) /\ UNCHANGED active
       ELSE /\ stack' = <<Function(HandlerOf(NextBit(active[c])), c, FALSE)>> \o stack
            /\ active' = [active EXCEPT ![c] = @ \ {NextBit(@)}]
    /\ UNCHANGED <<objects, serverVars, phase, running, next, ioQueue, timers, userVars, constant>>

\* The timer of forceCloseWithDelay, a handler like the others, calls forceClose.
TimerExpires(c) ==
    /\ phase = "events"
    /\ stack = << >>
    /\ c \in timers
    /\ Runs
    /\ timers' = timers \ {c}
    /\ IF Permitted("forceClose", c)
       THEN /\ Store("forceClose", c)
            /\ stack' = <<InLoop("forceClose", c, 0, 0)>>
       ELSE UNCHANGED <<conn, stack>>
    /\ UNCHANGED <<sock, serverVars, loopVars, ioQueue, userVars, log, constant>>

SwapFunctors ==
    /\ phase = "events"
    /\ stack = << >>
    /\ \A c \in Conns : active[c] = {}
    /\ Runs
    /\ phase' = "functors"
    /\ running' = ioQueue
    /\ next' = 1
    /\ ioQueue' = << >>
    /\ UNCHANGED <<objects, serverVars, active, stack, timers, userVars, constant>>

\* The batch keeps what its functors hold until all have run.
RunFunctor ==
    /\ phase = "functors"
    /\ stack = << >>
    /\ next <= Len(running)
    /\ Runs
    /\ next' = next + 1
    /\ stack' = <<[running[next] EXCEPT !.held = FALSE]>>
    /\ UNCHANGED <<objects, serverVars, phase, active, running, ioQueue, timers, userVars, constant>>

EndFunctors ==
    /\ phase = "functors"
    /\ stack = << >>
    /\ next > Len(running)
    /\ Runs
    /\ phase' = "check"
    /\ running' = << >>
    /\ next' = 1
    /\ UNCHANGED <<objects, serverVars, active, stack, ioQueue, timers, userVars, constant>>

-----------------------------------------------------------------------------
(* The peer, as the kernel shows it; data and the end arrive in order.     *)

Peer(c) ==
    /\ conn[c].life = "alive"
    /\ ~sock[c].fin /\ ~sock[c].rst
    /\ Runs
    /\ sock' \in {[sock EXCEPT ![c].rcv = TRUE],
                  [sock EXCEPT ![c].fin = TRUE],
                  [sock EXCEPT ![c].rst = TRUE, ![c].err = TRUE, ![c].rcv = FALSE]}
    /\ UNCHANGED <<conn, stack, ioQueue, log, others>>

-----------------------------------------------------------------------------

Body(c) ==
    \/ ConnectionEstablished(c)
    \/ ConnectionDestroy(c)
    \/ Remove(c)
    \/ HandleClose(c)
    \/ HandleRead(c)
    \/ HandleError(c)
    \/ HandleWrite(c)
    \/ SendInLoop(c)
    \/ SendGivesUp(c)
    \/ ShutdownInLoop(c)
    \/ ForceCloseInLoop(c)
    \/ StartReadInLoop(c)
    \/ StopReadInLoop(c)
    \/ RemoveConnection(c)
    \/ HandleEventWithGuard(c)

\* Steps of the I/O thread and of destructors.
IoStep ==
    \/ \E c \in Conns : Destructor(c) \/ Body(c) \/ HandleEvent(c) \/ TimerExpires(c)
    \/ CallbackReturns
    \/ Poll
    \/ CheckQuit
    \/ UseAfterFree
    \/ SwapFunctors
    \/ RunFunctor
    \/ EndFunctors
    \/ LoopDestructor

UserStep(u) ==
    \/ \E op \in Operations, c \in Conns : UserCheck(u, op, c)
    \/ UserStore(u)
    \/ UserPush(u)

Next ==
    \/ IoStep
    \/ \E op \in Operations, c \in Conns : CallFromCallback(op, c)
    \/ \E u \in Users : UserStep(u)
    \/ \E k \in 1 .. calls : DataGoes(k)
    \/ \E c \in Conns : Drop(c) \/ NewConnectionAccepted(c) \/ Peer(c)
    \/ BaseStep
    \/ ServerDestructor
    \/ QuitIoLoop

Spec == Init /\ [][Next]_vars

\* Both loops' threads run, callbacks return, timers expire, a destructor of the
\* server that has begun ends, and users end their calls.
FairSpec ==
    /\ Spec
    /\ WF_vars(IoStep)
    /\ WF_vars(BaseStep)
    /\ WF_vars(QuitIoLoop)
    /\ \A c \in Conns : SF_vars(TimerExpires(c))
    /\ \A u \in Users : WF_vars(UserStore(u) \/ UserPush(u))
-----------------------------------------------------------------------------
(* Properties.                                                             *)

Functions == {"connectionEstablished", "connectionDestroy", "remove", "handleClose",
    "handleRead", "handleError", "handleWrite", "sendInLoop", "shutdownInLoop",
    "forceCloseInLoop", "startReadInLoop", "stopReadInLoop", "closeCallback", "event",
    "callback"}

FunctionType == [fun : Functions, c : Conns, n : 0 .. MaxSend, from : Nat, held : BOOLEAN]

\* Type invariant.
TypeOK ==
    /\ \A c \in Conns :
          /\ conn[c].life \in {"unborn", "alive", "freed"}
          /\ conn[c].state \in States
          /\ conn[c].reading \in BOOLEAN
          /\ conn[c].events \subseteq Interest /\ conn[c].interest \subseteq Interest
          /\ conn[c].index \in Indices
          /\ Len(conn[c].out) <= sock[c].accepted
          /\ active[c] \subseteq {"ERR", "IN", "OUT"}
          /\ sock[c].accepted \in Nat
    /\ inMap \cup timers \cup userRef \cup Contents(baseQueue) \subseteq Conns
    /\ server \in {"running", "stopping", "stopped"}
    /\ phase \in {"check", "poll", "events", "functors", "exited"}
    /\ Contents(stack) \cup Contents(running) \cup Contents(ioQueue) \subseteq FunctionType
    /\ next \in 1 .. Len(running) + 1
    /\ calls \in 0 .. setup.maxCalls /\ reused \subseteq 1 .. setup.maxCalls

\* The uses for which the library's own assertions hold: every connection is called
\* from its own callbacks only; its data is not sent with assertions on, it is not
\* closed by a timer and not read again after stopRead; and a server is destroyed
\* only with one loop, when no connection is shutting down.
Careful ==
    /\ setup.userOps = {}
    /\ ~setup.cross
    /\ setup.callbackOps \subseteq {"shutdown", "forceClose", "stopRead"}
    /\ setup.stops => setup.single /\ "shutdown" \notin setup.callbackOps

\* With careful users no assertion of the library fails, and no connection is used
\* after its destruction.
NoFault == TypeOK /\ (Careful => Sound)

\* channels_, index_ and the kernel's epoll set agree at every step; and with
\* assertions the poller never has the channel of a destroyed connection.
PollerConsistent ==
    \A c \in Conns :
        /\ conn[c].life # "freed" => Consistent(conn[c])
        /\ conn[c].mapped /\ setup.debug => Alive(c)

\* While the loop works through activeChannels_, which holds bare pointers, none of
\* the channels left in it is destroyed: this is why the destroy is queued.
ActiveAreAlive == \A c \in Conns : active[c] # {} => Alive(c)

\* The life of a connection, as far as its users can tell.
Stage(c) ==
    CASE conn[c].life = "unborn" -> "none"
      [] conn[c].life = "freed"  -> "gone"
      [] Alive(c) /\ log[c] = << >> -> "open"
      [] Alive(c) /\ log[c] # << >> -> IF log[c][Len(log[c])] = "down" THEN "down" ELSE "up"

Life == INSTANCE ConnectionLife WITH
            stage <- [c \in Conns |-> IF Careful THEN Stage(c) ELSE "none"],
            log   <- [c \in Conns |-> IF Careful THEN log[c] ELSE << >>]

\* With careful users connections live as ConnectionLife says: one "up", then
\* messages, then one "down", and only then is the object destroyed.
LivesAsPromised == Life!Spec

\* What has been written and what is buffered is, unit by unit, what sends have handed over: in
\* order, without gaps and nothing twice.  Other bytes can only stand in the place of data of
\* another thread's send that went before the I/O loop had taken it.
WireInOrder ==
    \A c \in Conns :
        LET all == sock[c].wire \o conn[c].out
        IN  /\ Len(all) = sock[c].accepted
            /\ \A i \in DOMAIN all : all[i] = i \/ (all[i] = 0 /\ reused # {})

\* A connection that is closed is taken out of the poller and destroyed, unless somebody
\* keeps it, whatever still holds it and in whichever loop; and one that is never told to
\* stop reading is closed once its peer has closed or reset it.
CloseCompletes ==
    \A c \in Conns :
        \/ Alive(c) /\ conn[c].state = "kDisconnected"
        \/ (sock[c].fin \/ sock[c].rst) /\ "stopRead" \notin setup.callbackOps \cup setup.userOps
        ~> conn[c].life = "freed" \/ c \in userRef \/ ~Sound

-----------------------------------------------------------------------------
(* What the code says of itself, and does not keep.                        *)

\* The comment in shutdownInLoop: the write side is closed only when the channel
\* does not ask for writable events.
ShutdownWhenNotWriting ==
    [][\A c \in Conns :
          ~sock[c].wrShut /\ sock'[c].wrShut => "OUT" \notin conn[c].events]_vars

\* Threads may use the loops safely: what another thread asks of a connection that it keeps runs
\* before the connection's end, does not undo its close, and writes what was sent.
ThreadsAreSafe ==
    /\ fault \notin {"use after free", "TcpConnectionff.cpp:58"}
    /\ \A c \in Conns : \A i \in DOMAIN sock[c].wire : sock[c].wire[i] = i

\* The assertion in sendInLoop: some of the data has been written.
SendWritesSome == fault # "TcpConnectionff.cpp:127"
=============================================================================
