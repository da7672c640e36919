# A verification project for firey

firey is a C++11 network library: one event loop per thread over epoll, TCP
connections with callbacks, timers, thread pools, an HTTP server and an
asynchronous logger. This directory holds TLA+ models of it, the TLC
configurations that check them, and proofs for TLAPS. Lines are cited as
`file:line` of `src/`.

## The system

| component | state | operations | talks to |
|---|---|---|---|
| EventLoop (`net/EventLoopff`) | `quit_`, `pendingFunctors_` under a mutex, `callingPendingFunctors_`, an eventfd | `loop`, `quit`, `runInLoop`, `queueInLoop`, timers | any thread calls it; it runs channels and functors |
| Poller, Channel | `channels_`, the epoll set, `eventsList_`; `events_`, `revents_`, `index_`, a weak tie to the owner | `poll`, `updateChannel`, `removeChannel`, `handleEvent` | the loop, the kernel |
| TcpConnection | `state_`, `reading_`, output and input buffers, its channel | `send`, `shutdown`, `forceClose(WithDelay)`, `startRead`, `stopRead`, handlers | its loop, the server, the user's callbacks |
| TcpServer, Acceptor | `connections_`, a pool of I/O loops; a listening channel and a spare descriptor | `start`, `newConnection`, `removeConnection`, destructor | base loop and I/O loops, by functors |
| TimerQueue | `timers_`, `activeTimers_`, `cancelingTimers_`, a timerfd | `addTimer`, `cancel`, the timerfd's handler | any thread, by functors |
| EventLoopThread(Pool) | `loop_` under a mutex, a thread | `startLoop`, `getNextLoop`, destructor | the server |
| ThreadPool, CountDownLatch, Condition | a bounded queue, `running_`; a count | `run`, `stop`; `wait`, `countDown` | users, the logger |
| AsyncLogging | two spare buffers, full buffers, `running_` | `append`, `start`, `stop`, the logging thread | every thread that logs; LogFile |
| LogFile, FileUtil, LogStream, Logging | a file, counts and days; a line's buffer | `append`, `rollFile`, formatting | the logger |
| Buffer | two indices into a vector | append, retrieve, prepend, `readFd` | connections, HTTP |
| HttpServer, HttpContext | the parse state and request of a connection | `parseRequest`, `onMessage` | connections |

What is hard in it: threads that call a loop that is about to sleep; handlers
that close connections while the loop holds bare pointers to their channels;
objects that must outlive the functors bound to them; a close that crosses two
loops; timers that are cancelled by the callbacks of their own batch, or whose
memory is used again; a logger whose buffers change hands under a mutex and
whose waits time out. `PROJECT.json` lists each hazard at its line.

What makes each part correct:

* a loop runs what it is given once, in order and promptly, and stops when told;
* poller, channel and kernel agree about every descriptor;
* a connection is up once, then down once, is destroyed after that and not
  before, and its data goes out in order;
* a timer fires unless it was cancelled; a cancelled one does not come back into the
  queue, and none is lost or leaked;
* what is logged is written, once and in order, or is counted as dropped; it gets
  to the disk, into a file of its day, and says what it was told to;
* threads are started before they are used and joined before what they use goes
  away, and nobody sleeps on something that is there;
* a buffer is a queue of bytes, a request in pieces is parsed as it is whole, and
  a client can tell where each answer ends.

## The modules

| module | models | checked by | proofs |
|---|---|---|---|
| `TaskQueue` | what a loop promises to those who hand it functors | as a property of EventLoop | `EventLoopProofs` |
| `EventLoop` | `EventLoopff`, with the growing list of `Pollerff::poll` | `MCEventLoop.cfg` | `EventLoopProofs` |
| `Channel` | `Channelff` and its place in `Pollerff`, as operators on a record | with TcpConnection | `TcpConnectionProofs` |
| `ConnectionLife` | what the library promises about a connection | as a property of TcpConnection | `TcpConnectionProofs` |
| `TcpConnection` | `TcpConnectionff`, and of `TcpServerff` all but its start | `MCConnections.cfg`; `MCShutdown.cfg`, `MCSend.cfg`, `MCThreads.cfg` | `TcpConnectionProofs` |
| `TimerQueue` | `TimerQueueff`, `Timerff`, `TimerIdff` | `MCTimerQueue.cfg`, `MCTimerIds.cfg` | `TimerQueueProofs` |
| `AsyncLogging` | `AsyncLoggingff` | with Logger | `AsyncLoggingProofs` |
| `LogFile` | `LogFileff` and `AppendFileff`, as operators on a record | with Logger | `AsyncLoggingProofs` |
| `LogStream` | `LogStreamff`: what `<<` puts into a line | with Logger | |
| `Logging` | `Loggerff`: the parts of a line and the cached time | with Logger | `AsyncLoggingProofs` (the cached time) |
| `Logger` | the four together with the clock, and `waitForSeconds` | `MCLogger.cfg` | `AsyncLoggingProofs` |
| `ByteQueue` | what a buffer promises | as action properties of Buffer | `BufferProofs` |
| `Buffer` | `Bufferff`, with the contents of the array | `MCBuffer.cfg` | `BufferProofs` |
| `Thread` | `Threadff` and its `CountDownLatchff`, as operators on a record | with ThreadPool and IoThreads | `ThreadPoolProofs`, `IoThreadsProofs` |
| `ThreadPool` | `ThreadPoolff` | `MCThreadPool.cfg` | `ThreadPoolProofs` |
| `Acceptor` | `Acceptorff`, as operators on a record | with IoThreads | `IoThreadsProofs` |
| `IoThreads` | `EventLoopThreadff`, its pool, and of `TcpServerff` its start and end | `MCIoThreads.cfg` | `IoThreadsProofs` |
| `HttpServer` | `HttpServerff`, `HttpContextff`, `HttpRequestff`, `HttpResponseff`, on a `ByteQueue` | `MCHttpServer.cfg` | `HttpServerProofs` |

`MC*.tla` give values to the constants. The definitions named "faulty variant"
are not used by any specification: each is one definition as a plausible bug
would have it, and shows which property notices. A module's type invariant is a
conjunct of one of the invariants of its run.

### EventLoop

`pc` is the owner's place in `loop()`. Each step at which another thread can
interleave is an action: the push under the mutex (`QueueInLoop`) and the write
to the eventfd (`Wakeup`) are two, and so are `quit_ = true` (`Quit`) and its
wakeup. While a callback runs, the owner itself may call `runInLoop`,
`queueInLoop` and `quit`. A channel is only ready or not.

`SleepsOnNothing`, that is `NoLostWakeup` and `NoLostQuit` with the type invariant, says
that whenever something waits the loop is awake or has a wakeup written or about to
be written. The exception is in the
code: a functor that the owner queues before `loop()` gets none, since
`queueInLoop` takes the owner for a thread that is awake; it waits for the poll
time-out (ten seconds). `early` holds those functors. `TaskQueueSafe` is the
refinement: the batch being run, followed by the functors pending, is the queue
of `TaskQueue`. `PromptRun` (functors run, and a loop told to quit leaves) and
`ReadyIsHandled` are its liveness.

Bounds: two other threads and two functors suffice for one thread to push while
another is between push and wakeup, and for a functor to be queued during a
batch; the eventfd's counter saturates at 2; the list of events starts with one
place and there are two channels and the eventfd. Fairness: the owner's thread
runs (`WF` on the loop's steps), and a thread that has begun a call ends it.
Nothing is assumed of the poll time-out.

### TcpConnection

The I/O thread is a call stack. A user callback is a frame during which the
user may call the connection, and the code below it goes on when it returns:
so `handleClose` is the part up to the connection callback, then the callback,
then `closeCallback_`. Another thread's call is up to three steps, as in the
code: it checks `state_`, stores `kDisconnecting`, and pushes the functor.
The functor of a `send` from another thread has a pointer to the data of its caller
(`net/TcpConnectionff.cpp:73` and `:87`). The model numbers such calls: `from` is the
number of the call, and 0 for a call on the loop's own thread, whose data is there.
As long as the functor waits, `DataGoes` may happen: the caller's string ends, or more is
put into its `Bufferff`, whose space `retrieveAll` has given back (`:90`). `reused` has the
calls whose data is gone, and what `sendInLoop` finds for them (`DataFound`) is other
bytes, written as 0.

Shared pointers are kept: `Held` says where one may be, an object without one is
destroyed before anything else happens, and a functor bound to a raw `this` does
not hold one. Of the loop only what EventLoop establishes is kept. `setup`
chooses, at the start, how the program is built (with assertions or not), with
one loop or two, and what the users call.

The library is correct only for some uses, and `Careful` names them: each
connection is called from its own callbacks; with assertions no data is sent;
connections are not closed by a timer, nor read again after `stopRead`; and a
server with connections is destroyed only if it has one loop and none of them is
shutting down. For these, `NoFault` (no assertion fails, no dead object is used)
and `LivesAsPromised` (the refinement of `ConnectionLife`) hold. The other
properties hold for all uses that the runs explore:

* `PollerConsistent`: `channels_`, `index_`, `events_` and the epoll set agree;
* `ActiveAreAlive`: no channel left in `activeChannels_` is destroyed; this is
  what `queueInLoop` in `removeConnectionInLoop` is for (`net/TcpServerff.cpp:101`);
* `CloseCompletes`: a connection that is closed, by its peer or by a call, is
  destroyed in the end, unless the users keep it;
* `WireInOrder`: bytes written and bytes buffered are together as many as were
  accepted, each at its place and once. As long as no thread has reused the memory of a
  send that it queued, they are what was sent; from then on some may be other bytes.

Outside of `Careful` the following happens in the code. `NoFault` shows it when the
conjunct of `Careful` about it is dropped:

* two threads: what is sent from another thread is not what is written; a functor bound
  to a raw `this` (`send`, `shutdown`, `startRead`, `stopRead`) runs after the object is
  gone; `shutdown` or `forceClose` stores `kDisconnecting` over the `kDisconnected` of a
  `handleClose` that came in between, and the destructor's assertion fails.
  `ThreadsAreSafe` denies all three, as the library's README does, and is violated
  (`thread_calls`, whose trace is the first of them);
* a connection is closed by the timer of `forceCloseWithDelay`, or by another
  connection's callback, in a round of the loop for which epoll has reported its
  events already: they are handled after the close, so that a message comes after
  the "down" callback, or the connection is closed twice and an assertion fails;
* a call of `startRead` after the close registers the channel again;
* a server with I/O threads that is destroyed queues `connectionDestroy` and then
  stops the loops, which may return without running it.

`isReading()` and `isWriting()` compare `events_` with one flag. A channel that
reads and writes is neither: `handleWrite` then does nothing, and output is
drained only if reading is stopped. `ShutdownWhenNotWriting` is the same
comparison at another place.

Bounds: two connections for what one close may do to another's events; one
connection, one other thread and three calls at most for everything else; up to
three units of data in sends of at most two, which allows a short write, a
buffered remainder and a second send. `CHECK_DEADLOCK FALSE`: the program
stops after a fault or when its loops have returned. Fairness (`CloseCompletes`):
both loops' threads run, a timer expires, a destructor and a call that have
begun end. `TimerExpires` has strong fairness, since it is enabled only between
two handlers; EventLoop and TimerQueue are why that is granted.

### TimerQueue

Timers are objects at addresses; a deleted one's address may be allocated
again, with the next sequence. Time is kept as the time left, so that the state
space is finite; one unit is the shortest delay `howMuchTimeFromNow` asks for
(`net/TimerQueueff.cpp:29`), and `Tick` lets it pass at any moment, also while
callbacks run (`late`). Both clocks advance together: the wall clock that
timers are compared with and the monotonic clock of the timerfd are not told
apart, so a wall clock that is set is not modelled.

`SetsAgree` is what lets `cancelInLoop` erase from both sets; `Accounted` that
every object is in exactly one place, so none is leaked or deleted twice;
`Armed` that the timerfd is set no later than the earliest timer, which gives
`EveryTimerExpires`; `CancelHolds` that a timer cancelled while the queue has
it, also from its own batch, never comes back into the queue. It does not say that the
timer is not run any more: one that a callback cancels when it stands later in the same
batch is still run once, as `handleTimerfdRead` runs the whole batch that it has taken
(`net/TimerQueueff.cpp:99`). A cancel that arrives before the
insertion of its timer is lost: the code says so of timers in neither set
(`net/TimerQueueff.cpp:208`), and `cancelled` counts only those it has.

Bounds: three timers at two addresses, so that an address is used again while
the other is live and a batch may have two timers; delays of two units and
intervals of none or one; one other thread and one queued task. Fairness: time
passes, callbacks return, and the loop polls and runs its functors (EventLoop).

### Logger: AsyncLogging, LogFile, LogStream and Logging

`AsyncLogging` is the hand-over of buffers. A buffer is the sequence of its lines,
numbered as they are appended; `file` is what has been appended to the log files,
with 0 for the notice of dropped buffers. The wait of the logging thread may end
at any moment. `Held` lists the places where a line may be: the file, the buffers the
thread still has to write, the full ones, the current one. `LinesInOrder` says that
through all of them the lines are in order and that each line that was not dropped is there; `NoAbort` covers the six assertions; `NoLostNotify` says that the thread
never waits on a full buffer it was not told of.

`LogFile` maps a record of `LogFileff` to the next: `append_unlocked` with its
three reasons to roll or flush, and `rollFile`, which does nothing twice in a
second or under a clock that was set back. `LogStream` and `Logging` are the line:
characters are pairs, so that digits can be told from text; the hour stands for
the second, and a day of the model has two. `Logger` composes them: each append
of the logging thread is an append to the `LogFileff`, each statement formats its
time by a thread's cache, and the clock (`Tick`) shows any second next.

* `RollsInTime`: no append leaves a file too large unless it was opened in this
  second or later; and fewer than `checkEveryN_` appends in a row go to a file of
  another day. `strays` counts them. This is how late a roll may be.
* `EveryLineOnDisk`: as long as the logger runs, each line is dropped or reaches the
  disk, that is, is flushed or closed: a crash then leaves it there.
* `LineIsTrue`: for each statement of `Messages`, at each second, the line is the
  text meant, numbers of either sign and the least of all included, if it fits; one
  that does not is cut off inside the buffer; and whatever second a thread has
  kept, the time it writes is that of the clock.
* `DeadlineHolds`: what `waitForSeconds` computes is a wait of as long and less than
  a second more, or it is refused, which happens only in the second half of a second.
  This is what the code does, not what its caller asks for: see the first point below.

The code does the following, and the properties are stated around it:

* `tv_nsec` is added twice (`base/thread/Conditionff.h:38`): in the second half of
  each second the time is not valid, and the logging thread does not wait at all but
  goes round and round until the second is over; in the first half it waits too long;
* `convert` writes no digit for 0 (`base/logger/LogStreamff.cpp:41`): `LineIsTrue` leaves it out;
* a line that is too long loses its end and its newline
  (`base/logger/LogStreamff.h:40`); a number without 32 bytes of room is left out;
* eight hours are added to the hour but not to the date
  (`base/logger/Loggingff.cpp:127`, `base/logger/LogFileff.cpp:140`): `TimeText` says so, and
  names of files do not sort by time;
* lines still buffered when `stop` is called are lost: the thread leaves its loop as
  soon as it sees `running_` false (`base/logger/AsyncLoggingff.cpp:70`); so is the line
  of a FATAL statement, which aborts the process right after its append
  (`base/logger/Loggingff.cpp:169`).

Bounds: buffers take two lines (of a size of three) and six lines are appended, so
three buffers can be full when the thread takes them, one more than are kept (25
in the code); files of two lines, checked at every second append; three seconds
and two days, with the clock going both ways. `::time` is taken once in an append
of the model; the code may see the next second at its second call. A line has at
most 32 characters and a number needs five of them, so that short and long lines
occur; the least integer is that of eight bits. Fairness: the logging thread runs,
its waits being bounded by `flushInterval_`, and a `start` or `stop` that has begun
goes on.

### Buffer

The array is a sequence of bytes with two indices, so `makeSpace`, `shrink` and
`swap` are what they do to memory: the bytes between the two indices are the
contents, the rest is whatever is left there. Integers are sequences of digits
in base `Base`, kept in memory lowest first and swapped to network order.
`readFd` reads into the array and, beyond it, into its array on the stack.
`NeverAborts` is about the assertions of `ensureWritableBytes` and
`makeSpace` for callers that keep to the preconditions of each call;
`HeaderRoomKept` says that only `prepend` uses up the room in front;
`CallsActOnQueue` is the refinement of `ByteQueue`, call by call.

Bounds: an array of at most six bytes with a header room of two, data of up to
three bytes of two values, integers of one and two digits. All exact fits, both
branches of `makeSpace` and the split of a read occur.

### ThreadPool

What happens under the mutex is one step; a wait is going to sleep and, later,
the check of its loop. Waits may end without a notify. `Start` follows the owner
through the creation of each thread and the latch that `Threadff::start` waits on
(`Thread`). `NoLostNotify` says that nobody sleeps on a task, on room, or
through a stop; `StartedAndStopped` that `start` leaves no thread without a tid,
and that `stop` leaves none running. `BoundedFifo` relates the queue to the tasks
put in and taken.

Bounds: two callers with two tasks each, none to two workers, queues without
limit and of one and two places: both may be waited on at once, by several.
Fairness: every thread runs; a call of `run` that is entitled to the mutex again
and again gets it at last (`SF` on the step that puts the task in: the mutex is
the only competition); tasks return. Nobody calls `run` while `start` is under
way, tasks do not call `run` themselves or throw, and `setMaxQueueSize` is not
called after `start`.

### IoThreads and Acceptor

An `EventLoopThreadff` is a thread, `loop_` and the loop on its stack. The owner
starts each thread, waits for `loop_`, hands out connections in turn, and quits
and joins the threads in the destructor, which may come at any moment after
start. `othersQuit` lets callbacks quit the loops of their own threads too. Then
`startLoop` may wait for ever (the loop has come and gone), and the destructor
may quit a loop, or its thread unlock a mutex, that is gone
(`net/EventLoopThreadff.cpp:22`): `NoFault` and `StartsAndStops` leave it out,
and `EvenSpread` and `WaitingAnswered` do not. A loop that is told to quit before
it enters `loop()` leaves at once, as `quit_` is not reset there.

`quit()` is two steps, as in EventLoop: `QuitLoop` stores `quit_`, and `Wakeup` reads
`threadId_` and writes to `wakeupFd_` (`net/EventLoopff.cpp:101` and `:102`). A thread
that is awake may leave `loop()` and destroy the loop on its stack between them, so that
`wakeup()` reads an object that is gone and writes to a descriptor that is closed, or by
then another's. This needs no careless use: any destructor may meet it. `faults` has
what was used after its end or asserted in vain, and `NoFault` says that, where only the
destructor quits loops, it has nothing but that late write; TLC finds the write when
this exception is taken out.

The acceptor keeps a descriptor in reserve for EMFILE; it opens `dev/null` in
place of `/dev/null` to take it back (`net/Acceptorff.cpp:59`), which fails unless
there is such a file, so the reserve works once. `WaitingAnswered` therefore
promises nothing when descriptors have run out and the reserve is gone: connections then
wait, and the loop is woken for them again and again.

Bounds: none to three threads, four connections, two descriptors. Three threads
show a start that is half done, a turn that wraps, and a join while others run.
Fairness: threads run, the loop that has been told to quit leaves `loop()`
(EventLoop's `PromptRun`), the base loop serves its acceptor. A loop that sleeps when
`quit_` is stored need not leave before `wakeup()` (`MayWait`).

### HttpServer

One connection. Text is a sequence of tokens: blanks, CR, LF, `:` and `?`, and
words between them. `ScriptsAssumption` says what a client may write (`Requests`): any
words for the method and the path, known to the code or not, any text for the
version, and any query and headers, as long as a byte that the parser looks for stands
only where it is meant to. `Http1` and `Http2` are the texts of eight bytes that begin with
`HTTP/1.` and `HTTP/2.`: that is all `processRequestLine` looks at, so that it takes every
1.x for 1.0 and every 2.x for 2.0, also if x is not a digit, and refuses the rest. The
client's requests are cut into pieces anywhere, and each
piece is a call of `onMessage`; some clients wait for an answer before they write
more. `ParsedAsWhole` compares what the handler is given with the requests as
written, of any 1.x or 2.x, in all but the minor version; `AnsweredAtOnce` says that
a complete request is not left in the buffer;
`AnswersInOrder` relates answers, requests and the close. A callback sets status,
headers and body of a response and may decide on the close either way; the answer
is the text that `appendToBuffer` makes of it. `AnswersRead` is a client that reads
this text, by `Content-Length` or up to the close, and must find each body whole,
also one that looks like an answer itself.

The code does the following, and the properties are stated around it:

* of several requests in one piece only the first is handled; the others wait
  for another message (`http/HttpServerff.cpp:61`);
* a version is told by two of its three characters (`http/HttpContextff.cpp:34`),
  so HTTP/1.1 is taken for HTTP/1.0 and is closed without `Keep-Alive`, and
  a handler cannot tell the two: `ParsedAsWhole` leaves the minor version out;
* a request line that is refused stays in the buffer with its method set. The
  next piece parses it again, and `setMethod` asserts that there is no method
  (`http/HttpRequestff.h:68`): `AnsweredAtOnce` says that this is the only way;
* a header line without `:` ends the headers;
* an answer to HEAD carries the body that the callback sets
  (`http/HttpResponseff.cpp:57`), which a client does not expect: `AnswersRead` promises
  nothing from there on.

Bounds: every two and every three of six requests, which between them have each kind
of method, query and `Connection` header and six versions (1.0, 1.1, 1.7, 2.4,
2 with a blank, 3.0), cut at every token; callbacks with
bodies of none to twelve tokens, so that lengths have two digits as well, one that keeps
the connection open and the default one, which closes it. `RepliesAssumption` says what
is asked of callbacks, as those of the demo do (`http/httpserver_test.cpp:30`): no CR and no
LF but in a body, and no `Content-Length`, which `appendToBuffer` would send along with its own.

## The runs

| run | expect | properties |
|---|---|---|
| `event_loop` | pass | `SleepsOnNothing TaskQueueSafe PromptRun ReadyIsHandled` |
| `connections` | pass | `NoFault ActiveAreAlive PollerConsistent WireInOrder LivesAsPromised CloseCompletes` |
| `timer_queue` | pass | `SetsAgree Accounted Armed CancelHolds EveryTimerExpires` |
| `logger` | pass | `NoAbort LinesInOrder NoLostNotify DeadlineHolds LineIsTrue RollsInTime EveryLineOnDisk StopCompletes` |
| `buffer` | pass | `NeverAborts HeaderRoomKept CallsActOnQueue` |
| `thread_pool` | pass | `BoundedFifo NoLostNotify StartedAndStopped TasksStart CallsReturn` |
| `http_server` | pass | `ParsedAsWhole AnsweredAtOnce AnswersInOrder AnswersRead` |
| `io_threads` | pass | `NoFault EvenSpread StartsAndStops WaitingAnswered` |
| `shutdown_while_writing` | violation | `ShutdownWhenNotWriting`: the write side is shut down while output waits |
| `send_writes_some` | violation | `SendWritesSome`: an assertion fails on EAGAIN or on a second send |
| `thread_calls` | violation | `ThreadsAreSafe`: data that another thread has sent is gone or overwritten when it is written |
| `timer_ids` | violation | `IdsAreTrue`: the TimerId of a timer that has been deleted already |

Run one with `tlc -config MCTimerQueue.cfg MCTimerQueue.tla`.

## The proofs

TLC checks small instances. The following hold for every value of the constants
that satisfies the modules' `ASSUME`s; `tlapm EventLoopProofs.tla` checks them.

* `EventLoopProofs`. `TypeCorrect` is inductive. `NoLostWakeup` and `NoLostQuit`
  are not: they forget that the owner calls into its loop only from a callback.
  `LoopInv` adds `CallbackPhase` (a callback runs only while events are handled or
  the batch is run, so the owner cannot queue a functor or quit just before it
  sleeps, when it would write no wakeup) and `BatchPhase` (a batch is left over
  only while it is run, so the swap loses nothing). The key lemma is that a wakeup
  that is coming goes away only when the eventfd is read, which happens while
  events are handled, before the swap. `NeverSleptOn` follows.
  `ImplementsTaskQueue` is step simulation: a push is `Post`, a functor that is run
  is `RunNext`, one that runs at once `RunNow`, the swap a stutter.
* `TcpConnectionProofs`. `PollerAlwaysConsistent`: the operators of `Channel`
  preserve `Consistent` (`UpdateIsConsistent`, `RemoveIsConsistent`), every
  action that touches a channel uses them, and an object is destroyed with
  assertions only when its channel is out of the poller. `ConnInv` is the types and,
  for each connection, that `wire \o out` counts up to what was accepted: a write moves
  the front of `out` to the end of the wire, a send adds what comes next to either,
  and the code sends directly only when nothing is buffered. A unit that comes from memory
  that was reused is a 0 in its place (`Units`), and only a queued send has such memory.
  `DataStaysInOrder` follows, for data of any length. `EventsInv`: channels are active only while the
  loop works through them, then the poller has each of them, and nothing on its
  stack removes a channel; `NoneOfTheActiveIsDestroyed` follows where assertions are
  compiled in, since the destructor's does not let a channel of the poller go.
  The second part is about careful uses. `LifeInv` is `Careful => CarefulInv`, since `setup` does not
  change. `CarefulInv` has four kinds of parts. `Quiet`: no other thread takes part.
  `StackShape` and `TopIsHeld`: what may stand on the I/O thread's stack below what,
  and that each function's connection is held by a reference on the stack or in the
  batch, so that the raw `this` is good. `QueuesOK` and `OncePending`: a connection
  waits to be established or destroyed at one place. `Begins`, `Lives`, `Dies`, `Once`
  and `Reads`: `state_`, the poller, the callbacks made and what is still to be called
  agree; in particular one in `kDisconnected` that is still in `connections_` has
  `closeCallback_` or `removeConnection` before it, and one that is not has
  `connectionDestroy`. `Phases` adds for one loop that it is closed by a handler and
  destroyed by a functor, which is why a destructor among the functors meets no
  close that is half done. `LifeStep` takes the actions one by one; several are
  impossible in careful uses, and the proof says which. `CarefulUseIsSafe` and
  `CarefulActiveAreAlive` follow, and `ConnectionsLiveAsPromised` is the simulation of
  `ConnectionLife`: the birth, the two callbacks and the destruction are its steps,
  everything else is a stutter.
* `TimerQueueProofs`. `TimerInv` adds to `Accounted`, `SetsAgree` and `Armed` that the
  tasks queued are of different objects with the sequences those have (`QueueInv`),
  that sequences are not used twice (`SequenceInv`), that a batch is there only while
  the handler runs (`BatchInv`), and that a cancelled timer that is still alive is in
  the batch and marked (`CancelInv`): only `reset` could insert it again, and `reset`
  looks at the marks. That the timerfd is set in time for the earliest timer is the
  same as that it is for each (`SetForEach`), which the steps preserve one by one.
* `ThreadPoolProofs`. `PoolInv` adds to `BoundedFifo` and `NoLostNotify` how far each
  thread has got (`ThreadInv`) and what the owner's place says of them (`OwnerInv`),
  that a call under way found threads in the pool (`CallerInv`), and that the number of
  a call under way is on no task yet (`PutInv`), which makes tasks unique.
  `PoolIsBoundedFifo`, `PoolLosesNoNotify` and `PoolStartsAndStops` follow for any
  number of callers, workers and tasks, and any size of the queue.
* `IoThreadsProofs`. `IoInv`: latch, `loop_` and `quit_` of a thread go together
  (`ThreadInv`); the destructor has quit the loops it has come to and no other
  (`OwnerInv`); the pool has the loops of the threads started so far, each published
  (`LoopsInv`); what is destroyed has been joined (`FaultInv`); and the loops before
  `next_` have had one connection more than the others (`SpreadInv`). `FaultInv` also
  says that without `othersQuit` the only fault is the late write of `wakeup()`: when
  `quit_` is stored the thread is alive, since nobody else has told it to leave.
  `OnlyTheWakeupIsLate` and `ConnectionsSpread` follow.
* `AsyncLoggingProofs`. `LoggerInv`: whenever `nextBuffer_` is gone there is a
  full buffer, so the thread takes at least two when it gives two away; this is
  what the two assertions of the refill need. `AssertionsHold` and
  `NotifyNotLost` follow. `LineInv` adds that the current buffer has room for a line
  and that the lines are in order from place to place of `Held`: an append adds a
  line to the last place, the swap adds an empty place, a write joins the first two,
  and a discard leaves places out, whose lines are in no other place since they grow
  from place to place; `LinesStayInOrder` follows. `LoggerRefines`: with file, clock
  and lines each step is a step of `AsyncLogging` or changes nothing of it, so the
  same holds of `Logger`.
  `FileInv` is inductive for the file: appends that should have gone to the next
  day's file are at most `count_`, which is below `checkEveryN_`; an append that finds
  the file rolled, or not to be rolled yet, makes them none or adds one.
  `FileRollsInTime` follows, for files, days and lines of any length.
  `LinesTellTheTime` is the part of `LineIsTrue` about the cached time, and
  `WaitsLastAsAsked` is `DeadlineHolds` for any time, wait and length of the second.
* `BufferProofs`. `TypeOK /\ NeverAborts` is inductive; what each call needs is a
  lemma about its operator (`MakeSpace` keeps the readable bytes, a write after it
  fits, and so on). `CallsAreQueueSteps` and `ImplementsByteQueue` follow: every
  call is the step of `ByteQueue` that its name says, for arrays of any size and
  integers of any width. `HeaderRoomIsKept` is an action property from the same
  invariant.
* `HttpServerProofs`, for any tokens, any scripts of requests of any length, any cut of
  the stream and any replies of the callback. The texts are built by folds, and what
  these give is shown for every length by the least length at which it could fail. The
  lemmas lead from what the parser finds in a text (`SplitAt`) over the lines of a request
  (`RequestLineIs`, `HeaderLineIs`) to the place of each line in the stream (`LineStands`)
  and to the line found in a buffer that holds a piece of it (`LineFound`). `IInv`: what
  has been taken from the buffer ends with a line, of the request that is due, and the
  context holds what the lines up to there say (`Parsing`: `AtRequestLine`, `AtHeaders`,
  `AtEnd`); the buffer is what has been delivered beyond (`Buffers`); a client that waits
  has written one request more than were answered (`Waits`), so nothing complete stays
  behind (`NothingLeft`); and a connection that is up has an answer for each request
  served (`AnswersKept`). None of the properties is inductive: that a line is taken whole
  says nothing of the request it comes from, unless the place in the stream is known. What
  the parser makes of a request is `Expected`, with the version as the code has it, and
  `ExpectedShows` says what of the request that shows: all but the minor version.
  `RequestsParsedAsWhole`, `RequestsAnsweredAtOnce` and `AnswersStayInOrder` follow.
  For `AnswersAreRead` the invariant is `AnswersWritten`: what is written is the texts of
  the answers in a row, and each is `Readable`, that is, lines of which none is empty
  (`WholeLines`), an empty line and the body. So the client's first empty line is the right
  one (`HeadEndIs`). An answer that keeps the connection has a line with the length of its
  body in digits, which the client finds (`LengthFound`) and takes for no other number:
  `Decimal` writes different numbers differently (`DecimalTells`). One that closes has no
  such line in whatever order the headers come (`QuietSet`), and is the last (`IInv`). The
  only assumption on callbacks is `RepliesAssumption`: no CR or LF outside a body, and the
  `Content-Length` is left to the server. Bodies may hold anything.

Only model-checked:

* liveness under fairness, which the prover does not do;
* `ActiveAreAlive` for the other uses that the runs explore, without assertions. It
  does not hold for all: another thread that keeps a connection, calls `startRead` after
  its close and drops it leaves the channel of a destroyed object in the poller, as TLC
  shows for that setup. With assertions the destructor stops there;
* the part of `LineIsTrue` about digits.

## Not modelled

Sockets, addresses and timestamps: wrappers and conversions without state that is
shared, whose outcomes the modules enumerate. Of the logger: names of files, errors
of `fwrite` (`AppendFileff::append` gives up and counts the bytes as written),
`ReadSmallFileff`, which nothing in the logger uses, the levels below which
nothing is logged, and the end of the process at a FATAL statement. The owner
that `Mutexff` keeps for its assertions. The demos.

## Plan

1. Done: EventLoop, TcpConnection, TimerQueue, Logger (AsyncLogging, LogFile, LogStream,
   Logging), Buffer, ThreadPool, IoThreads with Acceptor, and HttpServer, each with
   proofs, and `ConnectionLife` proved to be implemented for careful uses.
2. `ActiveAreAlive` without assertions, where no other thread has a connection.
