---------------------------- MODULE AsyncLogging ----------------------------
(***************************************************************************)
(* AsyncLoggingff: any thread appends lines to the current buffer, under a *)
(* mutex; the logging thread takes the buffers that are full, or after a   *)
(* time the current one, writes them to the file and hands back empty      *)
(* ones.  The thread that owns the logger starts and stops it.             *)
(*                                                                         *)
(* Lines are numbered in the order in which they are appended and have all *)
(* the same length, 1; a buffer is the sequence of its lines.  A pointer   *)
(* to a buffer is a sequence with that buffer, or << >> when it is null.   *)
(***************************************************************************)
EXTENDS Integers, Sequences, SequencesExt

CONSTANTS
    BufferSize,   \* kLargeBuffer, in lines
    MaxBuffers,   \* the number of buffers from which on some are dropped, 25
    MaxLines      \* bound: lines appended

ASSUME SizesAssumption == {BufferSize, MaxBuffers} \subseteq Nat \ {0, 1} /\ MaxLines \in Nat

VARIABLES
    currentBuffer,  \* currentBuffer_
    nextBuffer,     \* nextBuffer_, a pointer
    buffers,        \* buffers_
    newBuffer1,     \* locals of threadFunc: two pointers ...
    newBuffer2,
    bufferToWrite,  \* ... and the buffers that were swapped out
    written,        \* how many of these have been appended to the file
    running,        \* running_
    pc,             \* where the logging thread is
    signalled,      \* it has been notified while it waits
    owner,          \* where the owner is: "new", "starting", "running", "stopping",
                    \* "joining", "stopped"
    lines,          \* the number of lines appended
    file,           \* what the log file contains; 0 is a notice of dropped buffers
    dropped         \* history: the lines in buffers that were dropped

front == <<currentBuffer, nextBuffer, buffers, lines>>
back  == <<newBuffer1, newBuffer2, bufferToWrite, written, file, dropped>>
vars  == <<front, back, running, pc, signalled, owner>>

Null == << >>
Empty == << >>

Init ==
    /\ currentBuffer = Empty
    /\ nextBuffer = <<Empty>>
    /\ buffers = << >>
    /\ newBuffer1 = <<Empty>>
    /\ newBuffer2 = <<Empty>>
    /\ bufferToWrite = << >>
    /\ written = 0
    /\ running = FALSE
    /\ pc = "none"
    /\ signalled = FALSE
    /\ owner = "new"
    /\ lines = 0
    /\ file = << >>
    /\ dropped = {}

Contents(s) == {s[i] : i \in DOMAIN s}

\* The lines in some buffers.
LinesIn(taken) == UNION {Contents(taken[i]) : i \in DOMAIN taken}

Avail(buffer) == BufferSize - Len(buffer)

\* append puts a line into a buffer only if that leaves some room.
Fits(buffer) == Avail(buffer) > 1

-----------------------------------------------------------------------------
(* The threads that log.                                                   *)

\* Faulty variant: a full buffer wakes nobody up.
NotifySilently == UNCHANGED signalled

\* cond_.notify() reaches the logging thread if it waits.
Notify == signalled' = (signalled \/ pc = "waiting")

\* A full buffer is put by and the next one, or a new one, taken.
AppendLine ==
    LET fresh == IF nextBuffer = Null THEN Empty ELSE nextBuffer[1]
    IN  /\ lines < MaxLines
        /\ pc # "aborted"
        /\ lines' = lines + 1
        /\ IF Fits(currentBuffer)
           THEN /\ currentBuffer' = Append(currentBuffer, lines + 1)
                /\ UNCHANGED <<nextBuffer, buffers, signalled, pc>>
           ELSE /\ buffers' = Append(buffers, currentBuffer)
                /\ currentBuffer' = Append(fresh, lines + 1)
                /\ nextBuffer' = Null
                /\ pc' = IF Avail(fresh) >= 1 THEN pc ELSE "aborted"
                /\ Notify
        /\ UNCHANGED <<back, running, owner>>

-----------------------------------------------------------------------------
(* The owner: start, which returns when the thread has opened the latch,   *)
(* and stop.                                                               *)

Start ==
    /\ owner = "new"
    /\ owner' = "starting"
    /\ running' = TRUE
    /\ pc' = "started"
    /\ UNCHANGED <<front, back, signalled>>

StartReturns ==
    /\ owner = "starting"
    /\ pc # "started"
    /\ owner' = "running"
    /\ UNCHANGED <<front, back, running, pc, signalled>>

Stop ==
    /\ owner = "running"
    /\ owner' = "stopping"
    /\ running' = FALSE
    /\ UNCHANGED <<front, back, pc, signalled>>

\* The notify of stop, without the mutex.
StopNotifies ==
    /\ owner = "stopping"
    /\ owner' = "joining"
    /\ Notify
    /\ UNCHANGED <<front, back, running, pc>>

StopReturns ==
    /\ owner = "joining"
    /\ pc = "done"
    /\ owner' = "stopped"
    /\ UNCHANGED <<front, back, running, pc, signalled>>

-----------------------------------------------------------------------------
(* The logging thread.                                                     *)

Begin ==
    /\ pc = "started"
    /\ pc' = IF running THEN "check" ELSE "aborted"
    /\ UNCHANGED <<front, back, running, signalled, owner>>

\* Faulty variant: the condition of the loop is not looked at again.
CheckRunningNot ==
    /\ pc = "check"
    /\ pc' = "lock"
    /\ UNCHANGED <<front, back, running, signalled, owner>>

\* The condition of the loop, and the assertions with which its body begins.
CheckRunning ==
    /\ pc = "check"
    /\ pc' = IF ~running THEN "done"
             ELSE IF newBuffer1 = <<Empty>> /\ newBuffer2 = <<Empty>> /\ bufferToWrite = << >>
             THEN "lock" ELSE "aborted"
    /\ UNCHANGED <<front, back, running, signalled, owner>>

\* Faulty variant: the full buffers are written after the current one.
TakeBuffersNewestFirst ==
    /\ bufferToWrite' = <<currentBuffer>> \o buffers
    /\ buffers' = << >>
    /\ currentBuffer' = newBuffer1[1]
    /\ newBuffer1' = Null
    /\ nextBuffer' = IF nextBuffer = Null THEN newBuffer2 ELSE nextBuffer
    /\ newBuffer2' = IF nextBuffer = Null THEN Null ELSE newBuffer2

\* The end of the critical section.
TakeBuffers ==
    /\ bufferToWrite' = Append(buffers, currentBuffer)
    /\ buffers' = << >>
    /\ currentBuffer' = newBuffer1[1]
    /\ newBuffer1' = Null
    /\ nextBuffer' = IF nextBuffer = Null THEN newBuffer2 ELSE nextBuffer
    /\ newBuffer2' = IF nextBuffer = Null THEN Null ELSE newBuffer2

TakeFull ==
    /\ pc = "lock"
    /\ buffers # << >>
    /\ TakeBuffers
    /\ pc' = "write"
    /\ UNCHANGED <<lines, written, file, dropped, running, signalled, owner>>

Wait ==
    /\ pc = "lock"
    /\ buffers = << >>
    /\ pc' = "waiting"
    /\ signalled' = FALSE
    /\ UNCHANGED <<front, back, running, owner>>

\* The wait ends with a notify or after flushInterval_, and the mutex is taken again.
WakeUp ==
    /\ pc = "waiting"
    /\ TakeBuffers
    /\ pc' = "write"
    /\ signalled' = FALSE
    /\ UNCHANGED <<lines, written, file, dropped, running, owner>>

\* Faulty variant: a buffer is handed back with its lines.
ResetNothing(buffer) == buffer

Reset(buffer) == Empty

\* Too many buffers: all but the first two are dropped, and a notice is written.
TooMany(taken) == Len(taken) > MaxBuffers
Kept(taken) == IF TooMany(taken) THEN SubSeq(taken, 1, 2) ELSE taken

Discard ==
    /\ pc = "write"
    /\ bufferToWrite' = Kept(bufferToWrite)
    /\ file' = IF TooMany(bufferToWrite) THEN Append(file, 0) ELSE file
    /\ dropped' = dropped \cup (LinesIn(bufferToWrite) \ LinesIn(Kept(bufferToWrite)))
    /\ pc' = "append"
    /\ UNCHANGED <<front, newBuffer1, newBuffer2, written, running, signalled, owner>>

AppendBuffer ==
    /\ pc = "append"
    /\ written < Len(bufferToWrite)
    /\ written' = written + 1
    /\ file' = file \o bufferToWrite[written + 1]
    /\ UNCHANGED <<front, newBuffer1, newBuffer2, bufferToWrite, dropped, running, pc,
                   signalled, owner>>

\* Of the first two buffers as many as are needed are handed back, last first, for the
\* spare ones that were taken, and the others freed; the file is flushed.
Refill ==
    LET first2 == IF Len(bufferToWrite) > 2 THEN SubSeq(bufferToWrite, 1, 2) ELSE bufferToWrite
        left   == IF newBuffer1 = Null THEN Front(first2) ELSE first2
    IN  /\ pc = "append"
        /\ written = Len(bufferToWrite)
        /\ bufferToWrite' = << >>
        /\ written' = 0
        /\ IF newBuffer2 = Null /\ left = << >>
           THEN pc' = "aborted" /\ UNCHANGED <<newBuffer1, newBuffer2>>
           ELSE /\ pc' = "check"
                /\ newBuffer1' = IF newBuffer1 = Null THEN <<Reset(Last(first2))>> ELSE newBuffer1
                /\ newBuffer2' = IF newBuffer2 = Null THEN <<Reset(Last(left))>> ELSE newBuffer2
        /\ UNCHANGED <<front, file, dropped, running, signalled, owner>>

-----------------------------------------------------------------------------

\* The logger has been stopped, or an assertion has failed: nothing more happens.
Stopped ==
    /\ owner = "stopped" \/ pc = "aborted"
    /\ UNCHANGED vars

OwnerStep == Start \/ StartReturns \/ Stop \/ StopNotifies \/ StopReturns

ThreadStep ==
    \/ Begin
    \/ CheckRunning
    \/ TakeFull
    \/ Wait
    \/ WakeUp
    \/ Discard
    \/ AppendBuffer
    \/ Refill

Next == AppendLine \/ OwnerStep \/ ThreadStep \/ Stopped

Spec == Init /\ [][Next]_vars

-----------------------------------------------------------------------------
(* Properties.                                                             *)

Lines == 1 .. MaxLines

\* Type invariant.
TypeOK ==
    /\ currentBuffer \in Seq(Lines)
    /\ \A p \in {nextBuffer, newBuffer1, newBuffer2} :
          p = Null \/ (Len(p) = 1 /\ p[1] \in Seq(Lines))
    /\ buffers \in Seq(Seq(Lines)) /\ bufferToWrite \in Seq(Seq(Lines))
    /\ running \in BOOLEAN
    /\ pc \in {"none", "started", "check", "lock", "waiting", "write", "append", "done", "aborted"}
    /\ signalled \in BOOLEAN
    /\ owner \in {"new", "starting", "running", "stopping", "joining", "stopped"}
    /\ lines \in 0 .. MaxLines
    /\ written \in 0 .. Len(bufferToWrite)
    /\ file \in Seq(0 .. MaxLines)
    /\ dropped \subseteq Lines
    /\ \A b \in Contents(buffers) \cup Contents(bufferToWrite) : Len(b) < BufferSize

\* No assertion of append or threadFunc fails: there is always an empty buffer where
\* one is needed, in whatever way appends and waits interleave.
NoAbort == pc # "aborted"

\* Where the lines are: in the file, in buffers still to be written, in full ones, in the
\* current one.
Held ==
    <<file>> \o SubSeq(bufferToWrite, written + 1, Len(bufferToWrite)) \o buffers
             \o <<currentBuffer>>

\* Lines get larger from each place to the next; notices do not count.
Ordered(held) ==
    \A i, k \in DOMAIN held : \A j \in DOMAIN held[i], l \in DOMAIN held[k] :
        (i < k \/ (i = k /\ j < l)) /\ held[i][j] # 0 /\ held[k][l] # 0 =>
            held[i][j] < held[k][l]

\* What is in the file, being written and still in buffers is, in order and with
\* nothing missing or twice, what was appended, but for the buffers that were dropped.
LinesInOrder ==
    /\ TypeOK
    /\ Ordered(Held)
    /\ LinesIn(Held) \ {0} = 1 .. lines \ dropped

\* The logging thread does not sleep through its interval on a full buffer.
NoLostNotify == pc = "waiting" /\ ~signalled => buffers = << >>

\* A stop that has begun returns.
StopCompletes == owner = "stopping" ~> owner = "stopped"
=============================================================================
