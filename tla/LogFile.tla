------------------------------ MODULE LogFile ------------------------------
(***************************************************************************)
(* LogFileff and the AppendFileff it writes to: when a file is flushed,    *)
(* and when it is closed and the next one opened.  A LogFileff is a record *)
(* and its functions map records to records; `now' is what ::time returns. *)
(* What fwrite has taken is lost in a crash until a flush or the close;    *)
(* the kernel may have some of it earlier, when the buffer of stdio fills. *)
(***************************************************************************)
EXTENDS Integers

CONSTANTS
    RollSize,      \* rollSize_
    FlushInterval, \* flushInterval_
    CheckEveryN,   \* checkEveryN_
    Day            \* kRollPerSecond_, in seconds

ASSUME LogFileAssumption ==
    {RollSize, FlushInterval} \subseteq Nat /\ {CheckEveryN, Day} \subseteq Nat \ {0}

\* unflushed: what fwrite has and the kernel may not have; strays: history, how many
\* appends were made in a row to the current file on a later day than its own.
NoFile ==
    [writtenBytes |-> 0, unflushed |-> 0, count |-> 0, startOfPeriod |-> 0,
     lastRoll |-> 0, lastFlush |-> 0, strays |-> 0]

Period(now) == (now \div Day) * Day

Flush(f) == [f EXCEPT !.unflushed = 0]

\* rollFile: not twice in a second, nor when the clock has been set back.
RollFile(f, now) ==
    IF now > f.lastRoll
    THEN [Flush(f) EXCEPT !.lastRoll = now, !.lastFlush = now, !.startOfPeriod = Period(now),
                          !.writtenBytes = 0, !.strays = 0]
    ELSE f

\* The constructor opens the first file.
Opened(now) == RollFile(NoFile, now)

Strays(f, now) == now > f.lastRoll /\ Period(now) # f.startOfPeriod

\* AppendFileff::append, and the history.
AppendFile(f, n, now) ==
    [f EXCEPT !.writtenBytes = @ + n, !.unflushed = @ + n,
              !.strays = IF Strays(f, now) THEN @ + 1 ELSE 0]

\* Faulty variant: the size is looked at before the append.
OversizeBefore(f, n) == f.writtenBytes - n > RollSize

Oversize(f, n) == f.writtenBytes > RollSize

\* Every CheckEveryN-th append looks at the day and at the last flush.
Checked(f, now) ==
    IF Period(now) # f.startOfPeriod THEN RollFile(f, now)
    ELSE IF now - f.lastFlush > FlushInterval THEN Flush([f EXCEPT !.lastFlush = now])
    ELSE f

AppendUnlocked(f, n, now) ==
    LET g == AppendFile(f, n, now)
    IN  IF Oversize(g, n) THEN RollFile(g, now)
        ELSE IF g.count + 1 < CheckEveryN THEN [g EXCEPT !.count = @ + 1]
        ELSE Checked([g EXCEPT !.count = 0], now)
=============================================================================
