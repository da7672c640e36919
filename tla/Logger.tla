------------------------------- MODULE Logger -------------------------------
(***************************************************************************)
(* Logging as a program sets it up: its threads make lines (Logging) that  *)
(* g_output appends to an AsyncLoggingff, whose thread writes them to a    *)
(* LogFileff, all by a clock that runs on but may also be set back.        *)
(***************************************************************************)
EXTENDS AsyncLogging, LogFile

CONSTANTS
    kSmallBuffer, kMaxNumericSize, Hours, Offset, \* of Logging
    Messages,   \* statements that log
    WaitSeconds, \* flushInterval_ of AsyncLoggingff
    Nano,       \* kNanoSecondsPerSecond
    MaxTime     \* bound: the last second of the clock

ASSUME WaitAssumption == WaitSeconds \in Nat /\ Nano \in Nat \ {0}

L == INSTANCE Logging

VARIABLES
    now,        \* the second that the clock shows
    cache,      \* t_lastSecond and t_time of a thread that logs
    outputFile  \* the LogFileff of threadFunc

loggerVars == <<vars, now, cache, outputFile>>

LoggerInit ==
    /\ Init
    /\ now \in 1 .. MaxTime
    /\ cache = L!NoTime
    /\ outputFile = NoFile

-----------------------------------------------------------------------------
(* Conditionff::waitForSeconds.                                            *)

\* Faulty variant: nothing is carried over.
DeadlineNoCarry(t, s) == [sec |-> t.sec, nsec |-> t.nsec + s * Nano]

\* The time at which a wait of s seconds, called at t, is to end.
Deadline(t, s) ==
    [sec  |-> t.sec + ((t.nsec + s * Nano) \div Nano),
     nsec |-> t.nsec + ((t.nsec + s * Nano) % Nano)]

\* pthread_cond_timedwait refuses others with EINVAL, and the wait is over at once.
Valid(t) == t.nsec < Nano

-----------------------------------------------------------------------------

\* The clock goes on or is set.
Tick ==
    /\ now' \in 1 .. MaxTime \ {now}
    /\ UNCHANGED <<vars, cache, outputFile>>

\* A statement logs: Loggerff makes the line and ~Loggerff appends it.
Log ==
    /\ AppendLine
    /\ cache' = L!FormatTime(cache, now)
    /\ UNCHANGED <<now, outputFile>>

\* The thread creates its LogFileff.
OpenFile == Begin /\ outputFile' = Opened(now)

\* The notice of dropped buffers is an append of its own.
DiscardBuffers ==
    /\ Discard
    /\ outputFile' = IF TooMany(bufferToWrite) THEN AppendUnlocked(outputFile, 1, now)
                     ELSE outputFile

WriteBuffer ==
    /\ AppendBuffer
    /\ outputFile' = AppendUnlocked(outputFile, Len(bufferToWrite[written + 1]), now)

\* Faulty variant: the file is flushed only when the thread ends.
FlushFileAtEnd ==
    \/ Refill /\ UNCHANGED outputFile
    \/ CheckRunning /\ outputFile' = IF running THEN outputFile ELSE Flush(outputFile)

\* It is flushed after each round, and once more when the thread ends and closes it.
FlushFile ==
    \/ Refill /\ outputFile' = Flush(outputFile)
    \/ CheckRunning /\ outputFile' = IF running THEN outputFile ELSE Flush(outputFile)

LoggingThread ==
    /\ \/ OpenFile
       \/ DiscardBuffers
       \/ WriteBuffer
       \/ FlushFile
       \/ (TakeFull \/ Wait \/ WakeUp) /\ UNCHANGED outputFile
    /\ UNCHANGED <<now, cache>>

Owner == OwnerStep /\ UNCHANGED <<now, cache, outputFile>>

LoggerNext ==
    \/ Tick
    \/ Log
    \/ LoggingThread
    \/ Owner
    \/ Stopped /\ UNCHANGED <<now, cache, outputFile>>

LoggerSpec == LoggerInit /\ [][LoggerNext]_loggerVars

\* The logging thread runs, its waits being bounded by flushInterval_, and a start or a
\* stop that has begun goes on.
FairSpec ==
    /\ LoggerSpec
    /\ WF_loggerVars(LoggingThread)
    /\ WF_loggerVars(Owner /\ owner \notin {"new", "running"})

-----------------------------------------------------------------------------
(* Properties.                                                             *)

\* What a crash of the process leaves of what was appended to the file.
OnDisk == SubSeq(file, 1, Len(file) - outputFile.unflushed)

\* While the logger runs every line is dropped or gets to the disk, where it survives a
\* crash, whatever the clock does.
EveryLineOnDisk ==
    \A i \in Lines :
        i <= lines /\ owner = "running" ~> i \in Contents(OnDisk) \cup dropped \/ ~running

\* The file is rolled in time: an append leaves it too large only in the second in which it
\* was opened, or if the clock has been set back since; and it takes fewer than CheckEveryN
\* appends in a row on a later day than its own.
RollsInTime ==
    [][/\ outputFile'.writtenBytes > outputFile.writtenBytes /\ outputFile'.writtenBytes > RollSize =>
             now <= outputFile'.lastRoll
       /\ outputFile'.strays < CheckEveryN]_outputFile

\* The text a statement stands for, with numbers in decimal or hexadecimal.
Numeral(v, base) ==
    LET length == CHOOSE n \in 1 .. v + 1 : v < base^n /\ (n = 1 \/ v >= base^(n - 1))
    IN  [i \in 1 .. length |-> L!Digit((v \div base^(length - i)) % base)]
TextOf(item) ==
    CASE item.kind = "integer" -> (IF item.value < 0 THEN <<L!Minus>> ELSE << >>)
                                    \o Numeral(IF item.value < 0 THEN -item.value ELSE item.value, 10)
      [] item.kind = "pointer" -> L!Word("0x", 2) \o Numeral(item.value, 16)
      [] OTHER -> item.value
Meant(cached, us, m) ==
    LET items == L!Items(cached, us, 1, m)
    IN  FlattenSeq([i \in DOMAIN items |-> TextOf(items[i])])
Has0(m) == \E i \in DOMAIN m.items : m.items[i].kind \in {"integer", "pointer"} /\ m.items[i].value = 0

\* The line that m makes at any second is what is meant, if it is not too long; one that is
\* is cut off.
LineTrue(m) ==
    \A second \in 1 .. MaxTime :
        LET cached == L!FormatTime(L!NoTime, second)
            line   == L!Line(cached, 0, 1, m)
            meant  == Meant([lastSecond |-> second, time |-> L!TimeText(second)], 0, m)
        IN  /\ Len(line) <= kSmallBuffer
            /\ Len(meant) + kMaxNumericSize <= kSmallBuffer => line = meant

\* Lines tell the numbers they are given, in either sign and down to the least integer, but
\* for 0; and whatever second a thread has kept the text of, they tell the time.
LineIsTrue ==
    /\ \A m \in Messages : ~Has0(m) => LineTrue(m)
    /\ [](L!FormatTime(cache, now).time = L!TimeText(now))

\* A wait for WaitSeconds that is not notified lasts as long, and less than a
\* second more, or, in the second half of each second, it does not wait at all.
DeadlineHolds ==
    \A nsec \in 0 .. Nano - 1 :
        LET t == Deadline([sec |-> now, nsec |-> nsec], WaitSeconds)
        IN  IF Valid(t)
            THEN (t.sec - now - WaitSeconds) * Nano + t.nsec - nsec \in 0 .. Nano - 1
            ELSE 2 * nsec >= Nano
=============================================================================
