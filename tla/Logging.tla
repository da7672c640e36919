------------------------------ MODULE Logging ------------------------------
(***************************************************************************)
(* Loggerff: the line that a statement such as LOG_WARN << a << b makes.   *)
(* Its time is formatted once a second in each thread, which keeps it.     *)
(***************************************************************************)
EXTENDS LogStream

CONSTANTS
    Hours,     \* hours in a day, 24; a second of the model is an hour
    Offset     \* the 8 hours that are added to show local time

\* The date is that of the time in UTC.
TimeText(second) == << <<"date", second \div Hours>>,
                       <<"time", ((second % Hours) + Offset) % Hours>> >>

\* t_lastSecond and t_time of a thread.
NoTime == [lastSecond |-> 0, time |-> << >>]

\* Faulty variant: the text is made once and for all.
FormatTimeOnce(cache, second) ==
    IF cache = NoTime THEN [lastSecond |-> second, time |-> TimeText(second)] ELSE cache

FormatTime(cache, second) ==
    IF second = cache.lastSecond THEN cache
    ELSE [lastSecond |-> second, time |-> TimeText(second)]

\* A statement: where it stands, its level, errno if it is a LOG_SYSERR or LOG_SYSFATAL,
\* the name of the function if it is LOG_TRACE or LOG_DEBUG, and what is put into it.
Header(cache, us, tid, m) ==
    <<Text(cache.time), Text(<< <<"us", us>> >>), Text(<< <<"tid", tid>> >>),
      Text(<< <<"level", m.level>> >>)>>
    \o (IF m.errno = 0 THEN << >>
        ELSE <<Text(Word("error", 1)), Text(Word("(errno=", 1)), Integer(m.errno),
               Text(Word(")", 1))>>)
    \o (IF m.func = << >> THEN << >> ELSE <<Text(m.func), Text(Word(" ", 1))>>)

\* finish()
Finish(m) == <<Text(Word(" - ", 1)), Text(Word("file", 1)), Text(Word(":", 1)),
               Integer(m.line), Text(Word("newline", 1))>>

Items(cache, us, tid, m) == Header(cache, us, tid, m) \o m.items \o Finish(m)

\* What ~Loggerff hands to g_output, the cache being that which formatTime leaves.
Line(cache, us, tid, m) == Stream(Items(cache, us, tid, m))
=============================================================================
