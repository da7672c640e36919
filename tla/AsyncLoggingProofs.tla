------------------------- MODULE AsyncLoggingProofs -------------------------
(***************************************************************************)
(* For buffers of any size and any number of lines, no assertion of the    *)
(* logger fails, the logging thread never sleeps on a full buffer, and the *)
(* lines stay in order; files are rolled in time, waits last as asked, and *)
(* a line tells the time it was logged at.  The heart of it: when the      *)
(* spare buffer is gone some full buffer is there, so the thread gets two  *)
(* buffers or more whenever it gives two away.                             *)
(***************************************************************************)
EXTENDS Logger, TLAPS

Buffers == Seq(Nat)

\* The values the pointers have.
Spare == {Null, <<Empty>>}

TypeInv ==
    /\ currentBuffer \in Buffers
    /\ buffers \in Seq(Buffers)
    /\ bufferToWrite \in Seq(Buffers)
    /\ nextBuffer \in Spare /\ newBuffer1 \in Spare /\ newBuffer2 \in Spare
    /\ lines \in Nat /\ written \in Nat
    /\ running \in BOOLEAN /\ signalled \in BOOLEAN

\* The logging thread has the buffers it needs.
SpareInv ==
    /\ pc \in {"none", "started", "check", "lock", "waiting", "write", "append", "done"}
    /\ pc \notin {"write", "append"} =>
          newBuffer1 = <<Empty>> /\ newBuffer2 = <<Empty>> /\ bufferToWrite = << >>
    /\ pc \in {"write", "append"} =>
          /\ newBuffer1 = Null
          /\ bufferToWrite # << >>
          /\ newBuffer2 = Null => Len(bufferToWrite) >= 2
    /\ nextBuffer = Null => buffers # << >>

\* It does not begin before it is started, nor after a stop.
OwnerInv ==
    /\ owner = "new" => pc = "none"
    /\ pc = "started" => owner = "starting"
    /\ owner = "starting" => running

\* The inductive invariant.
LoggerInv == TypeInv /\ SpareInv /\ OwnerInv /\ NoLostNotify

LEMMA InvInit == Init => LoggerInv
<1> SUFFICES ASSUME Init PROVE LoggerInv
  OBVIOUS
<1>1. TypeInv
  <2>1. << >> \in Buffers /\ << >> \in Seq(Buffers)
    BY DEF Buffers
  <2> QED BY <2>1 DEF Init, TypeInv, Spare, Null, Empty
<1>2. SpareInv
  BY DEF Init, SpareInv, Null, Empty
<1>3. OwnerInv /\ NoLostNotify
  BY DEF Init, OwnerInv, NoLostNotify
<1> QED BY <1>1, <1>2, <1>3 DEF LoggerInv

-----------------------------------------------------------------------------

\* append: the buffer it takes is empty and has room for the line.
LEMMA AppendStep ==
    ASSUME LoggerInv, AppendLine
    PROVE  LoggerInv'
<1> USE DEF LoggerInv
<1>1. CASE Fits(currentBuffer)
  <2>1. /\ currentBuffer' = Append(currentBuffer, lines + 1) /\ lines' = lines + 1
        /\ UNCHANGED <<nextBuffer, buffers, signalled, pc, back, running, owner>>
    BY <1>1 DEF AppendLine
  <2> QED BY <2>1 DEF TypeInv, SpareInv, OwnerInv, NoLostNotify, Buffers, Spare, back
<1>2. CASE ~Fits(currentBuffer)
  <2> DEFINE fresh == IF nextBuffer = Null THEN Empty ELSE nextBuffer[1]
  <2>1. fresh = << >>
    BY DEF TypeInv, Spare, Null, Empty
  <2>2. Avail(fresh) >= 1
    BY <2>1, SizesAssumption DEF Avail
  <2>3. /\ buffers' = Append(buffers, currentBuffer)
        /\ currentBuffer' = Append(fresh, lines + 1)
        /\ lines' = lines + 1
        /\ nextBuffer' = Null
        /\ pc' = pc
        /\ signalled' = (signalled \/ pc = "waiting")
        /\ UNCHANGED <<back, running, owner>>
    BY <1>2, <2>2 DEF AppendLine, Notify
  <2>4. buffers' # << >> /\ buffers' \in Seq(Buffers)
    <3>1. buffers \in Seq(Buffers) /\ currentBuffer \in Buffers
      BY DEF TypeInv
    <3>2. buffers' \in Seq(Buffers) /\ Len(buffers') = Len(buffers) + 1
      BY <2>3, <3>1
    <3> QED BY <3>1, <3>2
  <2>5. currentBuffer' \in Buffers
    <3>1. lines + 1 \in Nat
      BY DEF TypeInv
    <3>2. currentBuffer' = Append(<< >>, lines + 1)
      BY <2>1, <2>3
    <3>3. << >> \in Seq(Nat)
      OBVIOUS
    <3>4. Append(<< >>, lines + 1) \in Seq(Nat)
      BY <3>1, <3>3
    <3> QED BY <3>2, <3>4 DEF Buffers
  <2>6. TypeInv'
    BY <2>3, <2>4, <2>5 DEF TypeInv, Spare, Null, back
  <2> QED BY <2>3, <2>4, <2>6 DEF SpareInv, OwnerInv, NoLostNotify, back
<1> QED BY <1>1, <1>2

LEMMA OwnerKeeps ==
    ASSUME LoggerInv, OwnerStep \/ UNCHANGED vars \/ Stopped
    PROVE  LoggerInv'
<1> USE DEF LoggerInv, TypeInv, SpareInv, OwnerInv, NoLostNotify, front, back
<1>1. CASE Start
  BY <1>1 DEF Start
<1>2. CASE StartReturns
  BY <1>2 DEF StartReturns
<1>3. CASE Stop
  BY <1>3 DEF Stop
<1>4. CASE StopNotifies
  BY <1>4 DEF StopNotifies, Notify
<1>5. CASE StopReturns
  BY <1>5 DEF StopReturns
<1>6. CASE UNCHANGED vars \/ Stopped
  BY <1>6 DEF vars, Stopped
<1> QED BY <1>1, <1>2, <1>3, <1>4, <1>5, <1>6 DEF OwnerStep

\* The critical section: what is taken is enough to give back.
LEMMA TakeStep ==
    ASSUME LoggerInv, pc \in {"lock", "waiting"}, TakeBuffers, pc' = "write",
           signalled' \in BOOLEAN, UNCHANGED <<lines, written, running, owner>>
    PROVE  LoggerInv'
<1> USE DEF LoggerInv
<1>1. newBuffer1 = <<Empty>> /\ newBuffer2 = <<Empty>>
  BY DEF SpareInv
<1>2. /\ bufferToWrite' \in Seq(Buffers) /\ bufferToWrite' # << >>
      /\ Len(bufferToWrite') = Len(buffers) + 1
  BY DEF TakeBuffers, TypeInv
<1>3. nextBuffer = Null => Len(bufferToWrite') >= 2
  BY <1>2 DEF SpareInv, TypeInv
<1>4. TypeInv'
  BY <1>1, <1>2 DEF TakeBuffers, TypeInv, Spare, Buffers, Null, Empty
<1>5. SpareInv'
  BY <1>1, <1>2, <1>3 DEF TakeBuffers, SpareInv, Null, Empty
<1> QED BY <1>4, <1>5 DEF OwnerInv, NoLostNotify

\* Dropping some buffers keeps two, if two are needed.
LEMMA DiscardStep ==
    ASSUME LoggerInv, Discard
    PROVE  LoggerInv'
<1> USE DEF LoggerInv
<1>1. bufferToWrite \in Seq(Buffers) /\ Len(bufferToWrite) >= 1
  BY DEF Discard, SpareInv, TypeInv
<1>2. /\ bufferToWrite' \in Seq(Buffers) /\ Len(bufferToWrite') >= 1
      /\ Len(bufferToWrite) >= 2 => Len(bufferToWrite') >= 2
  BY <1>1, SizesAssumption DEF Kept, TooMany, Discard
<1>3. /\ pc = "write" /\ pc' = "append"
      /\ UNCHANGED <<front, newBuffer1, newBuffer2, written, running, signalled, owner>>
  BY DEF Discard
<1>4. TypeInv'
  BY <1>2, <1>3 DEF TypeInv, front
<1>5. SpareInv'
  BY <1>2, <1>3 DEF SpareInv, front
<1> QED BY <1>3, <1>4, <1>5 DEF OwnerInv, NoLostNotify, front

\* The buffers that were taken suffice for both assertions of the refill.
LEMMA RefillStep ==
    ASSUME LoggerInv, Refill
    PROVE  LoggerInv'
<1> USE DEF LoggerInv
<1> DEFINE first2 == IF Len(bufferToWrite) > 2 THEN SubSeq(bufferToWrite, 1, 2)
                     ELSE bufferToWrite
           left   == IF newBuffer1 = Null THEN Front(first2) ELSE first2
<1>1. newBuffer1 = Null /\ bufferToWrite \in Seq(Buffers) /\ Len(bufferToWrite) >= 1
  BY DEF Refill, SpareInv, TypeInv
<1>2. /\ first2 \in Seq(Buffers) /\ Len(first2) >= 1
      /\ Len(bufferToWrite) >= 2 => Len(first2) >= 2
  BY <1>1
<1>3. newBuffer2 = Null => left # << >>
  <2> SUFFICES ASSUME newBuffer2 = Null PROVE Front(first2) # << >>
    BY <1>1
  <2>1. Len(first2) >= 2
    BY <1>2 DEF Refill, SpareInv
  <2>2. Front(first2) = SubSeq(first2, 1, Len(first2) - 1)
    BY DEF Front
  <2> HIDE DEF first2
  <2>3. Len(SubSeq(first2, 1, Len(first2) - 1)) = Len(first2) - 1
    BY <1>2, <2>1
  <2>4. Len(Front(first2)) >= 1
    BY <1>2, <2>1, <2>2, <2>3
  <2> QED BY <2>4
<1>4. /\ pc' = "check" /\ bufferToWrite' = << >> /\ written' = 0
      /\ newBuffer1' = <<Empty>>
      /\ newBuffer2' = IF newBuffer2 = Null THEN <<Empty>> ELSE newBuffer2
      /\ UNCHANGED <<front, running, signalled, owner>>
  BY <1>1, <1>3 DEF Refill, Reset
<1>5. newBuffer2' = <<Empty>>
  BY <1>4 DEF TypeInv, Spare
<1> HIDE DEF first2, left
<1>6. TypeInv'
  BY <1>4, <1>5 DEF TypeInv, Spare, front
<1>7. SpareInv'
  BY <1>4, <1>5 DEF SpareInv, front
<1> QED BY <1>4, <1>6, <1>7 DEF Refill, OwnerInv, NoLostNotify, front

LEMMA ThreadKeeps ==
    ASSUME LoggerInv, ThreadStep
    PROVE  LoggerInv'
<1>1. CASE Begin \/ CheckRunning \/ Wait
  BY <1>1 DEF Begin, CheckRunning, Wait, LoggerInv, TypeInv, SpareInv, OwnerInv, NoLostNotify,
     front, back
<1>2. CASE TakeFull \/ WakeUp
  BY <1>2, TakeStep DEF TakeFull, WakeUp, LoggerInv, TypeInv
<1>3. CASE AppendBuffer
  BY <1>3 DEF AppendBuffer, LoggerInv, TypeInv, SpareInv, OwnerInv, NoLostNotify, front
<1> QED BY <1>1, <1>2, <1>3, DiscardStep, RefillStep DEF ThreadStep

\* In every run of the logger the invariant holds.
THEOREM LoggerInvariance == Spec => []LoggerInv
<1>1. LoggerInv /\ [Next]_vars => LoggerInv'
  BY AppendStep, OwnerKeeps, ThreadKeeps DEF Next
<1> QED BY <1>1, InvInit, PTL DEF Spec

\* No assertion of append or threadFunc fails, whatever the sizes.
THEOREM AssertionsHold == Spec => []NoAbort
<1>1. LoggerInv => NoAbort
  BY DEF LoggerInv, SpareInv, NoAbort
<1> QED BY <1>1, LoggerInvariance, PTL

\* The logging thread never sleeps through its interval on a full buffer.
THEOREM NotifyNotLost == Spec => []NoLostNotify
<1>1. LoggerInv => NoLostNotify
  BY DEF LoggerInv
<1> QED BY <1>1, LoggerInvariance, PTL
-----------------------------------------------------------------------------
(* The order of the lines.  Held lists the places where lines are; an      *)
(* operation puts a line into the last one, adds one, drops some, or joins *)
(* the first two.                                                          *)

Places == Seq(Buffers)

LEMMA LinesAre ==
    ASSUME NEW h, NEW l
    PROVE  l \in LinesIn(h) <=> \E i \in DOMAIN h : \E j \in DOMAIN h[i] : h[i][j] = l
BY DEF LinesIn, Contents

LEMMA Joined ==
    ASSUME NEW S, NEW s \in Seq(S), NEW t \in Seq(S), NEW u, u = s \o t
    PROVE  /\ u \in Seq(S) /\ Len(u) = Len(s) + Len(t) /\ Len(s) \in Nat /\ Len(t) \in Nat
           /\ DOMAIN u = 1 .. Len(s) + Len(t)
           /\ \A i \in 1 .. Len(s) : u[i] = s[i]
           /\ \A i \in 1 .. Len(t) : u[Len(s) + i] = t[i]
OBVIOUS

\* The places one by one.
PlacesOf(h, f, b, w, d, c) ==
    LET n == Len(b) - w
    IN  /\ h \in Places /\ Len(h) = n + Len(d) + 2
        /\ h[1] = f /\ h[n + Len(d) + 2] = c
        /\ \A i \in 1 .. n : h[i + 1] = b[w + i]
        /\ \A i \in 1 .. Len(d) : h[n + 1 + i] = d[i]

LEMMA PlacesAre ==
    ASSUME NEW f \in Buffers, NEW b \in Places, NEW w \in 0 .. Len(b), NEW d \in Places,
           NEW c \in Buffers
    PROVE  PlacesOf(<<f>> \o SubSeq(b, w + 1, Len(b)) \o d \o <<c>>, f, b, w, d, c)
<1> DEFINE n == Len(b) - w
           s == SubSeq(b, w + 1, Len(b))
           h1 == <<f>> \o s
           h2 == h1 \o d
           last == <<c>>
           h  == h2 \o last
<1>0. <<f>> \in Seq(Buffers) /\ <<c>> \in Seq(Buffers) /\ Len(b) \in Nat /\ n \in Nat
  BY DEF Places
<1>1. s \in Seq(Buffers) /\ Len(s) = n /\ \A i \in 1 .. n : s[i] = b[w + i]
  BY DEF Places
<1> HIDE DEF s, n
<1>2. /\ h1 \in Seq(Buffers) /\ Len(h1) = n + 1 /\ h1[1] = f
      /\ \A i \in 1 .. n : h1[1 + i] = s[i]
  <2>1. /\ h1 \in Seq(Buffers) /\ Len(h1) = 1 + Len(s)
        /\ \A i \in 1 .. 1 : h1[i] = <<f>>[i]
        /\ \A i \in 1 .. Len(s) : h1[1 + i] = s[i]
    <3>1. Len(<<f>>) = 1
      OBVIOUS
    <3> QED BY <1>0, <1>1, <3>1, Joined
  <2> HIDE DEF h1
  <2>2. Len(s) = n /\ n \in Nat
    BY <1>0, <1>1
  <2>3. h1[1] = f
    <3>1. <<f>>[1] = f /\ 1 \in 1 .. 1
      OBVIOUS
    <3> QED BY <2>1, <3>1
  <2>4. Len(h1) = n + 1
    BY <2>1, <2>2
  <2>5. \A i \in 1 .. n : h1[1 + i] = s[i]
    BY <2>1, <2>2
  <2> QED BY <2>1, <2>3, <2>4, <2>5
<1> HIDE DEF h1
<1>3. /\ h2 \in Seq(Buffers) /\ Len(h2) = n + 1 + Len(d)
      /\ \A i \in 1 .. n + 1 : h2[i] = h1[i]
      /\ \A i \in 1 .. Len(d) : h2[n + 1 + i] = d[i]
  <2>1. d \in Seq(Buffers)
    BY DEF Places
  <2>2. /\ h2 \in Seq(Buffers) /\ Len(h2) = Len(h1) + Len(d)
        /\ \A i \in 1 .. Len(h1) : h2[i] = h1[i]
        /\ \A i \in 1 .. Len(d) : h2[Len(h1) + i] = d[i]
    BY <1>2, <2>1, Joined, SMTT(30)
  <2> HIDE DEF h2
  <2> QED BY <1>2, <2>2
<1> HIDE DEF h2
<1>4. /\ h \in Seq(Buffers) /\ Len(h) = n + Len(d) + 2
      /\ \A i \in 1 .. n + 1 + Len(d) : h[i] = h2[i]
      /\ h[n + Len(d) + 2] = c
  <2>1. last \in Seq(Buffers) /\ Len(last) = 1 /\ last[1] = c
    BY <1>0
  <2> HIDE DEF last
  <2>2. Len(d) \in Nat
    BY DEF Places
  <2>3. /\ h \in Seq(Buffers) /\ Len(h) = Len(h2) + Len(last)
        /\ \A i \in 1 .. Len(h2) : h[i] = h2[i]
        /\ \A i \in 1 .. Len(last) : h[Len(h2) + i] = last[i]
    <3>1. h2 \in Seq(Buffers) /\ last \in Seq(Buffers)
      BY <1>3, <2>1
    <3> QED BY <3>1, Joined
  <2> HIDE DEF h
  <2> QED BY <1>0, <1>3, <2>1, <2>2, <2>3
<1> HIDE DEF h
<1>5. h[1] = f /\ Len(d) \in Nat
  <2>1. Len(d) \in Nat
    BY DEF Places
  <2>2. 1 \in 1 .. n + 1 /\ 1 \in 1 .. n + 1 + Len(d)
    BY <1>0, <2>1
  <2> QED BY <1>2, <1>3, <1>4, <2>1, <2>2
<1>6. ASSUME NEW i \in 1 .. n PROVE h[i + 1] = b[w + i]
  <2>1. 1 + i \in 1 .. n + 1 /\ 1 + i \in 1 .. n + 1 + Len(d) /\ i + 1 = 1 + i
    BY <1>0, <1>5
  <2>2. h[1 + i] = h2[1 + i]
    BY <1>4, <2>1
  <2>3. h2[1 + i] = h1[1 + i]
    BY <1>3, <2>1
  <2>4. h1[1 + i] = s[i] /\ s[i] = b[w + i]
    BY <1>1, <1>2
  <2> QED BY <2>1, <2>2, <2>3, <2>4
<1>7. ASSUME NEW i \in 1 .. Len(d) PROVE h[n + 1 + i] = d[i]
  <2>1. n + 1 + i \in 1 .. n + 1 + Len(d)
    BY <1>0, <1>5
  <2> QED BY <1>3, <1>4, <2>1
<1>8. PlacesOf(h, f, b, w, d, c)
  BY <1>4, <1>5, <1>6, <1>7 DEF PlacesOf, Places, n
<1> QED BY <1>8 DEF h, h2, h1, last, s

\* A line larger than all others, or no line, is put at the end of the last place.
LEMMA LineAtEnd ==
    ASSUME NEW h \in Places, h # << >>, Ordered(h), NEW x \in Nat, \A y \in LinesIn(h) : y < x,
           NEW g \in Places, Len(g) = Len(h), \A i \in 1 .. Len(h) - 1 : g[i] = h[i],
           g[Len(h)] = Append(h[Len(h)], x)
    PROVE  Ordered(g) /\ LinesIn(g) = LinesIn(h) \cup {x}
<1> DEFINE n == Len(h)
           m == Len(h[n])
<1>1. n \in Nat /\ n >= 1 /\ DOMAIN g = DOMAIN h /\ DOMAIN h = 1 .. n
      /\ h[n] \in Buffers /\ m \in Nat
  BY DEF Places, Buffers
<1>2. /\ \A i \in 1 .. n - 1 : DOMAIN g[i] = DOMAIN h[i]
      /\ DOMAIN g[n] = 1 .. m + 1 /\ DOMAIN h[n] = 1 .. m /\ g[n][m + 1] = x
      /\ \A j \in 1 .. m : g[n][j] = h[n][j]
  BY <1>1 DEF Buffers
<1>3. ASSUME NEW i \in DOMAIN g, NEW j \in DOMAIN g[i]
      PROVE  \/ i = n /\ j = m + 1 /\ g[i][j] = x
             \/ j \in DOMAIN h[i] /\ g[i][j] = h[i][j]
  BY <1>1, <1>2
<1>4. ASSUME NEW i \in DOMAIN h, NEW j \in DOMAIN h[i]
      PROVE  j \in DOMAIN g[i] /\ g[i][j] = h[i][j] /\ h[i][j] < x /\ h[i][j] \in Nat
  <2>1. h[i][j] < x
    BY LinesAre
  <2>2. h[i] \in Buffers
    BY DEF Places
  <2>3. h[i][j] \in Nat
    BY <2>2 DEF Buffers
  <2>4. i \in 1 .. n - 1 \/ i = n
    BY <1>1
  <2> QED BY <1>1, <1>2, <2>1, <2>3, <2>4
<1> HIDE DEF n, m
<1>5. ASSUME NEW i \in DOMAIN g, NEW k \in DOMAIN g, NEW j \in DOMAIN g[i], NEW l \in DOMAIN g[k],
             i < k \/ (i = k /\ j < l), g[i][j] # 0, g[k][l] # 0
      PROVE  g[i][j] < g[k][l]
  <2>1. i \in 1 .. n /\ k \in 1 .. n
    BY <1>1
  <2>2. ~(i = n /\ j = m + 1)
    <3>1. k = n => l \in 1 .. m + 1
      BY <1>2
    <3> QED BY <1>1, <2>1, <3>1, <1>5
  <2>3. j \in DOMAIN h[i] /\ g[i][j] = h[i][j]
    BY <1>3, <2>2
  <2>4. CASE k = n /\ l = m + 1 /\ g[k][l] = x
    BY <1>1, <1>4, <2>3, <2>4
  <2>5. CASE l \in DOMAIN h[k] /\ g[k][l] = h[k][l]
    BY <1>1, <1>5, <2>3, <2>5 DEF Ordered
  <2> QED BY <1>3, <2>4, <2>5
<1>6. Ordered(g)
  BY <1>5 DEF Ordered
<1>7. ASSUME NEW l PROVE l \in LinesIn(g) <=> l \in LinesIn(h) \cup {x}
  <2>1. ASSUME l \in LinesIn(g) PROVE l \in LinesIn(h) \cup {x}
    BY <1>1, <1>3, <2>1, LinesAre
  <2>2. ASSUME l \in LinesIn(h) PROVE l \in LinesIn(g)
    BY <1>1, <1>4, <2>2, LinesAre
  <2>3. x \in LinesIn(g)
    <3>1. n \in DOMAIN g /\ m + 1 \in DOMAIN g[n] /\ g[n][m + 1] = x
      BY <1>1, <1>2
    <3> QED BY <3>1, LinesAre
  <2> QED BY <2>1, <2>2, <2>3
<1> QED BY <1>6, <1>7

\* An empty place is added at the end.
LEMMA EmptyPlace ==
    ASSUME NEW h \in Places, Ordered(h), NEW g \in Places, Len(g) = Len(h) + 1,
           \A i \in 1 .. Len(h) : g[i] = h[i], g[Len(h) + 1] = << >>
    PROVE  Ordered(g) /\ LinesIn(g) = LinesIn(h)
<1>1. DOMAIN g = 1 .. Len(h) + 1 /\ DOMAIN h = 1 .. Len(h) /\ Len(h) \in Nat
  BY DEF Places
<1>2. DOMAIN << >> = {}
  OBVIOUS
<1>3. ASSUME NEW i \in DOMAIN g, NEW j \in DOMAIN g[i]
      PROVE  i \in DOMAIN h /\ g[i] = h[i]
  BY <1>1, <1>2
<1>4. Ordered(g)
  BY <1>3 DEF Ordered
<1>5. ASSUME NEW l PROVE l \in LinesIn(g) <=> l \in LinesIn(h)
  <2>1. ASSUME l \in LinesIn(g) PROVE l \in LinesIn(h)
    BY <1>3, <2>1, LinesAre
  <2>2. ASSUME l \in LinesIn(h) PROVE l \in LinesIn(g)
    BY <1>1, <2>2, LinesAre
  <2> QED BY <2>1, <2>2
<1> QED BY <1>4, <1>5

\* u is s and then t.
Joins(u, s, t) ==
    /\ DOMAIN u = 1 .. Len(s) + Len(t)
    /\ \A j \in 1 .. Len(s) : u[j] = s[j]
    /\ \A j \in 1 .. Len(t) : u[Len(s) + j] = t[j]

\* The first two places become one.
LEMMA JoinPlaces ==
    ASSUME NEW h \in Places, Ordered(h), Len(h) >= 2, NEW g \in Places, Len(g) = Len(h) - 1,
           Joins(g[1], h[1], h[2]), \A i \in 2 .. Len(g) : g[i] = h[i + 1]
    PROVE  Ordered(g) /\ LinesIn(g) = LinesIn(h)
<1> DEFINE n == Len(h[1])
           P(i, j) == IF i = 1 THEN IF j <= n THEN 1 ELSE 2 ELSE i + 1
           Q(i, j) == IF i = 1 /\ j > n THEN j - n ELSE j
<1>1. /\ h[1] \in Buffers /\ h[2] \in Buffers /\ n \in Nat
      /\ DOMAIN h = 1 .. Len(h) /\ DOMAIN g = 1 .. Len(h) - 1 /\ Len(h) \in Nat
  BY DEF Places, Buffers
<1>2. DOMAIN h[1] = 1 .. n /\ DOMAIN h[2] = 1 .. Len(h[2]) /\ Len(h[2]) \in Nat
  BY <1>1 DEF Buffers
<1>8. DOMAIN g[1] = 1 .. n + Len(h[2])
  BY DEF Joins
<1>9. ASSUME NEW j \in 1 .. n PROVE g[1][j] = h[1][j]
  BY DEF Joins
<1>10. ASSUME NEW j \in 1 .. Len(h[2]) PROVE g[1][n + j] = h[2][j]
  BY DEF Joins
<1> HIDE DEF n
<1>3. ASSUME NEW i \in DOMAIN g
      PROVE  g[i] \in Buffers /\ DOMAIN g[i] = 1 .. Len(g[i])
  BY DEF Places, Buffers
<1>4. ASSUME NEW i \in DOMAIN g, NEW j \in DOMAIN g[i]
      PROVE  /\ P(i, j) \in DOMAIN h /\ Q(i, j) \in DOMAIN h[P(i, j)]
             /\ g[i][j] = h[P(i, j)][Q(i, j)]
  <2>1. CASE i = 1 /\ j <= n
    <3>1. j \in 1 .. n
      BY <1>1, <1>3, <2>1
    <3>2. P(i, j) = 1 /\ Q(i, j) = j
      BY <1>1, <2>1, <3>1
    <3>3. g[1][j] = h[1][j] /\ j \in DOMAIN h[1] /\ 1 \in DOMAIN h
      BY <1>1, <1>2, <1>9, <3>1
    <3> HIDE DEF P, Q
    <3> QED BY <2>1, <3>2, <3>3
  <2>2. CASE i = 1 /\ j > n
    <3>1. j - n \in 1 .. Len(h[2]) /\ j = n + (j - n)
      BY <1>1, <1>2, <1>8, <2>2
    <3>2. P(i, j) = 2 /\ Q(i, j) = j - n
      BY <1>1, <1>2, <2>2, <3>1
    <3>3. g[1][n + (j - n)] = h[2][j - n]
      BY <1>10, <3>1
    <3>4. 2 \in DOMAIN h /\ j - n \in DOMAIN h[2]
      BY <1>1, <1>2, <3>1
    <3> HIDE DEF P, Q
    <3> QED BY <2>2, <3>1, <3>2, <3>3, <3>4
  <2>3. CASE i # 1
    BY <1>1, <2>3
  <2>4. j \in Nat
    BY <1>3
  <2> QED BY <1>1, <2>1, <2>2, <2>3, <2>4
<1>5. ASSUME NEW i \in DOMAIN g, NEW k \in DOMAIN g, NEW j \in DOMAIN g[i], NEW l \in DOMAIN g[k],
             i < k \/ (i = k /\ j < l)
      PROVE  P(i, j) < P(k, l) \/ (P(i, j) = P(k, l) /\ Q(i, j) < Q(k, l))
  <2>1. i \in 1 .. Len(h) - 1 /\ k \in 1 .. Len(h) - 1 /\ j \in Nat /\ l \in Nat
    BY <1>1, <1>3
  <2> QED BY <1>1, <1>5, <2>1
<1>6. Ordered(g)
  <2> SUFFICES ASSUME NEW i \in DOMAIN g, NEW k \in DOMAIN g, NEW j \in DOMAIN g[i],
                      NEW l \in DOMAIN g[k], i < k \/ (i = k /\ j < l), g[i][j] # 0, g[k][l] # 0
               PROVE  g[i][j] < g[k][l]
    BY DEF Ordered
  <2>1. /\ P(i, j) \in DOMAIN h /\ Q(i, j) \in DOMAIN h[P(i, j)] /\ g[i][j] = h[P(i, j)][Q(i, j)]
        /\ P(k, l) \in DOMAIN h /\ Q(k, l) \in DOMAIN h[P(k, l)] /\ g[k][l] = h[P(k, l)][Q(k, l)]
    BY <1>4
  <2>2. P(i, j) < P(k, l) \/ (P(i, j) = P(k, l) /\ Q(i, j) < Q(k, l))
    BY <1>5
  <2> HIDE DEF P, Q
  <2> QED BY <2>1, <2>2 DEF Ordered
<1>7. ASSUME NEW l PROVE l \in LinesIn(g) <=> l \in LinesIn(h)
  <2>1. ASSUME l \in LinesIn(g) PROVE l \in LinesIn(h)
    <3>1. PICK i \in DOMAIN g : \E j \in DOMAIN g[i] : g[i][j] = l
      BY <2>1, LinesAre
    <3>2. PICK j \in DOMAIN g[i] : g[i][j] = l
      BY <3>1
    <3>3. P(i, j) \in DOMAIN h /\ Q(i, j) \in DOMAIN h[P(i, j)] /\ h[P(i, j)][Q(i, j)] = l
      BY <1>4, <3>2
    <3> HIDE DEF P, Q
    <3> QED BY <3>3, LinesAre
  <2>2. ASSUME l \in LinesIn(h) PROVE l \in LinesIn(g)
    <3>1. PICK i \in DOMAIN h : \E j \in DOMAIN h[i] : h[i][j] = l
      BY <2>2, LinesAre
    <3>2. PICK j \in DOMAIN h[i] : h[i][j] = l
      BY <3>1
    <3>3. CASE i = 1
      <4>1. 1 \in DOMAIN g /\ j \in DOMAIN g[1] /\ g[1][j] = l
        BY <1>1, <1>2, <1>8, <1>9, <3>2, <3>3
      <4> QED BY <4>1, LinesAre
    <3>4. CASE i = 2
      <4>1. 1 \in DOMAIN g /\ n + j \in DOMAIN g[1] /\ g[1][n + j] = l
        BY <1>1, <1>2, <1>8, <1>10, <3>2, <3>4, SMTT(30)
      <4> QED BY <4>1, LinesAre
    <3>5. CASE i > 2
      <4>1. i - 1 \in DOMAIN g /\ g[i - 1] = h[i]
        BY <1>1, <3>5
      <4> QED BY <3>2, <4>1, LinesAre
    <3> QED BY <1>1, <3>3, <3>4, <3>5
  <2> QED BY <2>1, <2>2
<1> QED BY <1>6, <1>7

\* Places are dropped and a notice, which is no line, is put into the first.
LEMMA DropPlaces ==
    ASSUME NEW h \in Places, Ordered(h), NEW g \in Places, h # << >>,
           NEW m \in [DOMAIN g -> DOMAIN h], \A i, k \in DOMAIN g : i < k => m[i] < m[k],
           g # << >>, m[1] = 1, g[1] \in {h[1], Append(h[1], 0)},
           \A i \in DOMAIN g : i # 1 => g[i] = h[m[i]]
    PROVE  /\ Ordered(g)
           /\ \A l : l # 0 => (l \in LinesIn(g) <=> \E i \in DOMAIN g : l \in Contents(h[m[i]]))
<1>1. h[1] \in Buffers /\ DOMAIN h[1] = 1 .. Len(h[1]) /\ Len(h[1]) \in Nat
  BY DEF Places, Buffers
<1>2. ASSUME NEW i \in DOMAIN g, NEW j \in DOMAIN g[i], g[i][j] # 0
      PROVE  j \in DOMAIN h[m[i]] /\ g[i][j] = h[m[i]][j]
  <2>1. CASE i = 1
    BY <1>1, <1>2, <2>1 DEF Buffers
  <2> QED BY <2>1
<1>3. ASSUME NEW i \in DOMAIN g, NEW j \in DOMAIN h[m[i]]
      PROVE  j \in DOMAIN g[i] /\ g[i][j] = h[m[i]][j]
  <2>1. CASE i = 1
    BY <1>1, <1>3, <2>1 DEF Buffers
  <2> QED BY <2>1
<1>4. DOMAIN g = 1 .. Len(g) /\ DOMAIN h = 1 .. Len(h)
  BY DEF Places
<1>5. ASSUME NEW i \in DOMAIN g, NEW k \in DOMAIN g, NEW j \in DOMAIN g[i], NEW l \in DOMAIN g[k],
             i < k \/ (i = k /\ j < l), g[i][j] # 0, g[k][l] # 0
      PROVE  g[i][j] < g[k][l]
  <2>1. j \in DOMAIN h[m[i]] /\ g[i][j] = h[m[i]][j] /\ l \in DOMAIN h[m[k]] /\ g[k][l] = h[m[k]][l]
    BY <1>2, <1>5
  <2>2. m[i] \in DOMAIN h /\ m[k] \in DOMAIN h /\ (m[i] < m[k] \/ (m[i] = m[k] /\ j < l))
    BY <1>5
  <2> QED BY <1>5, <2>1, <2>2 DEF Ordered
<1>6. Ordered(g)
  BY <1>5 DEF Ordered
<1>7. ASSUME NEW l, l # 0
      PROVE  l \in LinesIn(g) <=> \E i \in DOMAIN g : l \in Contents(h[m[i]])
  <2>1. ASSUME l \in LinesIn(g) PROVE \E i \in DOMAIN g : l \in Contents(h[m[i]])
    <3>1. PICK i \in DOMAIN g : \E j \in DOMAIN g[i] : g[i][j] = l
      BY <2>1, LinesAre
    <3> QED BY <1>2, <1>7, <3>1 DEF Contents
  <2>2. ASSUME NEW i \in DOMAIN g, l \in Contents(h[m[i]]) PROVE l \in LinesIn(g)
    <3>1. PICK j \in DOMAIN h[m[i]] : h[m[i]][j] = l
      BY <2>2 DEF Contents
    <3>2. j \in DOMAIN g[i] /\ g[i][j] = l
      BY <1>3, <3>1
    <3> QED BY <3>2, LinesAre
  <2> QED BY <2>1, <2>2
<1> QED BY <1>6, <1>7

\* What the lines are: the types, the room that is kept in the current buffer, and the order.
LineTypes ==
    /\ TypeOK
    /\ Len(currentBuffer) < BufferSize
    /\ pc # "append" => written = 0
    /\ dropped \subseteq 1 .. lines

LineOrder ==
    /\ Ordered(Held)
    /\ LinesIn(Held) \ {0} = 1 .. lines \ dropped

\* The inductive invariant of the lines.
LineInv == LoggerInv /\ LineTypes /\ LineOrder

LEMMA HeldAre ==
    ASSUME LoggerInv, TypeOK
    PROVE  PlacesOf(Held, file, bufferToWrite, written, buffers, currentBuffer)
<1>1. file \in Buffers
  BY SizesAssumption DEF TypeOK, Buffers
<1>2. bufferToWrite \in Places /\ buffers \in Places /\ currentBuffer \in Buffers
  BY DEF LoggerInv, TypeInv, Places
<1>3. written \in 0 .. Len(bufferToWrite)
  BY DEF TypeOK
<1> QED BY <1>1, <1>2, <1>3, PlacesAre DEF Held

LEMMA HeldAreNext ==
    ASSUME LoggerInv', TypeOK'
    PROVE  PlacesOf(Held', file', bufferToWrite', written', buffers', currentBuffer')
<1>1. file' \in Buffers
  BY SizesAssumption DEF TypeOK, Buffers
<1>2. bufferToWrite' \in Places /\ buffers' \in Places /\ currentBuffer' \in Buffers
  BY DEF LoggerInv, TypeInv, Places
<1>3. written' \in 0 .. Len(bufferToWrite')
  BY DEF TypeOK
<1> QED BY <1>1, <1>2, <1>3, PlacesAre DEF Held

LEMMA HeldLines ==
    ASSUME LineInv
    PROVE  /\ lines \in Nat /\ \A y \in LinesIn(Held) : y = 0 \/ y \in 1 .. lines
           /\ \A l : l # 0 => (l \in LinesIn(Held) <=> l \in 1 .. lines /\ l \notin dropped)
BY DEF LineInv, LineOrder, LoggerInv, TypeInv

LEMMA LineInit == Init => LineInv
<1> SUFFICES ASSUME Init PROVE LineInv
  OBVIOUS
<1>1. LoggerInv
  BY InvInit
<1>2. LineTypes
  <2>1. << >> \in Seq(Lines) /\ << >> \in Seq(Seq(Lines)) /\ << >> \in Seq(0 .. MaxLines)
        /\ Len(<< >>) = 0 /\ DOMAIN << >> = {}
    OBVIOUS
  <2>2. Len(<<Empty>>) = 1 /\ <<Empty>>[1] \in Seq(Lines)
    BY <2>1 DEF Empty
  <2>3. Contents(buffers) = {} /\ Contents(bufferToWrite) = {}
    BY <2>1 DEF Init, Contents
  <2>4. TypeOK
    <3>1. \A q \in {nextBuffer, newBuffer1, newBuffer2} : q = Null \/ (Len(q) = 1 /\ q[1] \in Seq(Lines))
      <4>1. \A q \in {nextBuffer, newBuffer1, newBuffer2} : q = <<Empty>>
        BY DEF Init
      <4> QED BY <2>2, <4>1
    <3>2. /\ currentBuffer \in Seq(Lines) /\ buffers \in Seq(Seq(Lines)) /\ bufferToWrite \in Seq(Seq(Lines))
          /\ file \in Seq(0 .. MaxLines)
      BY <2>1 DEF Init, Empty
    <3>3. lines \in 0 .. MaxLines /\ written \in 0 .. Len(bufferToWrite) /\ dropped \subseteq Lines
      BY <2>1, SizesAssumption DEF Init
    <3>4. running \in BOOLEAN /\ signalled \in BOOLEAN /\ pc = "none" /\ owner = "new"
      BY DEF Init
    <3> QED BY <2>3, <3>1, <3>2, <3>3, <3>4 DEF TypeOK
  <2> QED BY <2>1, <2>4, SizesAssumption DEF Init, LineTypes, Empty
<1>3. LineOrder
  <2>1. Len(bufferToWrite) = 0 /\ Len(buffers) = 0 /\ written = 0 /\ file = << >>
        /\ currentBuffer = << >> /\ lines = 0 /\ dropped = {}
    BY DEF Init, Empty
  <2>2. DOMAIN Held = {1, 2} /\ Held[1] = << >> /\ Held[2] = << >>
    BY <1>1, <1>2, <2>1, HeldAre DEF LineTypes, Places, PlacesOf
  <2>3. \A i \in DOMAIN Held : DOMAIN Held[i] = {}
    BY <2>2
  <2>4. Ordered(Held)
    BY <2>3 DEF Ordered
  <2>5. LinesIn(Held) = {}
    BY <2>3 DEF LinesIn, Contents
  <2> QED BY <2>1, <2>4, <2>5 DEF LineOrder
<1> QED BY <1>1, <1>2, <1>3 DEF LineInv

\* A line goes into a buffer that keeps some room.
LEMMA AppendTypes ==
    ASSUME LineInv, AppendLine
    PROVE  LineTypes' /\ pc' = pc
<1> DEFINE fresh == IF nextBuffer = Null THEN Empty ELSE nextBuffer[1]
<1>1. /\ lines \in 0 .. MaxLines /\ lines < MaxLines /\ lines' = lines + 1 /\ lines + 1 \in Lines
      /\ UNCHANGED <<back, running, owner>>
  BY SizesAssumption DEF AppendLine, LineInv, LineTypes, TypeOK, Lines
<1>2. fresh = << >> /\ nextBuffer \in Spare
  BY DEF LineInv, LoggerInv, TypeInv, Spare, Null, Empty
<1>3. currentBuffer \in Seq(Lines) /\ Len(currentBuffer) < BufferSize /\ BufferSize \in Nat \ {0, 1}
  BY SizesAssumption DEF LineInv, LineTypes, TypeOK
<1>4. /\ currentBuffer' \in Seq(Lines) /\ Len(currentBuffer') < BufferSize
      /\ buffers' \in {buffers, Append(buffers, currentBuffer)}
      /\ nextBuffer' \in {nextBuffer, Null} /\ pc' = pc /\ signalled' \in BOOLEAN
  <2>1. CASE Fits(currentBuffer)
    <3>1. /\ currentBuffer' = Append(currentBuffer, lines + 1)
          /\ UNCHANGED <<nextBuffer, buffers, signalled, pc>>
      BY <2>1 DEF AppendLine
    <3>2. Len(currentBuffer) + 1 < BufferSize
      BY <1>3, <2>1 DEF Fits, Avail
    <3>3. Len(currentBuffer') = Len(currentBuffer) + 1 /\ currentBuffer' \in Seq(Lines)
      BY <1>1, <1>3, <3>1
    <3> QED BY <3>1, <3>2, <3>3 DEF LineInv, LineTypes, TypeOK
  <2>2. CASE ~Fits(currentBuffer)
    <3>1. Avail(fresh) >= 1
      BY <1>2, <1>3 DEF Avail
    <3>2. /\ buffers' = Append(buffers, currentBuffer)
          /\ currentBuffer' = Append(fresh, lines + 1)
          /\ nextBuffer' = Null
          /\ pc' = pc
          /\ signalled' = (signalled \/ pc = "waiting")
      BY <2>2, <3>1 DEF AppendLine, Notify
    <3>3. currentBuffer' \in Seq(Lines) /\ Len(currentBuffer') = 1
      <4>1. << >> \in Seq(Lines) /\ Len(<< >>) = 0
        OBVIOUS
      <4>2. currentBuffer' = Append(<< >>, lines + 1)
        BY <1>2, <3>2
      <4> HIDE DEF fresh
      <4>3. Append(<< >>, lines + 1) \in Seq(Lines) /\ Len(Append(<< >>, lines + 1)) = 1
        BY <1>1, <4>1
      <4> QED BY <4>2, <4>3
    <3> QED BY <1>3, <3>2, <3>3
  <2> QED BY <2>1, <2>2
<1>5. buffers' \in Seq(Seq(Lines)) /\ \A b \in Contents(buffers') : Len(b) < BufferSize
  <2>1. buffers \in Seq(Seq(Lines)) /\ \A b \in Contents(buffers) : Len(b) < BufferSize
    BY DEF LineInv, LineTypes, TypeOK
  <2>2. CASE buffers' = buffers
    BY <2>1, <2>2
  <2>3. CASE buffers' = Append(buffers, currentBuffer)
    <3>1. buffers' \in Seq(Seq(Lines))
      BY <1>3, <2>1, <2>3
    <3>2. ASSUME NEW i \in DOMAIN buffers'
          PROVE  buffers'[i] = currentBuffer \/ (i \in DOMAIN buffers /\ buffers'[i] = buffers[i])
      <4>1. /\ DOMAIN buffers' = 1 .. Len(buffers) + 1 /\ DOMAIN buffers = 1 .. Len(buffers)
            /\ Len(buffers) \in Nat
            /\ buffers'[Len(buffers) + 1] = currentBuffer
        BY <1>3, <2>1, <2>3
      <4>2. \A k \in 1 .. Len(buffers) : buffers'[k] = buffers[k]
        BY <1>3, <2>1, <2>3
      <4> QED BY <4>1, <4>2
    <3> QED BY <1>3, <2>1, <3>1, <3>2 DEF Contents
  <2> QED BY <1>4, <2>2, <2>3
<1>6. TypeOK'
  <2>1. \A q \in {nextBuffer, newBuffer1, newBuffer2} : q = Null \/ (Len(q) = 1 /\ q[1] \in Seq(Lines))
    BY DEF LineInv, LineTypes, TypeOK
  <2>2. \A q \in {nextBuffer', newBuffer1', newBuffer2'} : q = Null \/ (Len(q) = 1 /\ q[1] \in Seq(Lines))
    BY <1>1, <1>4, <2>1 DEF back
  <2>3. lines' \in 0 .. MaxLines
    BY <1>1 DEF Lines
  <2> QED BY <1>1, <1>4, <1>5, <2>2, <2>3 DEF TypeOK, back, LineInv, LineTypes
<1>7. dropped' \subseteq 1 .. lines'
  BY <1>1 DEF back, LineInv, LineTypes
<1> QED BY <1>1, <1>4, <1>6, <1>7 DEF LineTypes, back, LineInv

\* It is put into the last place, or into a new one.
LEMMA AppendOrder ==
    ASSUME LineInv, AppendLine, LoggerInv', LineTypes'
    PROVE  LineOrder'
<1> DEFINE n == Len(bufferToWrite) - written
           x == lines + 1
           k == Len(Held)
<1>1. x \in Nat /\ x # 0 /\ \A y \in LinesIn(Held) : y < x
  BY HeldLines
<1>2. /\ bufferToWrite' = bufferToWrite /\ written' = written /\ file' = file
      /\ dropped' = dropped /\ lines' = x
  BY DEF AppendLine, back
<1>3. /\ Held \in Places /\ k = n + Len(buffers) + 2
      /\ Held[1] = file /\ Held[n + Len(buffers) + 2] = currentBuffer
      /\ \A i \in 1 .. n : Held[i + 1] = bufferToWrite[written + i]
      /\ \A i \in 1 .. Len(buffers) : Held[n + 1 + i] = buffers[i]
  BY HeldAre DEF LineInv, LineTypes, PlacesOf
<1>4. /\ Held' \in Places /\ Len(Held') = n + Len(buffers') + 2
      /\ Held'[1] = file /\ Held'[n + Len(buffers') + 2] = currentBuffer'
      /\ \A i \in 1 .. n : Held'[i + 1] = bufferToWrite[written + i]
      /\ \A i \in 1 .. Len(buffers') : Held'[n + 1 + i] = buffers'[i]
  <2>1. LoggerInv' /\ TypeOK'
    BY DEF LineTypes
  <2>2. PlacesOf(Held', file', bufferToWrite', written', buffers', currentBuffer')
    BY <2>1, HeldAreNext
  <2> QED BY <1>2, <2>2 DEF PlacesOf
<1>5. n \in Nat /\ Len(buffers) \in Nat /\ Ordered(Held) /\ buffers \in Seq(Buffers)
      /\ currentBuffer \in Buffers
  BY DEF LineInv, LineTypes, LineOrder, TypeOK, LoggerInv, TypeInv
<1>6. Ordered(Held') /\ LinesIn(Held') = LinesIn(Held) \cup {x}
  <2> DEFINE h == Held
             g == Held'
  <2> HIDE DEF g, h, x, n
  <2>1. CASE Fits(currentBuffer)
    <3>1. currentBuffer' = Append(currentBuffer, x) /\ buffers' = buffers
      BY <2>1 DEF AppendLine, x
    <3>2. g \in Places /\ Len(g) = Len(h) /\ h # << >>
      BY <1>3, <1>4, <1>5, <3>1 DEF g, h, Places
    <3>3. g[Len(h)] = Append(h[Len(h)], x)
      BY <1>3, <1>4, <3>1 DEF g, h
    <3>4. ASSUME NEW i \in 1 .. Len(h) - 1 PROVE g[i] = h[i]
      <4>1. CASE i = 1
        BY <1>3, <1>4, <4>1 DEF g, h
      <4>2. CASE i - 1 \in 1 .. n
        <5>1. i = (i - 1) + 1
          OBVIOUS
        <5> QED BY <1>3, <1>4, <4>2, <5>1 DEF g, h
      <4>3. CASE i - n - 1 \in 1 .. Len(buffers)
        <5>1. i = n + 1 + (i - n - 1)
          BY <1>5
        <5> QED BY <1>3, <1>4, <3>1, <4>3, <5>1 DEF g, h
      <4> QED BY <1>3, <1>5, <4>1, <4>2, <4>3 DEF h
    <3>5. h \in Places /\ Ordered(h) /\ \A y \in LinesIn(h) : y < x
      BY <1>1, <1>3, <1>5 DEF h
    <3>6. Ordered(g) /\ LinesIn(g) = LinesIn(h) \cup {x}
      BY <1>1, <3>2, <3>3, <3>4, <3>5, LineAtEnd
    <3> QED BY <3>6 DEF g, h
  <2>2. CASE ~Fits(currentBuffer)
    <3> DEFINE e == Append(h, << >>)
    <3>1. currentBuffer' = Append(<< >>, x) /\ buffers' = Append(buffers, currentBuffer)
      BY <2>2 DEF AppendLine, x, LineInv, LoggerInv, TypeInv, Spare, Null, Empty
    <3>2. /\ h \in Places /\ Ordered(h) /\ \A y \in LinesIn(h) : y < x
          /\ Len(h) = n + Len(buffers) + 2
      BY <1>1, <1>3, <1>5 DEF h
    <3>3. /\ e \in Places /\ Len(e) = Len(h) + 1 /\ \A i \in 1 .. Len(h) : e[i] = h[i]
          /\ e[Len(h) + 1] = << >>
      <4>1. << >> \in Buffers /\ h \in Seq(Buffers)
        BY <3>2 DEF Buffers, Places
      <4> QED BY <4>1 DEF Places
    <3> HIDE DEF e
    <3>4. Ordered(e) /\ LinesIn(e) = LinesIn(h)
      BY <3>2, <3>3, EmptyPlace
    <3>5. /\ Len(buffers') = Len(buffers) + 1 /\ buffers'[Len(buffers) + 1] = currentBuffer
          /\ \A i \in 1 .. Len(buffers) : buffers'[i] = buffers[i]
      BY <1>5, <3>1
    <3>6. g \in Places /\ Len(g) = Len(e) /\ e # << >>
      BY <1>4, <1>5, <3>2, <3>3, <3>5 DEF g, Places
    <3>7. g[Len(e)] = Append(e[Len(e)], x)
      BY <1>4, <1>5, <3>1, <3>2, <3>3, <3>5 DEF g
    <3>8. ASSUME NEW i \in 1 .. Len(e) - 1 PROVE g[i] = e[i]
      <4>0. i \in 1 .. Len(h) /\ e[i] = h[i]
        BY <1>5, <3>2, <3>3
      <4>1. CASE i = 1
        BY <1>3, <1>4, <4>0, <4>1 DEF g, h
      <4>2. CASE i - 1 \in 1 .. n
        <5>1. i = (i - 1) + 1
          OBVIOUS
        <5> QED BY <1>3, <1>4, <4>0, <4>2, <5>1 DEF g, h
      <4>3. CASE i - n - 1 \in 1 .. Len(buffers)
        <5>1. i = n + 1 + (i - n - 1) /\ i - n - 1 \in 1 .. Len(buffers')
          BY <1>5, <3>5, <4>3
        <5>2. g[i] = buffers'[i - n - 1]
          BY <1>4, <5>1 DEF g
        <5>3. h[i] = buffers[i - n - 1]
          BY <1>3, <4>3, <5>1 DEF h
        <5> QED BY <3>5, <4>0, <4>3, <5>2, <5>3
      <4>4. CASE i = Len(h)
        <5>1. Len(buffers) + 1 \in 1 .. Len(buffers') /\ i = n + 1 + (Len(buffers) + 1)
          BY <1>5, <3>2, <3>5, <4>4
        <5>2. g[i] = buffers'[Len(buffers) + 1]
          BY <1>4, <5>1 DEF g
        <5>3. h[i] = currentBuffer
          BY <1>3, <3>2, <4>4 DEF h
        <5> QED BY <3>5, <4>0, <5>2, <5>3
      <4> QED BY <1>5, <3>2, <4>0, <4>1, <4>2, <4>3, <4>4
    <3>9. \A y \in LinesIn(e) : y < x
      BY <3>2, <3>4
    <3>10. Ordered(g) /\ LinesIn(g) = LinesIn(e) \cup {x}
      BY <1>1, <3>3, <3>4, <3>6, <3>7, <3>8, <3>9, LineAtEnd
    <3> QED BY <3>4, <3>10 DEF g, h
  <2> QED BY <2>1, <2>2
<1>7. LinesIn(Held)' \ {0} = 1 .. lines' \ dropped'
  <2>1. dropped \subseteq 1 .. lines
    BY DEF LineInv, LineTypes
  <2>2. ASSUME NEW l
        PROVE  l \in LinesIn(Held') \ {0} <=> l \in 1 .. lines' \ dropped'
    BY <1>2, <1>6, <2>1, HeldLines
  <2> QED BY <2>2
<1> QED BY <1>6, <1>7 DEF LineOrder

\* The thread takes what is full and leaves an empty buffer: a new last place.
LEMMA TakeLines ==
    ASSUME LineInv, LoggerInv', pc \in {"lock", "waiting"}, TakeBuffers, pc' = "write",
           signalled' \in BOOLEAN, UNCHANGED <<lines, written, file, dropped, running, owner>>
    PROVE  LineTypes' /\ LineOrder'
<1>1. newBuffer1 = <<Empty>> /\ newBuffer2 = <<Empty>> /\ bufferToWrite = << >> /\ written = 0
  BY DEF LineInv, LineTypes, LoggerInv, SpareInv
<1>2. /\ bufferToWrite' = Append(buffers, currentBuffer) /\ buffers' = << >>
      /\ currentBuffer' = << >> /\ newBuffer1' = Null
      /\ nextBuffer' \in {nextBuffer, newBuffer2} /\ newBuffer2' \in {newBuffer2, Null}
  BY <1>1 DEF TakeBuffers, Empty
<1>3. /\ buffers \in Seq(Seq(Lines)) /\ currentBuffer \in Seq(Lines) /\ Len(buffers) \in Nat
      /\ Len(currentBuffer) < BufferSize /\ \A b \in Contents(buffers) : Len(b) < BufferSize
  BY DEF LineInv, LineTypes, TypeOK
<1>4. /\ bufferToWrite' \in Seq(Seq(Lines)) /\ Len(bufferToWrite') = Len(buffers) + 1
      /\ DOMAIN bufferToWrite' = 1 .. Len(buffers) + 1
      /\ bufferToWrite'[Len(buffers) + 1] = currentBuffer
      /\ DOMAIN buffers = 1 .. Len(buffers)
  BY <1>2, <1>3
<1>5. \A i \in 1 .. Len(buffers) : bufferToWrite'[i] = buffers[i]
  BY <1>2, <1>3
<1>6. LineTypes'
  <2>1. \A b \in Contents(bufferToWrite') : Len(b) < BufferSize
    <3> SUFFICES ASSUME NEW i \in 1 .. Len(buffers) + 1 PROVE Len(bufferToWrite'[i]) < BufferSize
      BY <1>4 DEF Contents
    <3>1. CASE i = Len(buffers) + 1
      BY <1>3, <1>4, <3>1
    <3>2. CASE i \in 1 .. Len(buffers)
      <4>1. buffers[i] \in Contents(buffers) /\ bufferToWrite'[i] = buffers[i]
        BY <1>4, <1>5, <3>2 DEF Contents
      <4> QED BY <1>3, <4>1
    <3> QED BY <1>3, <3>1, <3>2
  <2>2. << >> \in Seq(Lines) /\ << >> \in Seq(Seq(Lines)) /\ Len(<< >>) = 0 /\ DOMAIN << >> = {}
    OBVIOUS
  <2>3. Contents(buffers') = {} /\ Len(currentBuffer') < BufferSize /\ BufferSize \in Nat
    BY <1>2, <2>2, SizesAssumption DEF Contents
  <2>4. \A q \in {nextBuffer, newBuffer1, newBuffer2} : q = Null \/ (Len(q) = 1 /\ q[1] \in Seq(Lines))
    BY DEF LineInv, LineTypes, TypeOK
  <2>5. \A q \in {nextBuffer', newBuffer1', newBuffer2'} : q = Null \/ (Len(q) = 1 /\ q[1] \in Seq(Lines))
    BY <1>2, <2>4
  <2>6. written' = 0 /\ written' \in 0 .. Len(bufferToWrite')
    BY <1>1, <1>3, <1>4
  <2>7. TypeOK'
    <3>1. /\ currentBuffer' \in Seq(Lines) /\ buffers' \in Seq(Seq(Lines))
          /\ bufferToWrite' \in Seq(Seq(Lines))
      BY <1>2, <1>4, <2>2
    <3> QED BY <2>1, <2>3, <2>5, <2>6, <3>1 DEF TypeOK, LineInv, LineTypes
  <2> QED BY <2>3, <2>6, <2>7 DEF LineTypes, LineInv
<1>7. LineOrder'
  <2> DEFINE h == Held
             g == Held'
  <2>1. /\ h \in Places /\ Len(h) = Len(buffers) + 2 /\ h[1] = file
        /\ h[Len(buffers) + 2] = currentBuffer
        /\ \A i \in 1 .. Len(buffers) : h[1 + i] = buffers[i]
    <3>1. PlacesOf(Held, file, bufferToWrite, written, buffers, currentBuffer)
      BY HeldAre DEF LineInv, LineTypes
    <3> DEFINE n == Len(bufferToWrite) - written
    <3>2. n = 0 /\ n + Len(buffers) + 2 = Len(buffers) + 2 /\ n + 1 = 1
      BY <1>1, <1>3
    <3>3. /\ h \in Places /\ Len(h) = n + Len(buffers) + 2 /\ h[1] = file
          /\ h[n + Len(buffers) + 2] = currentBuffer
          /\ \A i \in 1 .. Len(buffers) : h[n + 1 + i] = buffers[i]
      BY <3>1 DEF PlacesOf
    <3> HIDE DEF n, h
    <3> QED BY <3>2, <3>3
  <2>2. /\ g \in Places /\ Len(g) = Len(buffers) + 3 /\ g[1] = file
        /\ g[Len(buffers) + 3] = << >>
        /\ \A i \in 1 .. Len(buffers) + 1 : g[i + 1] = bufferToWrite'[i]
    <3>1. PlacesOf(Held', file', bufferToWrite', written', buffers', currentBuffer')
      BY <1>6, HeldAreNext DEF LineTypes
    <3>2. Len(bufferToWrite') - written' = Len(buffers) + 1 /\ Len(buffers') = 0 /\ written' = 0
      BY <1>1, <1>2, <1>3, <1>4
    <3> QED BY <1>2, <1>3, <3>1, <3>2 DEF PlacesOf
  <2> HIDE DEF g, h
  <2>3. ASSUME NEW i \in 1 .. Len(h) PROVE g[i] = h[i]
    <3>1. CASE i = 1
      BY <2>1, <2>2, <3>1
    <3>2. CASE i - 1 \in 1 .. Len(buffers)
      <4>1. g[(i - 1) + 1] = bufferToWrite'[i - 1] /\ h[1 + (i - 1)] = buffers[i - 1]
        <5>1. i - 1 \in 1 .. Len(buffers) + 1
          BY <1>3, <3>2
        <5>2. g[(i - 1) + 1] = bufferToWrite'[i - 1]
          BY <2>2, <5>1
        <5>3. h[1 + (i - 1)] = buffers[i - 1]
          BY <2>1, <3>2
        <5> QED BY <5>2, <5>3
      <4>2. (i - 1) + 1 = i /\ 1 + (i - 1) = i
        OBVIOUS
      <4> QED BY <1>5, <3>2, <4>1, <4>2
    <3>3. CASE i = Len(h)
      <4>1. i = (Len(buffers) + 1) + 1 /\ Len(buffers) + 1 \in 1 .. Len(buffers) + 1
        BY <1>3, <2>1, <3>3
      <4>2. g[(Len(buffers) + 1) + 1] = bufferToWrite'[Len(buffers) + 1]
        BY <2>2, <4>1
      <4> QED BY <1>4, <2>1, <3>3, <4>1, <4>2
    <3> QED BY <1>3, <2>1, <3>1, <3>2, <3>3
  <2>4. Ordered(h)
    BY DEF h, LineInv, LineOrder
  <2>5. Len(g) = Len(h) + 1 /\ g[Len(h) + 1] = << >>
    BY <1>3, <2>1, <2>2
  <2>6. Ordered(g) /\ LinesIn(g) = LinesIn(h)
    BY <2>1, <2>2, <2>3, <2>4, <2>5, EmptyPlace
  <2> QED BY <2>6 DEF LineOrder, LineInv, g, h
<1> QED BY <1>6, <1>7

\* A buffer is appended to the file: two places become one.
LEMMA WriteLines ==
    ASSUME LineInv, LoggerInv', AppendBuffer
    PROVE  LineTypes' /\ LineOrder'
<1> DEFINE n == Len(bufferToWrite) - written
           b == bufferToWrite[written + 1]
<1>1. /\ pc = "append" /\ written < Len(bufferToWrite) /\ written' = written + 1
      /\ file' = file \o b
      /\ UNCHANGED <<front, newBuffer1, newBuffer2, bufferToWrite, dropped, running, pc,
                     signalled, owner>>
  BY DEF AppendBuffer
<1>2. /\ bufferToWrite \in Seq(Seq(Lines)) /\ written \in 0 .. Len(bufferToWrite)
      /\ Len(bufferToWrite) \in Nat /\ file \in Seq(0 .. MaxLines) /\ Len(buffers) \in Nat
  BY DEF LineInv, LineTypes, TypeOK
<1>3. b \in Seq(Lines) /\ b \in Seq(0 .. MaxLines)
  <2>1. written + 1 \in 1 .. Len(bufferToWrite)
    BY <1>1, <1>2
  <2>2. b \in Seq(Lines)
    BY <1>2, <2>1
  <2> HIDE DEF b
  <2>3. b \in Seq(0 .. MaxLines)
    BY <2>2, SizesAssumption DEF Lines
  <2> QED BY <2>2, <2>3
<1> HIDE DEF b
<1>4. file' \in Seq(0 .. MaxLines) /\ Joins(file', file, b)
  <2>1. /\ file' \in Seq(0 .. MaxLines) /\ DOMAIN file' = 1 .. Len(file) + Len(b)
        /\ \A i \in 1 .. Len(file) : file'[i] = file[i]
        /\ \A i \in 1 .. Len(b) : file'[Len(file) + i] = b[i]
    BY <1>1, <1>2, <1>3, Joined
  <2> QED BY <2>1 DEF Joins
<1>5. LineTypes'
  <2>1. written' \in 0 .. Len(bufferToWrite)
    BY <1>1, <1>2
  <2> QED BY <1>1, <1>4, <2>1 DEF LineTypes, TypeOK, front, LineInv
<1>6. LineOrder'
  <2> DEFINE h == Held
             g == Held'
  <2>1. /\ h \in Places /\ Len(h) = n + Len(buffers) + 2 /\ h[1] = file
        /\ h[n + Len(buffers) + 2] = currentBuffer
        /\ \A i \in 1 .. n : h[i + 1] = bufferToWrite[written + i]
        /\ \A i \in 1 .. Len(buffers) : h[n + 1 + i] = buffers[i]
    BY HeldAre DEF LineInv, LineTypes, PlacesOf
  <2>2. /\ g \in Places /\ Len(g) = n + Len(buffers) + 1 /\ g[1] = file'
        /\ g[n + Len(buffers) + 1] = currentBuffer
        /\ \A i \in 1 .. n - 1 : g[i + 1] = bufferToWrite[written + 1 + i]
        /\ \A i \in 1 .. Len(buffers) : g[n + i] = buffers[i]
    <3>1. PlacesOf(Held', file', bufferToWrite', written', buffers', currentBuffer')
      BY <1>5, HeldAreNext DEF LineTypes
    <3>2. Len(bufferToWrite') - written' = n - 1 /\ n - 1 + 1 = n
      BY <1>1, <1>2
    <3>3. buffers' = buffers /\ currentBuffer' = currentBuffer /\ bufferToWrite' = bufferToWrite
      BY <1>1 DEF front
    <3>4. n - 1 + Len(buffers) + 2 = n + Len(buffers) + 1
      BY <1>2
    <3> HIDE DEF n
    <3> QED BY <1>1, <3>1, <3>2, <3>3, <3>4 DEF PlacesOf
  <2>3. n \in Nat /\ n >= 1
    BY <1>1, <1>2
  <2> HIDE DEF g, h, n
  <2>4. h[2] = b
    <3>1. h[1 + 1] = bufferToWrite[written + 1]
      BY <2>1, <2>3
    <3> QED BY <3>1 DEF b
  <2>5. Joins(g[1], h[1], h[2])
    BY <1>4, <2>1, <2>2, <2>4
  <2>6. ASSUME NEW i \in 2 .. Len(g) PROVE g[i] = h[i + 1]
    <3>1. CASE i - 1 \in 1 .. n - 1
      <4>1. g[(i - 1) + 1] = bufferToWrite[written + 1 + (i - 1)] /\ i \in 1 .. n
        BY <2>2, <2>3, <3>1
      <4>2. h[i + 1] = bufferToWrite[written + i]
        BY <2>1, <4>1
      <4>3. (i - 1) + 1 = i /\ written + 1 + (i - 1) = written + i
        BY <1>2
      <4> QED BY <4>1, <4>2, <4>3
    <3>2. CASE i - n \in 1 .. Len(buffers)
      <4>1. g[n + (i - n)] = buffers[i - n] /\ h[n + 1 + (i - n)] = buffers[i - n]
        BY <2>1, <2>2, <3>2
      <4>2. n + (i - n) = i /\ n + 1 + (i - n) = i + 1
        BY <2>3
      <4> QED BY <4>1, <4>2
    <3>3. CASE i = Len(g)
      <4>1. i = n + Len(buffers) + 1 /\ i + 1 = n + Len(buffers) + 2
        BY <1>2, <2>2, <2>3, <3>3
      <4> QED BY <2>1, <2>2, <4>1
    <3>4. i - 1 \in 1 .. n - 1 \/ i - n \in 1 .. Len(buffers) \/ i = Len(g)
      <4>1. Len(g) = n + Len(buffers) + 1
        BY <2>2
      <4> QED BY <1>2, <2>3, <4>1
    <3> QED BY <3>1, <3>2, <3>3, <3>4
  <2>7. Len(h) >= 2 /\ Len(g) = Len(h) - 1
    BY <1>2, <2>1, <2>2, <2>3
  <2>8. Ordered(h)
    BY DEF h, LineInv, LineOrder
  <2>9. Ordered(g) /\ LinesIn(g) = LinesIn(h)
    BY <2>1, <2>2, <2>5, <2>6, <2>7, <2>8, JoinPlaces
  <2> QED BY <1>1, <2>9 DEF LineOrder, LineInv, g, h, front
<1> QED BY <1>5, <1>6

\* Buffers are dropped: what is lost is in no other place, since lines get larger.
LEMMA DropLines ==
    ASSUME LineInv, LoggerInv', Discard
    PROVE  LineTypes' /\ LineOrder'
<1> DEFINE n == Len(bufferToWrite)
           k == Len(bufferToWrite')
           p == Len(buffers)
<1>1. /\ pc = "write" /\ bufferToWrite' = Kept(bufferToWrite) /\ written = 0
      /\ dropped' = dropped \cup (LinesIn(bufferToWrite) \ LinesIn(Kept(bufferToWrite)))
      /\ pc' = "append"
      /\ UNCHANGED <<front, newBuffer1, newBuffer2, written, running, signalled, owner>>
  BY DEF Discard, LineInv, LineTypes
<1>2. /\ bufferToWrite \in Seq(Seq(Lines)) /\ n \in Nat /\ p \in Nat
      /\ file \in Seq(0 .. MaxLines) /\ DOMAIN bufferToWrite = 1 .. n
      /\ \A b \in Contents(bufferToWrite) : Len(b) < BufferSize
  BY DEF LineInv, LineTypes, TypeOK
<1>3. /\ bufferToWrite' \in Seq(Seq(Lines)) /\ k \in 0 .. n /\ DOMAIN bufferToWrite' = 1 .. k
      /\ \A i \in 1 .. k : bufferToWrite'[i] = bufferToWrite[i]
  <2>1. CASE bufferToWrite' = bufferToWrite
    BY <1>2, <2>1
  <2>2. CASE n > MaxBuffers /\ bufferToWrite' = SubSeq(bufferToWrite, 1, 2)
    <3>1. n >= 2
      BY <1>2, <2>2, SizesAssumption
    <3>2. /\ SubSeq(bufferToWrite, 1, 2) \in Seq(Seq(Lines)) /\ Len(SubSeq(bufferToWrite, 1, 2)) = 2
          /\ DOMAIN SubSeq(bufferToWrite, 1, 2) = 1 .. 2
          /\ \A i \in 1 .. 2 : SubSeq(bufferToWrite, 1, 2)[i] = bufferToWrite[i]
      BY <1>2, <3>1
    <3> QED BY <1>2, <2>2, <3>1, <3>2
  <2> QED BY <1>1, <2>1, <2>2 DEF Kept, TooMany
<1>4. file' \in {file, Append(file, 0)} /\ file' \in Seq(0 .. MaxLines)
  <2>1. file' \in {file, Append(file, 0)}
    BY DEF Discard
  <2>2. 0 \in 0 .. MaxLines
    BY SizesAssumption
  <2>3. file \in Seq(0 .. MaxLines)
    BY <1>2
  <2>4. Append(file, 0) \in Seq(0 .. MaxLines)
    BY <2>2, <2>3
  <2> QED BY <2>1, <2>3, <2>4
<1> HIDE DEF n, k, p
<1> DEFINE h == Held
           g == Held'
           m == [i \in 1 .. k + p + 2 |-> IF i <= k + 1 THEN i ELSE i + n - k]
<1>5. /\ h \in Places /\ Len(h) = n + p + 2 /\ h[1] = file /\ h[n + p + 2] = currentBuffer
      /\ \A i \in 1 .. n : h[i + 1] = bufferToWrite[i]
      /\ \A i \in 1 .. p : h[n + 1 + i] = buffers[i]
  <2>1. PlacesOf(Held, file, bufferToWrite, written, buffers, currentBuffer)
    BY HeldAre DEF LineInv, LineTypes
  <2>2. Len(bufferToWrite) - written = n /\ Len(buffers) = p /\ \A i \in 1 .. n : written + i = i
    BY <1>1, <1>2 DEF n, p
  <2> QED BY <2>1, <2>2 DEF PlacesOf
<1>6. LineTypes'
  <2>1. \A b \in Contents(bufferToWrite') : Len(b) < BufferSize
    BY <1>2, <1>3 DEF Contents
  <2>2. written' \in 0 .. Len(bufferToWrite')
    BY <1>1, <1>3 DEF k
  <2>3. dropped' \subseteq 1 .. lines
    <3>1. ASSUME NEW l \in LinesIn(bufferToWrite) PROVE l \in 1 .. lines
      <4>1. PICK i \in DOMAIN bufferToWrite : \E j \in DOMAIN bufferToWrite[i] : bufferToWrite[i][j] = l
        BY LinesAre
      <4>2. PICK j \in DOMAIN bufferToWrite[i] : bufferToWrite[i][j] = l
        BY <4>1
      <4>3. h[i + 1] = bufferToWrite[i] /\ i + 1 \in DOMAIN h
        BY <1>2, <1>5 DEF Places
      <4>4. l \in LinesIn(h)
        BY <4>2, <4>3, LinesAre
      <4>5. l # 0
        <5>1. bufferToWrite[i] \in Seq(Lines)
          BY <1>2
        <5>2. bufferToWrite[i][j] \in Lines
          BY <4>2, <5>1
        <5> QED BY <4>2, <5>2 DEF Lines
      <4> QED BY <4>4, <4>5, HeldLines
    <3> QED BY <1>1, <3>1 DEF LineInv, LineTypes
  <2>4. 1 .. lines \subseteq Lines
    BY SizesAssumption DEF LineInv, LineTypes, TypeOK, Lines
  <2> QED BY <1>1, <1>3, <1>4, <2>1, <2>2, <2>3, <2>4 DEF LineInv, LineTypes, TypeOK, front
<1>7. /\ g \in Places /\ Len(g) = k + p + 2 /\ g[1] = file' /\ g[k + p + 2] = currentBuffer
      /\ \A i \in 1 .. k : g[i + 1] = bufferToWrite[i]
      /\ \A i \in 1 .. p : g[k + 1 + i] = buffers[i]
  <2>1. PlacesOf(Held', file', bufferToWrite', written', buffers', currentBuffer')
    BY <1>6, HeldAreNext DEF LineTypes
  <2>2. Len(bufferToWrite') - written' = k /\ \A i \in 1 .. k : written' + i = i
    BY <1>1, <1>3 DEF k
  <2>3. buffers' = buffers /\ currentBuffer' = currentBuffer /\ Len(buffers') = p
    BY <1>1 DEF front, p
  <2> QED BY <1>3, <2>1, <2>2, <2>3, ZenonT(60) DEF PlacesOf
<1> HIDE DEF h, g
<1>8. DOMAIN h = 1 .. n + p + 2 /\ DOMAIN g = 1 .. k + p + 2
  BY <1>5, <1>7 DEF Places
<1>9. /\ m \in [DOMAIN g -> DOMAIN h] /\ m[1] = 1
      /\ \A i, j \in DOMAIN g : i < j => m[i] < m[j]
  BY <1>2, <1>3, <1>8
<1>10. ASSUME NEW i \in DOMAIN g, i # 1 PROVE g[i] = h[m[i]]
  <2>1. i \in 1 .. k + p + 2 /\ k \in Nat
    BY <1>3, <1>8
  <2>2. CASE i - 1 \in 1 .. k
    <3>1. m[i] = i /\ (i - 1) + 1 = i /\ i - 1 \in 1 .. n
      BY <1>2, <1>3, <2>1, <2>2
    <3>2. g[(i - 1) + 1] = bufferToWrite[i - 1] /\ h[(i - 1) + 1] = bufferToWrite[i - 1]
      BY <1>5, <1>7, <2>2, <3>1
    <3> QED BY <3>1, <3>2
  <2>3. CASE i - k - 1 \in 1 .. p
    <3>1. m[i] = n + 1 + (i - k - 1) /\ i = k + 1 + (i - k - 1)
      BY <1>2, <1>3, <2>1, <2>3
    <3>2. g[k + 1 + (i - k - 1)] = buffers[i - k - 1] /\ h[n + 1 + (i - k - 1)] = buffers[i - k - 1]
      BY <1>5, <1>7, <2>3
    <3> HIDE DEF m
    <3> QED BY <3>1, <3>2
  <2>4. CASE i = k + p + 2
    <3>1. m[i] = n + p + 2
      BY <1>2, <1>3, <2>1, <2>4
    <3> HIDE DEF m
    <3> QED BY <1>5, <1>7, <2>4, <3>1
  <2>5. i - 1 \in 1 .. k \/ i - k - 1 \in 1 .. p \/ i = k + p + 2
    <3>1. p \in Nat
      BY <1>2
    <3> HIDE DEF m
    <3> QED BY <1>10, <2>1, <3>1
  <2> QED BY <2>2, <2>3, <2>4, <2>5
<1>11. ASSUME NEW i \in DOMAIN h, \A q \in DOMAIN g : m[q] # i
       PROVE  i - 1 \in 1 .. n /\ i - 1 \notin 1 .. k
  <2>1. CASE i <= k + 1
    <3>1. i \in DOMAIN g /\ m[i] = i
      BY <1>2, <1>3, <1>8, <2>1
    <3> QED BY <1>11, <3>1
  <2>2. CASE i > n + 1
    <3>1. i - (n - k) \in DOMAIN g /\ m[i - (n - k)] = i
      BY <1>2, <1>3, <1>8, <2>2
    <3> QED BY <1>11, <3>1
  <2> QED BY <1>2, <1>3, <1>8, <2>1, <2>2
<1>12. Ordered(h) /\ h # << >> /\ g # << >> /\ g[1] \in {h[1], Append(h[1], 0)}
  <2>1. Ordered(h)
    BY DEF h, LineInv, LineOrder
  <2> QED BY <1>2, <1>3, <1>4, <1>5, <1>7, <2>1 DEF Places
<1> HIDE DEF m
<1>13. /\ Ordered(g)
       /\ \A l : l # 0 => (l \in LinesIn(g) <=> \E i \in DOMAIN g : l \in Contents(h[m[i]]))
  BY <1>5, <1>7, <1>9, <1>10, <1>12, DropPlaces
<1>14. ASSUME NEW l, l # 0
       PROVE  l \in LinesIn(g) <=> l \in LinesIn(h) /\ l \notin dropped'
  <2>1. ASSUME NEW i \in DOMAIN h, l \in Contents(h[i])
        PROVE  l \in LinesIn(h) /\ l \notin dropped
    <3>1. l \in LinesIn(h)
      BY <2>1 DEF LinesIn
    <3> QED BY <1>14, <3>1, HeldLines DEF h
  <2>2. ASSUME NEW i \in DOMAIN h, NEW q \in DOMAIN h, l \in Contents(h[i]), l \in Contents(h[q])
        PROVE  i = q
    <3>1. PICK j \in DOMAIN h[i] : h[i][j] = l
      BY <2>2 DEF Contents
    <3>2. PICK r \in DOMAIN h[q] : h[q][r] = l
      BY <2>2 DEF Contents
    <3>3. i \in Nat /\ q \in Nat /\ l \in Nat
      <4>1. l \in 1 .. lines /\ lines \in Nat
        BY <1>14, <2>1, <2>2, HeldLines DEF h
      <4> QED BY <1>2, <1>8, <4>1
    <3>4. ~(i < q) /\ ~(q < i)
      BY <1>12, <1>14, <3>1, <3>2, <3>3 DEF Ordered
    <3> QED BY <3>3, <3>4
  <2>3. ASSUME l \in LinesIn(g) PROVE l \in LinesIn(h) /\ l \notin dropped'
    <3>1. PICK i \in DOMAIN g : l \in Contents(h[m[i]])
      BY <1>13, <1>14, <2>3
    <3>2. m[i] \in DOMAIN h
      BY <1>9
    <3>3. l \in LinesIn(h) /\ l \notin dropped
      BY <2>1, <3>1, <3>2
    <3>4. ASSUME l \in LinesIn(bufferToWrite) PROVE l \in LinesIn(bufferToWrite')
      <4>1. PICK q \in 1 .. n : l \in Contents(bufferToWrite[q])
        BY <1>2, <3>4 DEF LinesIn
      <4>2. h[q + 1] = bufferToWrite[q] /\ q + 1 \in DOMAIN h
        BY <1>2, <1>5, <1>8
      <4>3. m[i] = q + 1
        BY <2>2, <3>1, <3>2, <4>1, <4>2
      <4>4. q \in 1 .. k
        <5>0. i \in 1 .. k + p + 2
          BY <1>8
        <5>1. m[i] = IF i <= k + 1 THEN i ELSE i + n - k
          BY <5>0 DEF m
        <5> QED BY <1>2, <1>3, <4>3, <5>0, <5>1
      <4>5. bufferToWrite'[q] = bufferToWrite[q] /\ q \in DOMAIN bufferToWrite'
        BY <1>3, <4>4
      <4> QED BY <4>1, <4>5 DEF LinesIn
    <3> QED BY <1>1, <3>3, <3>4
  <2>4. ASSUME l \in LinesIn(h), l \notin dropped' PROVE l \in LinesIn(g)
    <3>1. PICK i \in DOMAIN h : l \in Contents(h[i])
      BY <2>4 DEF LinesIn
    <3>2. CASE \E q \in DOMAIN g : m[q] = i
      BY <1>13, <1>14, <3>1, <3>2
    <3>3. CASE \A q \in DOMAIN g : m[q] # i
      <4>1. i - 1 \in 1 .. n /\ i - 1 \notin 1 .. k
        BY <1>11, <3>3
      <4>2. h[(i - 1) + 1] = bufferToWrite[i - 1] /\ i = (i - 1) + 1
        BY <1>2, <1>5, <1>8, <4>1
      <4>3. l \in LinesIn(bufferToWrite)
        BY <1>2, <3>1, <4>1, <4>2 DEF LinesIn
      <4>4. l \in LinesIn(bufferToWrite')
        BY <1>1, <2>4, <4>3
      <4>5. PICK q \in 1 .. k : l \in Contents(bufferToWrite'[q])
        BY <1>3, <4>4 DEF LinesIn
      <4>6. q \in 1 .. n /\ bufferToWrite'[q] = bufferToWrite[q]
        BY <1>2, <1>3
      <4>7. h[q + 1] = bufferToWrite[q] /\ q + 1 \in DOMAIN h
        BY <1>2, <1>5, <1>8, <4>6
      <4>8. i = q + 1
        BY <2>2, <3>1, <4>5, <4>6, <4>7
      <4> QED BY <1>2, <1>3, <4>1, <4>6, <4>8
    <3> QED BY <3>2, <3>3
  <2> QED BY <2>3, <2>4
<1>15. LinesIn(Held)' \ {0} = 1 .. lines' \ dropped'
  <2>1. lines' = lines /\ dropped \subseteq dropped'
    BY <1>1 DEF front
  <2>2. ASSUME NEW l PROVE l \in LinesIn(g) \ {0} <=> l \in 1 .. lines' \ dropped'
    <3>1. CASE l = 0
      BY <2>1, <3>1, HeldLines
    <3>2. CASE l # 0
      <4>1. l \in LinesIn(h) <=> l \in 1 .. lines /\ l \notin dropped
        BY <3>2, HeldLines DEF h
      <4> QED BY <1>14, <2>1, <3>2, <4>1
    <3> QED BY <3>1, <3>2
  <2> QED BY <2>2 DEF g
<1> QED BY <1>6, <1>13, <1>15 DEF LineOrder, g

\* All buffers have been written; what is handed back is empty.
LEMMA RefillLines ==
    ASSUME LineInv, LoggerInv', Refill
    PROVE  LineTypes' /\ LineOrder'
<1>1. /\ pc = "append" /\ written = Len(bufferToWrite) /\ bufferToWrite' = << >> /\ written' = 0
      /\ UNCHANGED <<front, file, dropped, running, signalled, owner>>
  BY DEF Refill
<1>2. bufferToWrite \in Seq(Seq(Lines))
  BY DEF LineInv, LineTypes, TypeOK
<1>3. Held' = Held
  <2>1. SubSeq(bufferToWrite, written + 1, Len(bufferToWrite)) = << >>
    BY <1>1, <1>2
  <2>2. SubSeq(bufferToWrite', written' + 1, Len(bufferToWrite')) = << >>
    BY <1>1
  <2> QED BY <1>1, <2>1, <2>2 DEF Held, front
<1>4. LineTypes'
  <2>1. << >> \in Seq(Lines) /\ << >> \in Seq(Seq(Lines)) /\ Len(<< >>) = 0 /\ DOMAIN << >> = {}
    OBVIOUS
  <2>2. Contents(bufferToWrite') = {}
    BY <1>1, <2>1 DEF Contents
  <2>3. \A q \in {nextBuffer', newBuffer1', newBuffer2'} : q = Null \/ (Len(q) = 1 /\ q[1] \in Seq(Lines))
    <3>1. \A q \in Spare : q = Null \/ (Len(q) = 1 /\ q[1] \in Seq(Lines))
      <4>1. Len(<<Empty>>) = 1 /\ <<Empty>>[1] \in Seq(Lines)
        BY <2>1 DEF Empty
      <4> QED BY <4>1 DEF Spare
    <3>2. nextBuffer' \in Spare /\ newBuffer1' \in Spare /\ newBuffer2' \in Spare
      BY DEF LoggerInv, TypeInv
    <3> QED BY <3>1, <3>2
  <2>4. pc' \in {"none", "started", "check", "lock", "waiting", "write", "append", "done"}
    BY DEF LoggerInv, SpareInv
  <2>5. TypeOK'
    <3>1. written' \in 0 .. Len(bufferToWrite') /\ bufferToWrite' \in Seq(Seq(Lines))
      BY <1>1, <2>1
    <3> QED BY <1>1, <2>2, <2>3, <2>4, <3>1 DEF TypeOK, LineInv, LineTypes, front
  <2> QED BY <1>1, <2>5 DEF LineTypes, LineInv, front
<1> QED BY <1>1, <1>3, <1>4 DEF LineOrder, LineInv, front

\* Other steps leave the lines where they are.
LEMMA OtherLines ==
    ASSUME LineInv, LoggerInv', UNCHANGED <<front, back>>, pc' = pc \/ pc # "append",
           owner' \in {"new", "starting", "running", "stopping", "joining", "stopped"}
    PROVE  LineTypes' /\ LineOrder'
<1>1. pc' \in {"none", "started", "check", "lock", "waiting", "write", "append", "done"}
      /\ running' \in BOOLEAN /\ signalled' \in BOOLEAN
  BY DEF LoggerInv, TypeInv, SpareInv
<1>2. Held' = Held
  BY DEF Held, front, back
<1> QED BY <1>1, <1>2 DEF LineInv, LineTypes, LineOrder, TypeOK, front, back

\* What was appended is, in order and once, in the file, on its way or in a buffer, or was
\* dropped; for buffers of any size and any number of lines.
THEOREM LinesStayInOrder == Spec => []LinesInOrder
<1>1. LineInv /\ LoggerInv' /\ [Next]_vars => LineInv'
  <2> SUFFICES ASSUME LineInv, LoggerInv', [Next]_vars PROVE LineTypes' /\ LineOrder'
    BY DEF LineInv
  <2>1. CASE AppendLine
    BY <2>1, AppendTypes, AppendOrder
  <2>2. owner \in {"new", "starting", "running", "stopping", "joining", "stopped"}
    BY DEF LineInv, LineTypes, TypeOK
  <2>3. CASE OwnerStep
    BY <2>2, <2>3, OtherLines DEF OwnerStep, Start, StartReturns, Stop, StopNotifies, StopReturns,
       LineInv, LoggerInv, OwnerInv
  <2>4. CASE ThreadStep
    <3>1. CASE Begin \/ CheckRunning \/ Wait
      BY <2>2, <3>1, OtherLines DEF Begin, CheckRunning, Wait
    <3>2. CASE TakeFull \/ WakeUp
      BY <3>2, TakeLines DEF TakeFull, WakeUp, LineInv, LoggerInv, TypeInv
    <3> QED BY <2>4, <3>1, <3>2, DropLines, WriteLines, RefillLines DEF ThreadStep
  <2>5. CASE Stopped \/ UNCHANGED vars
    BY <2>2, <2>5, OtherLines DEF Stopped, vars
  <2> QED BY <2>1, <2>3, <2>4, <2>5 DEF Next
<1>2. LineInv => LinesInOrder
  BY DEF LineInv, LineTypes, LineOrder, LinesInOrder
<1> QED BY <1>1, <1>2, LineInit, LoggerInvariance, PTL DEF Spec

-----------------------------------------------------------------------------
(* With its file and its clock.                                            *)

\* The composition runs as AsyncLogging says: file, clock and lines only follow it.
THEOREM LoggerRefines == LoggerSpec => Spec
<1>1. LoggerInit => Init
  BY DEF LoggerInit
<1>2. [LoggerNext]_loggerVars => [Next]_vars
  <2>1. CASE Log
    BY <2>1 DEF Log, Next
  <2>2. CASE LoggingThread
    BY <2>2 DEF LoggingThread, OpenFile, DiscardBuffers, WriteBuffer, FlushFile, Next, ThreadStep
  <2>3. CASE Owner \/ Tick \/ UNCHANGED loggerVars
    BY <2>3 DEF Owner, Tick, loggerVars, Next
  <2>4. CASE Stopped /\ UNCHANGED <<now, cache, outputFile>>
    BY <2>4 DEF Stopped, Next
  <2> QED BY <2>1, <2>2, <2>3, <2>4 DEF LoggerNext
<1> QED BY <1>1, <1>2, PTL DEF LoggerSpec, Spec

LogFiles == [writtenBytes : Nat, unflushed : Nat, count : Nat, startOfPeriod : Nat,
             lastRoll : Nat, lastFlush : Nat, strays : Nat]

\* The inductive invariant of the log file: appends of a later day are counted.
FileInv ==
    /\ now \in Nat
    /\ outputFile \in LogFiles
    /\ outputFile.strays <= outputFile.count
    /\ outputFile.count < CheckEveryN

\* The fields that an append sets, and those that it leaves.
Appended(f, w, u, k) == [f EXCEPT !.writtenBytes = w, !.unflushed = u, !.strays = k]

LEMMA AppendedFile ==
    ASSUME NEW f \in LogFiles, NEW w \in Nat, NEW u \in Nat, NEW k \in Nat
    PROVE  /\ Appended(f, w, u, k) \in LogFiles
           /\ Appended(f, w, u, k).count = f.count /\ Appended(f, w, u, k).strays = k
           /\ Appended(f, w, u, k).lastRoll = f.lastRoll
           /\ Appended(f, w, u, k).startOfPeriod = f.startOfPeriod
<1> DEFINE g == Appended(f, w, u, k)
<1>0. g = [f EXCEPT !.writtenBytes = w, !.unflushed = u, !.strays = k]
  BY DEF Appended
<1> HIDE DEF g
<1>1. g = [writtenBytes |-> w, unflushed |-> u, count |-> f.count,
           startOfPeriod |-> f.startOfPeriod, lastRoll |-> f.lastRoll,
           lastFlush |-> f.lastFlush, strays |-> k]
  BY <1>0 DEF LogFiles
<1>2. f.count \in Nat /\ f.startOfPeriod \in Nat /\ f.lastRoll \in Nat /\ f.lastFlush \in Nat
  BY DEF LogFiles
<1>3. /\ g \in LogFiles /\ g.count = f.count /\ g.strays = k
      /\ g.lastRoll = f.lastRoll /\ g.startOfPeriod = f.startOfPeriod
  BY <1>1, <1>2 DEF LogFiles
<1> QED BY <1>3 DEF g

\* A file that is rolled is a new one.
LEMMA RollFresh ==
    ASSUME NEW f \in LogFiles, now \in Nat, Period(now) \in Nat, now > f.lastRoll
    PROVE  /\ RollFile(f, now) \in LogFiles
           /\ RollFile(f, now).strays = 0 /\ RollFile(f, now).writtenBytes = 0
           /\ RollFile(f, now).count = f.count /\ RollFile(f, now).lastRoll = now
<1>1. RollFile(f, now) =
        [writtenBytes |-> 0, unflushed |-> 0, count |-> f.count, startOfPeriod |-> Period(now),
         lastRoll |-> now, lastFlush |-> now, strays |-> 0]
  BY DEF RollFile, Flush, LogFiles
<1>2. f.count \in Nat
  BY DEF LogFiles
<1> QED BY <1>1, <1>2 DEF LogFiles

\* What an append does to the file: it is too large afterwards only if it cannot be rolled.
LEMMA AppendKeepsFile ==
    ASSUME FileInv, NEW n \in Nat, outputFile' = AppendUnlocked(outputFile, n, now), now' = now
    PROVE  /\ FileInv'
           /\ outputFile'.writtenBytes > RollSize => now <= outputFile'.lastRoll
<1> DEFINE g == AppendFile(outputFile, n, now)
<1>1. Period(now) \in Nat /\ CheckEveryN \in Nat \ {0} /\ RollSize \in Nat /\ now \in Nat
  BY LogFileAssumption DEF FileInv, Period
<1>2. outputFile \in LogFiles /\ outputFile.strays <= outputFile.count
      /\ outputFile.count < CheckEveryN
  BY DEF FileInv
<1>3. /\ g \in LogFiles
      /\ g.count < CheckEveryN /\ g.strays <= g.count + 1
      /\ g.strays # 0 => Strays(g, now)
  <2> DEFINE k == IF Strays(outputFile, now) THEN outputFile.strays + 1 ELSE 0
             w == outputFile.writtenBytes + n
             u == outputFile.unflushed + n
  <2>1. w \in Nat /\ u \in Nat /\ k \in Nat
    BY <1>2 DEF LogFiles
  <2>2. g = Appended(outputFile, w, u, k)
    BY DEF AppendFile, Appended
  <2> HIDE DEF w, u, k, g
  <2>3. /\ g \in LogFiles
        /\ g.count = outputFile.count /\ g.strays = k
        /\ g.lastRoll = outputFile.lastRoll /\ g.startOfPeriod = outputFile.startOfPeriod
    <3>1. outputFile \in LogFiles
      BY <1>2
    <3>2. /\ Appended(outputFile, w, u, k) \in LogFiles
          /\ Appended(outputFile, w, u, k).count = outputFile.count
          /\ Appended(outputFile, w, u, k).strays = k
          /\ Appended(outputFile, w, u, k).lastRoll = outputFile.lastRoll
          /\ Appended(outputFile, w, u, k).startOfPeriod = outputFile.startOfPeriod
      BY <2>1, <3>1, AppendedFile
    <3> QED BY <2>2, <3>2
  <2>4. outputFile.strays \in Nat /\ outputFile.count \in Nat
    BY <1>2 DEF LogFiles
  <2> QED BY <1>2, <2>3, <2>4 DEF k, Strays
<1> HIDE DEF g
<1>4. CASE Oversize(g, n)
  <2>1. outputFile' = RollFile(g, now)
    BY <1>4 DEF AppendUnlocked, g
  <2>2. CASE now > g.lastRoll
    BY <1>1, <1>3, <2>1, <2>2, RollFresh DEF FileInv, LogFiles
  <2>3. CASE ~(now > g.lastRoll)
    BY <1>1, <1>3, <2>1, <2>3 DEF RollFile, Strays, FileInv, LogFiles
  <2> QED BY <2>2, <2>3
<1>5. CASE ~Oversize(g, n) /\ g.count + 1 < CheckEveryN
  <2>1. outputFile' = [g EXCEPT !.count = g.count + 1]
    BY <1>5 DEF AppendUnlocked, g
  <2> QED BY <1>1, <1>3, <1>5, <2>1 DEF Oversize, FileInv, LogFiles
<1>6. CASE ~Oversize(g, n) /\ ~(g.count + 1 < CheckEveryN)
  <2> DEFINE h == [g EXCEPT !.count = 0]
  <2>1. outputFile' = Checked(h, now)
    BY <1>6 DEF AppendUnlocked, g
  <2>2. /\ h \in LogFiles /\ h.count = 0 /\ h.writtenBytes = g.writtenBytes
        /\ h.strays # 0 => Strays(h, now)
    BY <1>3 DEF Strays, LogFiles
  <2>3. ~(h.writtenBytes > RollSize)
    BY <1>6, <2>2 DEF Oversize
  <2> HIDE DEF h
  <2>4. CASE Strays(h, now)
    <3>1. outputFile' = RollFile(h, now)
      BY <2>1, <2>4 DEF Checked, Strays
    <3> QED BY <1>1, <2>2, <2>4, <3>1, RollFresh DEF Strays, FileInv
  <2>5. CASE ~Strays(h, now) /\ Period(now) # h.startOfPeriod
    <3>1. outputFile' = h
      BY <2>1, <2>5, <1>1, <2>2 DEF Checked, RollFile, Strays, LogFiles
    <3> QED BY <1>1, <2>2, <2>3, <2>5, <3>1 DEF FileInv, LogFiles
  <2>6. CASE Period(now) = h.startOfPeriod
    <3>1. h.strays = 0
      BY <2>2, <2>6 DEF Strays
    <3>2. outputFile' = h \/ outputFile' = Flush([h EXCEPT !.lastFlush = now])
      BY <2>1, <2>6 DEF Checked
    <3>3. /\ outputFile' \in LogFiles /\ outputFile'.strays = 0 /\ outputFile'.count = 0
          /\ outputFile'.writtenBytes = h.writtenBytes
      BY <1>1, <2>2, <3>1, <3>2 DEF Flush, LogFiles
    <3> QED BY <1>1, <2>3, <3>3 DEF FileInv
  <2> QED BY <2>4, <2>5, <2>6
<1> QED BY <1>4, <1>5, <1>6

\* The steps of a logger, as far as they concern its file.
LEMMA FileSteps ==
    ASSUME FileInv, LoggerInv, [LoggerNext]_loggerVars
    PROVE  /\ FileInv'
           /\ outputFile'.writtenBytes > outputFile.writtenBytes
                /\ outputFile'.writtenBytes > RollSize => now <= outputFile'.lastRoll
<1>1. CASE UNCHANGED <<now, outputFile>>
  BY <1>1 DEF FileInv, LogFiles
<1>2. CASE Tick
  BY <1>2 DEF Tick, FileInv, LogFiles
<1>3. CASE LoggingThread
  <2>1. CASE OpenFile
    <3>1. /\ now \in Nat /\ now' = now /\ Period(now) \in Nat
          /\ CheckEveryN \in Nat \ {0} /\ RollSize \in Nat
      BY <1>3, LogFileAssumption DEF LoggingThread, Period, FileInv
    <3>2. NoFile \in LogFiles /\ NoFile.lastRoll = 0 /\ NoFile.count = 0
          /\ NoFile.strays = 0 /\ NoFile.writtenBytes = 0
      BY DEF NoFile, LogFiles
    <3>3. outputFile' = RollFile(NoFile, now)
      BY <2>1 DEF OpenFile, Opened
    <3>4. CASE now > 0
      BY <3>1, <3>2, <3>3, <3>4, RollFresh DEF FileInv
    <3>5. CASE now = 0
      <4>1. outputFile' = NoFile
        BY <3>2, <3>3, <3>5 DEF RollFile
      <4> QED BY <3>1, <3>2, <4>1 DEF FileInv
    <3> QED BY <3>1, <3>4, <3>5
  <2>2. CASE DiscardBuffers
    BY <1>3, <2>2, AppendKeepsFile DEF LoggingThread, DiscardBuffers, FileInv, LogFiles
  <2>3. CASE WriteBuffer
    <3>1. Len(bufferToWrite[written + 1]) \in Nat
      BY <2>3 DEF WriteBuffer, AppendBuffer, LoggerInv, TypeInv, Buffers
    <3> QED BY <1>3, <2>3, <3>1, AppendKeepsFile DEF LoggingThread, WriteBuffer
  <2>4. CASE FlushFile
    BY <1>3, <2>4 DEF LoggingThread, FlushFile, Flush, FileInv, LogFiles
  <2> QED BY <1>1, <1>3, <2>1, <2>2, <2>3, <2>4 DEF LoggingThread
<1> QED BY <1>1, <1>2, <1>3 DEF LoggerNext, Log, Owner, loggerVars

\* The invariants of the logging thread and of its file.
THEOREM FileInvariance == LoggerSpec => [](LoggerInv /\ FileInv)
<1>1. LoggerInit => FileInv
  BY LogFileAssumption DEF LoggerInit, FileInv, NoFile, LogFiles
<1>2. LoggerInv /\ FileInv /\ [LoggerNext]_loggerVars => FileInv'
  BY FileSteps
<1>3. LoggerSpec => []LoggerInv
  BY LoggerRefines, LoggerInvariance
<1> QED BY <1>1, <1>2, <1>3, PTL DEF LoggerSpec

\* For files and days of any length a file is rolled in time: no append leaves it too large
\* if it can be rolled, and fewer than CheckEveryN in a row are of a later day.
THEOREM FileRollsInTime == LoggerSpec => RollsInTime
<1>1. LoggerInv /\ FileInv /\ LoggerInv' /\ FileInv' /\ [LoggerNext]_loggerVars =>
        [/\ outputFile'.writtenBytes > outputFile.writtenBytes
              /\ outputFile'.writtenBytes > RollSize => now <= outputFile'.lastRoll
         /\ outputFile'.strays < CheckEveryN]_outputFile
  <2>1. FileInv' => outputFile'.strays < CheckEveryN
    BY LogFileAssumption DEF FileInv, LogFiles
  <2> QED BY <2>1, FileSteps
<1> QED BY <1>1, FileInvariance, PTL DEF LoggerSpec, RollsInTime

-----------------------------------------------------------------------------
(* What a line says of the time, and how long a wait lasts.                *)

\* What a thread has kept is the text of the second it was made in.
CacheInv ==
    /\ now \in Nat \ {0}
    /\ cache = L!NoTime \/ cache.time = L!TimeText(cache.lastSecond)

\* However the clock runs or is set, and whatever second a thread has kept the text of, a
\* line tells the time at which it is made: this is the second half of LineIsTrue.
THEOREM LinesTellTheTime == LoggerSpec => [](L!FormatTime(cache, now).time = L!TimeText(now))
<1>1. LoggerInit => CacheInv
  BY DEF LoggerInit, CacheInv
<1>2. CacheInv /\ [LoggerNext]_loggerVars => CacheInv'
  <2> SUFFICES ASSUME CacheInv, [LoggerNext]_loggerVars PROVE CacheInv'
    OBVIOUS
  <2>1. CASE Tick
    BY <2>1 DEF Tick, CacheInv
  <2>2. CASE Log
    BY <2>2 DEF Log, CacheInv, L!FormatTime, L!NoTime
  <2>3. CASE UNCHANGED <<now, cache>>
    BY <2>3 DEF CacheInv
  <2> QED BY <2>1, <2>2, <2>3 DEF LoggerNext, LoggingThread, Owner, loggerVars
<1>3. CacheInv => L!FormatTime(cache, now).time = L!TimeText(now)
  BY DEF CacheInv, L!FormatTime, L!NoTime
<1> QED BY <1>1, <1>2, <1>3, PTL DEF LoggerSpec

\* Whole seconds come out of the division, and the rest remains.
LEMMA WholeSeconds ==
    ASSUME NEW n \in Nat \ {0}, NEW k \in Nat, NEW r \in 0 .. n - 1
    PROVE  (r + k * n) \div n = k /\ (r + k * n) % n = r
<1> DEFINE q == (r + k * n) \div n
           m == (r + k * n) % n
<1>1. k * n \in Nat
  OBVIOUS
<1>2. q \in Int /\ m \in 0 .. n - 1 /\ r + k * n = n * q + m
  BY <1>1
<1> HIDE DEF q, m
<1>3. n * (k - q) = m - r
  BY <1>2
<1>4. ~(k - q >= 1)
  <2> SUFFICES ASSUME k - q >= 1 PROVE FALSE
    OBVIOUS
  <2>1. n * (k - q) >= n
    BY <1>2
  <2> QED BY <1>2, <1>3, <2>1
<1>5. ~(q - k >= 1)
  <2> SUFFICES ASSUME q - k >= 1 PROVE FALSE
    OBVIOUS
  <2>1. n * (q - k) >= n
    BY <1>2
  <2>2. n * (q - k) = r - m
    BY <1>2
  <2> QED BY <1>2, <2>1, <2>2
<1>6. q = k
  BY <1>2, <1>4, <1>5
<1>7. m = r
  BY <1>2, <1>3, <1>6
<1> QED BY <1>6, <1>7 DEF q, m

\* For any number of seconds and any grain of the clock, a wait lasts less than a second more
\* than was asked for, or is refused and over at once.
THEOREM WaitsLastAsAsked == LoggerSpec => []DeadlineHolds
<1>1. FileInv => DeadlineHolds
  <2> SUFFICES ASSUME FileInv, NEW nsec \in 0 .. Nano - 1
      PROVE  LET t == Deadline([sec |-> now, nsec |-> nsec], WaitSeconds)
             IN  IF Valid(t)
                 THEN (t.sec - now - WaitSeconds) * Nano + t.nsec - nsec \in 0 .. Nano - 1
                 ELSE 2 * nsec >= Nano
    BY DEF DeadlineHolds
  <2> DEFINE t == Deadline([sec |-> now, nsec |-> nsec], WaitSeconds)
  <2>1. now \in Nat /\ Nano \in Nat \ {0} /\ WaitSeconds \in Nat
    BY WaitAssumption DEF FileInv
  <2>2. t.sec = now + WaitSeconds /\ t.nsec = 2 * nsec
    <3>1. /\ (nsec + WaitSeconds * Nano) \div Nano = WaitSeconds
          /\ (nsec + WaitSeconds * Nano) % Nano = nsec
      BY <2>1, WholeSeconds
    <3>2. /\ t.sec = now + ((nsec + WaitSeconds * Nano) \div Nano)
          /\ t.nsec = nsec + ((nsec + WaitSeconds * Nano) % Nano)
      BY DEF Deadline
    <3> QED BY <3>1, <3>2
  <2> HIDE DEF t
  <2>3. (t.sec - now - WaitSeconds) * Nano = 0
    BY <2>1, <2>2
  <2>4. IF Valid(t)
        THEN (t.sec - now - WaitSeconds) * Nano + t.nsec - nsec \in 0 .. Nano - 1
        ELSE 2 * nsec >= Nano
    BY <2>1, <2>2, <2>3 DEF Valid
  <2> QED BY <2>4 DEF t
<1> QED BY <1>1, FileInvariance, PTL
=============================================================================
