-------------------------- MODULE HttpServerProofs --------------------------
(***************************************************************************)
(* For any tokens, any scripts of requests and any replies of the          *)
(* callback: a request is parsed whole however the stream is cut, it is    *)
(* answered as soon as its last byte has come, answers stay in order, and  *)
(* a client that reads them finds each with its body.                      *)
(*                                                                         *)
(* The lemmas go from texts to lines (where the parser splits them), from  *)
(* lines to the stream (where each stands in it) and from there to the     *)
(* invariant, which says how far the parser has come.  Those on answers    *)
(* go from the digits of a length to the lines of an answer, and on to     *)
(* what a client finds in it.  Where a fact is about sequences of any      *)
(* length, or about any number, it is shown for the least one at which it  *)
(* could fail.                                                             *)
(***************************************************************************)
EXTENDS HttpServer, SequenceTheorems, FiniteSetTheorems, WellFoundedInduction, TLAPS

-----------------------------------------------------------------------------
(* Sequences.                                                              *)

\* A slice of a sequence, index by index.
LEMMA SliceIs ==
    ASSUME NEW S, NEW s \in Seq(S), NEW r \in Nat, NEW w \in Nat, r <= w, w <= Len(s)
    PROVE  /\ SubSeq(s, r + 1, w) \in Seq(S)
           /\ Len(SubSeq(s, r + 1, w)) = w - r
           /\ \A i \in 1 .. w - r : SubSeq(s, r + 1, w)[i] = s[r + i]
OBVIOUS

\* What is left of a slice when its first n elements are taken.
LEMMA SliceOfSlice ==
    ASSUME NEW S, NEW s \in Seq(S), NEW a \in Nat, NEW b \in Nat, a <= b, b <= Len(s),
           NEW n \in 0 .. b - a, NEW m, m = b - a
    PROVE  SubSeq(SubSeq(s, a + 1, b), n + 1, m) = SubSeq(s, (a + n) + 1, b)
<1> DEFINE f == SubSeq(s, a + 1, b)
           g == SubSeq(f, n + 1, m)
           h == SubSeq(s, (a + n) + 1, b)
<1>1. f \in Seq(S) /\ Len(f) = m /\ \A i \in 1 .. m : f[i] = s[a + i]
  BY SliceIs
<1>2. n \in Nat /\ m \in Nat /\ n <= m /\ a + n \in Nat /\ a + n <= b /\ b - (a + n) = m - n
  OBVIOUS
<1>3. h \in Seq(S) /\ Len(h) = m - n /\ \A i \in 1 .. m - n : h[i] = s[(a + n) + i]
  BY <1>2, SliceIs
<1> HIDE DEF f, h
<1>4. g \in Seq(S) /\ Len(g) = m - n /\ \A i \in 1 .. m - n : g[i] = f[n + i]
  BY <1>1, <1>2, SliceIs
<1> HIDE DEF g
<1>5. ASSUME NEW i \in 1 .. m - n PROVE g[i] = h[i]
  <2>1. n + i \in 1 .. m /\ a + (n + i) = (a + n) + i
    BY <1>2
  <2> QED BY <1>1, <1>3, <1>4, <2>1
<1> QED BY <1>3, <1>4, <1>5, SeqEqual DEF f, g, h

\* Two sequences one after the other, index by index.
LEMMA ConcatIs ==
    ASSUME NEW S, NEW s \in Seq(S), NEW t \in Seq(S)
    PROVE  /\ s \o t \in Seq(S) /\ Len(s \o t) = Len(s) + Len(t)
           /\ Len(s) \in Nat /\ Len(t) \in Nat
           /\ \A i \in 1 .. Len(s) : (s \o t)[i] = s[i]
           /\ \A i \in 1 .. Len(t) : (s \o t)[Len(s) + i] = t[i]
OBVIOUS

\* The same of a name for what is put together, which the provers take as it is.
IsConcat(c, s, t) == c = s \o t

\* The same of a name for them.
LEMMA IsConcatIs ==
    ASSUME NEW S, NEW s \in Seq(S), NEW t \in Seq(S), NEW c, IsConcat(c, s, t)
    PROVE  /\ c \in Seq(S) /\ Len(c) = Len(s) + Len(t)
           /\ Len(s) \in Nat /\ Len(t) \in Nat
           /\ \A i \in 1 .. Len(s) : c[i] = s[i]
           /\ \A i \in 1 .. Len(t) : c[Len(s) + i] = t[i]
BY ConcatIs DEF IsConcat

-----------------------------------------------------------------------------
(* Sequences of texts put together.                                        *)

\* A set of natural numbers has a least one.
LEMMA LeastExists ==
    ASSUME NEW S \in SUBSET Nat, S # {}
    PROVE  \E m \in S : \A n \in S : m <= n
<1>1. IsWellFoundedOn(OpToRel(<, Nat), Nat)
  BY NatLessThanWellFounded
<1>2. PICK m \in S : \A n \in S : ~(<<n, m>> \in OpToRel(<, Nat))
  BY <1>1, WFMin
<1>3. \A n \in S : ~(n < m)
  BY <1>2 DEF OpToRel
<1> QED BY <1>3

\* g puts the first n texts of s together, one by one.
Joins(g, s, n) == g = [i \in 1 .. n |-> IF i = 1 THEN s[i] ELSE g[i - 1] \o s[i]]

\* What g holds at i, read off.
LEMMA JoinsOne ==
    ASSUME NEW g, NEW s, NEW n \in Nat, Joins(g, s, n)
    PROVE  \A i \in 1 .. n : g[i] = IF i = 1 THEN s[i] ELSE g[i - 1] \o s[i]
BY DEF Joins

\* Such partial results exist, up to any length.
LEMMA JoinsExists ==
    ASSUME NEW s, NEW n \in Nat
    PROVE  \E g : Joins(g, s, n)
<1> DEFINE Bad == {k \in Nat : ~\E g : Joins(g, s, k)}
<1> SUFFICES ASSUME Bad # {} PROVE FALSE
  OBVIOUS
<1>1. PICK k \in Bad : \A m \in Bad : k <= m
  BY LeastExists
<1>2. CASE k = 0
  <2>1. Joins([i \in 1 .. 0 |-> 0], s, 0)
    BY DEF Joins
  <2> QED BY <1>2, <2>1
<1>3. CASE k > 0
  <2>1. k - 1 \in Nat /\ k - 1 \notin Bad
    BY <1>1, <1>3
  <2>2. PICK g : Joins(g, s, k - 1)
    BY <2>1
  <2> DEFINE h == [i \in 1 .. k |-> IF i < k THEN g[i] ELSE IF i = 1 THEN s[i] ELSE g[i - 1] \o s[i]]
  <2>3. \A i \in 1 .. k : h[i] = IF i = 1 THEN s[i] ELSE h[i - 1] \o s[i]
    <3> SUFFICES ASSUME NEW i \in 1 .. k
                 PROVE  h[i] = IF i = 1 THEN s[i] ELSE h[i - 1] \o s[i]
      OBVIOUS
    <3>1. CASE i < k
      <4>1. i \in 1 .. k - 1 /\ (i # 1 => i - 1 \in 1 .. k /\ i - 1 < k)
        BY <1>3, <2>1, <3>1
      <4>2. g[i] = IF i = 1 THEN s[i] ELSE g[i - 1] \o s[i]
        BY <2>1, <2>2, <4>1, JoinsOne
      <4> QED BY <3>1, <4>1, <4>2
    <3>2. CASE i = k
      <4>1. i # 1 => i - 1 \in 1 .. k /\ i - 1 < k
        BY <1>3, <2>1, <3>2
      <4> QED BY <3>2, <4>1
    <3> QED BY <3>1, <3>2
  <2>4. Joins(h, s, k)
    <3> DEFINE f == [i \in 1 .. k |-> IF i = 1 THEN s[i] ELSE h[i - 1] \o s[i]]
    <3>1. DOMAIN h = 1 .. k /\ DOMAIN f = 1 .. k /\ h = [i \in 1 .. k |-> h[i]]
      OBVIOUS
    <3>2. f = [i \in 1 .. k |-> h[i]]
      BY <2>3, ZenonT(60)
    <3> QED BY <3>1, <3>2 DEF Joins
  <2> QED BY <1>1, <2>4
<1> QED BY <1>1, <1>2, <1>3

\* Sequences that begin alike are put together alike.
LEMMA JoinsAlike ==
    ASSUME NEW s, NEW t, NEW g, NEW h, NEW n \in Nat, NEW m \in Nat, NEW k \in 1 .. n, k <= m,
           Joins(g, s, n), Joins(h, t, m), \A i \in 1 .. k : s[i] = t[i]
    PROVE  g[k] = h[k]
<1> DEFINE Bad == {i \in 1 .. k : g[i] # h[i]}
<1> SUFFICES ASSUME Bad # {} PROVE FALSE
  OBVIOUS
<1>0. Bad \in SUBSET Nat
  OBVIOUS
<1>1. PICK i \in Bad : \A j \in Bad : i <= j
  BY <1>0, LeastExists
<1>2. /\ g[i] = IF i = 1 THEN s[i] ELSE g[i - 1] \o s[i]
      /\ h[i] = IF i = 1 THEN t[i] ELSE h[i - 1] \o t[i]
  <2>1. i \in 1 .. n /\ i \in 1 .. m
    OBVIOUS
  <2> QED BY <2>1, JoinsOne
<1>3. i # 1 => g[i - 1] = h[i - 1]
  <2>1. i # 1 => i - 1 \in 1 .. k /\ i - 1 \notin Bad
    BY <1>1
  <2> QED BY <2>1
<1> QED BY <1>2, <1>3

\* FlattenSeq computes the last of them.
LEMMA FlattenIs ==
    ASSUME NEW s, Len(s) \in Nat \ {0}, NEW g, Joins(g, s, Len(s))
    PROVE  FlattenSeq(s) = g[Len(s)]
<1> DEFINE flatten == CHOOSE f : Joins(f, s, Len(s))
<1>1. Joins(flatten, s, Len(s))
  OBVIOUS
<1>2. FlattenSeq(s) = flatten[Len(s)]
  BY DEF FlattenSeq, Joins
<1> QED BY <1>1, <1>2, JoinsAlike

\* The first n texts of s, put together.
UpTo(s, n) == FlattenSeq(SubSeq(s, 1, n))

\* The first n elements of a sequence.
LEMMA FirstOf ==
    ASSUME NEW S, NEW s \in Seq(S), NEW n \in 0 .. Len(s)
    PROVE  /\ Len(s) \in Nat /\ n \in Nat
           /\ SubSeq(s, 1, n) \in Seq(S) /\ Len(SubSeq(s, 1, n)) = n
           /\ \A i \in 1 .. n : SubSeq(s, 1, n)[i] = s[i]
<1>1. Len(s) \in Nat /\ n \in Nat /\ \A i \in 1 .. n : s[i] \in S
  BY LenProperties
<1> QED BY <1>1, SubSeqProperties

\* No parts put together are nothing.
LEMMA UpToNone ==
    ASSUME NEW s
    PROVE  UpTo(s, 0) = << >>
<1>1. SubSeq(s, 1, 0) = << >> /\ Len(<< >>) = 0
  BY SubSeqEmpty
<1> QED BY <1>1 DEF UpTo, FlattenSeq

\* The first n parts put together are the n-th partial result.
LEMMA UpToJoins ==
    ASSUME NEW S, NEW s \in Seq(S), NEW n \in 1 .. Len(s), NEW g, Joins(g, s, Len(s))
    PROVE  UpTo(s, n) = g[n]
<1>1. n \in 0 .. Len(s) /\ Len(s) \in Nat
  BY LenProperties
<1> DEFINE t == SubSeq(s, 1, n)
<1>2. Len(t) = n /\ n \in Nat \ {0} /\ \A i \in 1 .. n : t[i] = s[i]
  BY <1>1, FirstOf
<1> HIDE DEF t
<1>3. PICK h : Joins(h, t, n)
  BY <1>2, JoinsExists
<1>4. FlattenSeq(t) = h[n]
  BY <1>2, <1>3, FlattenIs
<1>5. h[n] = g[n]
  BY <1>1, <1>2, <1>3, JoinsAlike
<1> QED BY <1>4, <1>5 DEF UpTo, t

\* One more part comes after those before it.
LEMMA UpToNext ==
    ASSUME NEW T, NEW s \in Seq(Seq(T)), NEW n \in 0 .. Len(s) - 1
    PROVE  UpTo(s, n + 1) = UpTo(s, n) \o s[n + 1]
<1>1. Len(s) \in Nat /\ n + 1 \in 1 .. Len(s) /\ s[n + 1] \in Seq(T)
  BY LenProperties
<1>2. PICK g : Joins(g, s, Len(s))
  BY <1>1, JoinsExists
<1>3. UpTo(s, n + 1) = g[n + 1]
  BY <1>1, <1>2, UpToJoins
<1>4. g[n + 1] = IF n + 1 = 1 THEN s[n + 1] ELSE g[n + 1 - 1] \o s[n + 1]
  BY <1>1, <1>2, JoinsOne
<1>5. CASE n = 0
  BY <1>1, <1>3, <1>4, <1>5, UpToNone, ConcatEmptySeq
<1>6. CASE n # 0
  <2>1. n \in 1 .. Len(s) /\ n + 1 - 1 = n
    BY <1>1, <1>6
  <2>2. UpTo(s, n) = g[n]
    BY <1>2, <2>1, UpToJoins
  <2>3. n + 1 # 1
    BY <1>1, <1>6
  <2> QED BY <1>3, <1>4, <2>1, <2>2, <2>3
<1> QED BY <1>5, <1>6

\* What is put together has the elements of its parts.
LEMMA UpToTyped ==
    ASSUME NEW T, NEW s \in Seq(Seq(T)), NEW n \in 0 .. Len(s)
    PROVE  UpTo(s, n) \in Seq(T) /\ Len(UpTo(s, n)) \in Nat
<1> DEFINE Bad == {k \in 0 .. Len(s) : UpTo(s, k) \notin Seq(T)}
<1>0. Len(s) \in Nat
  BY LenProperties
<1>1. SUFFICES ASSUME Bad # {} PROVE FALSE
  BY <1>0, LenProperties
<1>2. Bad \in SUBSET Nat
  BY <1>0
<1>3. PICK k \in Bad : \A m \in Bad : k <= m
  BY <1>1, <1>2, LeastExists
<1>4. CASE k = 0
  BY <1>3, <1>4, UpToNone, EmptySeq
<1>5. CASE k # 0
  <2>1. k - 1 \in 0 .. Len(s) /\ k - 1 \notin Bad /\ k - 1 \in 0 .. Len(s) - 1 /\ k \in 1 .. Len(s)
    BY <1>0, <1>3, <1>5
  <2>2. UpTo(s, k) = UpTo(s, k - 1) \o s[k]
    <3>1. (k - 1) + 1 = k
      BY <2>1
    <3> QED BY <2>1, <3>1, UpToNext
  <2>3. s[k] \in Seq(T)
    BY <2>1
  <2> QED BY <1>3, <2>1, <2>2, <2>3, ConcatProperties
<1> QED BY <1>4, <1>5

\* What is put together first comes first in the whole.
LEMMA UpToBegins ==
    ASSUME NEW T, NEW s \in Seq(Seq(T)), NEW n \in 0 .. Len(s), NEW m \in n .. Len(s)
    PROVE  \E rest \in Seq(T) : UpTo(s, m) = UpTo(s, n) \o rest
<1> DEFINE Bad == {k \in n .. Len(s) : ~\E rest \in Seq(T) : UpTo(s, k) = UpTo(s, n) \o rest}
<1>0. Len(s) \in Nat /\ n \in Nat
  BY LenProperties
<1>1. SUFFICES ASSUME Bad # {} PROVE FALSE
  OBVIOUS
<1>2. Bad \in SUBSET Nat
  BY <1>0
<1>3. PICK k \in Bad : \A i \in Bad : k <= i
  BY <1>1, <1>2, LeastExists
<1>4. UpTo(s, n) \in Seq(T)
  BY UpToTyped
<1>5. CASE k = n
  <2>1. UpTo(s, n) = UpTo(s, n) \o << >> /\ << >> \in Seq(T)
    BY <1>4, ConcatEmptySeq, EmptySeq
  <2> QED BY <1>3, <1>5, <2>1
<1>6. CASE k # n
  <2>0. k - 1 \in n .. Len(s) /\ k - 1 \in 0 .. Len(s) - 1 /\ k \in 1 .. Len(s) /\ ~(k <= k - 1)
    BY <1>0, <1>6
  <2>1. k - 1 \notin Bad
    BY <1>3, <2>0
  <2>2. PICK rest \in Seq(T) : UpTo(s, k - 1) = UpTo(s, n) \o rest
    BY <2>0, <2>1
  <2>3. UpTo(s, k) = UpTo(s, k - 1) \o s[k]
    <3>1. (k - 1) + 1 = k
      BY <2>0
    <3> QED BY <2>0, <3>1, UpToNext
  <2>4. s[k] \in Seq(T)
    BY <2>0
  <2>5. rest \o s[k] \in Seq(T)
    BY <2>2, <2>4, ConcatProperties
  <2>6. (UpTo(s, n) \o rest) \o s[k] = UpTo(s, n) \o (rest \o s[k])
    <3> HIDE DEF Bad
    <3> DEFINE a == UpTo(s, n)
               b == s[k]
    <3>1. a \in Seq(T) /\ b \in Seq(T) /\ rest \in Seq(T)
      BY <1>4, <2>2, <2>4
    <3> HIDE DEF a, b
    <3>2. (a \o rest) \o b = a \o (rest \o b)
      BY <3>1, ConcatAssociative, SMTT(30)
    <3> QED BY <3>2 DEF a, b
  <2> QED BY <1>3, <2>2, <2>3, <2>5, <2>6
<1> QED BY <1>5, <1>6

\* A part of the whole, where it stands.
LEMMA UpToPart ==
    ASSUME NEW T, NEW s \in Seq(Seq(T)), NEW n \in 0 .. Len(s) - 1, NEW m \in n + 1 .. Len(s)
    PROVE  /\ Len(UpTo(s, n)) \in Nat /\ Len(UpTo(s, n + 1)) = Len(UpTo(s, n)) + Len(s[n + 1])
           /\ Len(UpTo(s, n + 1)) <= Len(UpTo(s, m))
           /\ \A i \in 1 .. Len(UpTo(s, n)) : UpTo(s, m)[i] = UpTo(s, n)[i]
           /\ \A i \in 1 .. Len(s[n + 1]) : UpTo(s, m)[Len(UpTo(s, n)) + i] = s[n + 1][i]
<1>0. /\ Len(s) \in Nat /\ n \in Nat /\ n \in 0 .. Len(s) /\ n + 1 \in 0 .. Len(s)
      /\ n + 1 \in 1 .. Len(s) /\ s[n + 1] \in Seq(T)
  BY LenProperties
<1>1. UpTo(s, n) \in Seq(T) /\ UpTo(s, n + 1) \in Seq(T)
  BY <1>0, UpToTyped
<1>2. UpTo(s, n + 1) = UpTo(s, n) \o s[n + 1]
  BY UpToNext
<1>3. PICK rest \in Seq(T) : UpTo(s, m) = UpTo(s, n + 1) \o rest
  BY <1>0, UpToBegins
<1> DEFINE a == UpTo(s, n)
           b == s[n + 1]
           c == UpTo(s, n + 1)
           d == UpTo(s, m)
<1>4. /\ a \in Seq(T) /\ b \in Seq(T) /\ c \in Seq(T) /\ c = a \o b /\ d = c \o rest
      /\ Len(a) \in Nat /\ Len(b) \in Nat /\ Len(rest) \in Nat
  BY <1>0, <1>1, <1>2, <1>3, LenProperties
<1> HIDE DEF a, b, c, d
<1>5. Len(c) = Len(a) + Len(b) /\ \A i \in 1 .. Len(a) + Len(b) : c[i] = IF i <= Len(a) THEN a[i] ELSE b[i - Len(a)]
  BY <1>4, ConcatProperties
<1>6. Len(d) = Len(c) + Len(rest) /\ \A i \in 1 .. Len(c) : d[i] = c[i]
  <2>1. Len(d) = Len(c) + Len(rest) /\ \A i \in 1 .. Len(c) + Len(rest) : d[i] = IF i <= Len(c) THEN c[i] ELSE rest[i - Len(c)]
    BY <1>4, ConcatProperties
  <2> QED BY <1>4, <1>5, <2>1
<1>7. \A i \in 1 .. Len(a) : d[i] = a[i]
  BY <1>4, <1>5, <1>6
<1>8. \A i \in 1 .. Len(b) : d[Len(a) + i] = b[i]
  <2> TAKE i \in 1 .. Len(b)
  <2>1. Len(a) + i \in 1 .. Len(a) + Len(b) /\ ~(Len(a) + i <= Len(a)) /\ (Len(a) + i) - Len(a) = i
    BY <1>4
  <2> QED BY <1>5, <1>6, <2>1
<1>9. Len(c) <= Len(d)
  BY <1>4, <1>5, <1>6
<1> QED BY <1>4, <1>5, <1>7, <1>8, <1>9 DEF a, b, c, d

-----------------------------------------------------------------------------
(* What the parser finds in a text.                                        *)

Free(text, token) == \A i \in DOMAIN text : text[i] # token

\* A text is free of a token or has it.
LEMMA HasNot ==
    ASSUME NEW text, NEW token
    PROVE  Has(text, token) <=> ~Free(text, token)
BY DEF Has, Free, ToSet

\* The elements of a text that has a token somewhere.
LEMMA TextAround ==
    ASSUME NEW T, NEW s \in Seq(T), NEW token \in T, NEW u \in Seq(T),
           NEW text, text = s \o (<<token>> \o u)
    PROVE  /\ Len(s) \in Nat /\ Len(u) \in Nat
           /\ text \in Seq(T) /\ Len(text) = Len(s) + 1 + Len(u)
           /\ \A i \in 1 .. Len(s) : text[i] = s[i]
           /\ text[Len(s) + 1] = token
           /\ \A i \in 1 .. Len(u) : text[Len(s) + 1 + i] = u[i]
<1> DEFINE v == <<token>> \o u
<1>0. text = s \o v
  OBVIOUS
<1>1. /\ v \in Seq(T) /\ Len(v) = 1 + Len(u) /\ Len(u) \in Nat /\ v[1] = token
      /\ \A i \in 1 .. Len(u) : v[1 + i] = u[i]
  <2>1. <<token>> \in Seq(T) /\ Len(<<token>>) = 1 /\ Len(u) \in Nat
    BY LenProperties
  <2>2. /\ v \in Seq(T) /\ Len(v) = 1 + Len(u)
        /\ \A i \in 1 .. 1 + Len(u) : v[i] = IF i <= 1 THEN <<token>>[i] ELSE u[i - 1]
    BY <2>1, ConcatProperties
  <2> HIDE DEF v
  <2>3. v[1] = token
    BY <2>1, <2>2
  <2>4. ASSUME NEW i \in 1 .. Len(u) PROVE v[1 + i] = u[i]
    <3>1. 1 + i \in 1 .. 1 + Len(u) /\ ~(1 + i <= 1) /\ (1 + i) - 1 = i
      BY <2>1
    <3> QED BY <2>2, <3>1
  <2> QED BY <2>1, <2>2, <2>3, <2>4
<1> HIDE DEF v
<1>2. /\ text \in Seq(T) /\ Len(text) = Len(s) + Len(v) /\ Len(s) \in Nat
      /\ \A i \in 1 .. Len(s) + Len(v) : text[i] = IF i <= Len(s) THEN s[i] ELSE v[i - Len(s)]
  <2>1. v \in Seq(T) /\ Len(s) \in Nat
    BY <1>1, LenProperties
  <2> QED BY <1>0, <2>1, ConcatProperties, ZenonT(60)
<1>3. \A i \in 1 .. Len(s) : text[i] = s[i]
  BY <1>1, <1>2
<1>4. text[Len(s) + 1] = token
  <2>1. Len(s) + 1 \in 1 .. Len(s) + Len(v) /\ ~(Len(s) + 1 <= Len(s)) /\ (Len(s) + 1) - Len(s) = 1
    BY <1>1, <1>2
  <2> QED BY <1>1, <1>2, <2>1
<1>5. ASSUME NEW i \in 1 .. Len(u) PROVE text[Len(s) + 1 + i] = u[i]
  <2>1. /\ Len(s) + 1 + i \in 1 .. Len(s) + Len(v) /\ ~(Len(s) + 1 + i <= Len(s))
        /\ (Len(s) + 1 + i) - Len(s) = 1 + i
    BY <1>1, <1>2
  <2> QED BY <1>1, <1>2, <2>1
<1>6. Len(text) = Len(s) + 1 + Len(u)
  BY <1>1, <1>2
<1> QED BY <1>1, <1>2, <1>3, <1>4, <1>5, <1>6

Led(token, u) == <<token>> \o u
Around(s, token, u) == s \o Led(token, u)

\* A text is split at the first place that has the token.
LEMMA SplitAt ==
    ASSUME NEW T, NEW s \in Seq(T), NEW token \in T, NEW u \in Seq(T), Free(s, token)
    PROVE  /\ Has(Around(s, token, u), token)
           /\ Before(Around(s, token, u), token) = s
           /\ From(Around(s, token, u), token) = Led(token, u)
           /\ After(Around(s, token, u), token) = u
<1> DEFINE text == Around(s, token, u)
<1> DEFINE n == Len(s)
<1>0. text = s \o (<<token>> \o u)
  BY DEF Around, Led
<1> HIDE DEF text
<1>1. /\ n \in Nat /\ Len(u) \in Nat /\ text \in Seq(T) /\ Len(text) = n + 1 + Len(u)
      /\ \A i \in 1 .. n : text[i] = s[i]
      /\ text[n + 1] = token
      /\ \A i \in 1 .. Len(u) : text[n + 1 + i] = u[i]
  BY <1>0, TextAround
<1>2. DOMAIN s = 1 .. n /\ DOMAIN text = 1 .. n + 1 + Len(u)
  BY <1>1, LenProperties
<1> HIDE DEF n
<1>3. \A i \in 1 .. n : text[i] # token
  BY <1>1, <1>2 DEF Free
<1>4. Has(text, token)
  <2>1. n + 1 \in DOMAIN text
    BY <1>1, <1>2
  <2> QED BY <1>1, <2>1 DEF Has, ToSet
<1>5. Find(text, token) = n + 1
  <2> DEFINE I == {i \in 1 .. Len(text) : text[i] = token}
  <2>1. n + 1 \in I /\ \A i \in I : n + 1 <= i
    BY <1>1, <1>3
  <2>2. I # {} /\ \A i \in I : i \in Nat
    <3>1. \A i \in I : i \in Nat
      OBVIOUS
    <3> HIDE DEF I
    <3> QED BY <2>1, <3>1
  <2>3. Find(text, token) = Min(I)
    BY <2>2 DEF Find, SelectInSeq
  <2> HIDE DEF I
  <2>4. Min(I) = n + 1
    <3>1. Min(I) \in I /\ \A i \in I : Min(I) <= i
      BY <2>1 DEF Min
    <3> QED BY <1>1, <2>1, <2>2, <3>1
  <2> QED BY <2>3, <2>4
<1>6. Before(text, token) = s
  <2>1. Before(text, token) = SubSeq(text, 1, n)
    BY <1>1, <1>4, <1>5 DEF Before
  <2>2. SubSeq(text, 1, n) \in Seq(T) /\ Len(SubSeq(text, 1, n)) = n /\ \A i \in 1 .. n : SubSeq(text, 1, n)[i] = text[i]
    <3>1. n \in 0 .. Len(text)
      BY <1>1
    <3> QED BY <1>1, <3>1, FirstOf
  <2>3. SubSeq(text, 1, n) = s
    BY <1>1, <2>2, SeqEqual DEF n
  <2> QED BY <2>1, <2>3
<1>7. From(text, token) = <<token>> \o u
  <2> DEFINE f == SubSeq(text, n + 1, Len(text))
             v == <<token>> \o u
  <2>1. From(text, token) = f
    BY <1>5 DEF From
  <2>2. /\ f \in Seq(T) /\ Len(f) = 1 + Len(u)
        /\ \A i \in 1 .. 1 + Len(u) : f[i] = text[n + i]
    <3>1. n <= Len(text) /\ Len(text) \in Nat /\ Len(text) - n = 1 + Len(u)
      BY <1>1
    <3> QED BY <1>1, <3>1, SliceIs
  <2>3. << >> \in Seq(T) /\ << >> \o v = v /\ Len(<< >>) = 0
    BY TextAround, EmptySeq, ConcatEmptySeq, ConcatProperties
  <2>4. v \in Seq(T) /\ Len(v) = 1 + Len(u) /\ v[1] = token /\ \A i \in 1 .. Len(u) : v[1 + i] = u[i]
    <3>1. /\ v \in Seq(T) /\ Len(v) = Len(<< >>) + 1 + Len(u)
          /\ v[Len(<< >>) + 1] = token
          /\ \A i \in 1 .. Len(u) : v[Len(<< >>) + 1 + i] = u[i]
      BY <2>3, TextAround
    <3> QED BY <1>1, <2>3, <3>1
  <2> HIDE DEF f, v
  <2>5. \A i \in 1 .. Len(f) : f[i] = v[i]
    <3> SUFFICES ASSUME NEW i \in 1 .. 1 + Len(u) PROVE f[i] = v[i]
      BY <2>2
    <3>1. CASE i = 1
      BY <1>1, <2>2, <2>4, <3>1
    <3>2. CASE i # 1
      <4>1. i - 1 \in 1 .. Len(u) /\ 1 + (i - 1) = i /\ n + 1 + (i - 1) = n + i
        BY <1>1, <3>2
      <4>2. v[1 + (i - 1)] = u[i - 1] /\ text[n + 1 + (i - 1)] = u[i - 1]
        BY <1>1, <2>4, <4>1
      <4> QED BY <2>2, <4>1, <4>2
    <3> QED BY <3>1, <3>2
  <2>6. f = v
    BY <2>2, <2>4, <2>5, SeqEqual
  <2> QED BY <2>1, <2>6 DEF v
<1>8. After(text, token) = u
  <2> DEFINE v == <<token>> \o u
  <2>1. /\ v \in Seq(T) /\ v # << >> /\ Len(v) = 1 + Len(u)
        /\ \A i \in 1 .. Len(u) : v[i + 1] = u[i]
    <3>1. <<token>> \in Seq(T) /\ Len(<<token>>) = 1
      OBVIOUS
    <3>2. /\ v \in Seq(T) /\ Len(v) = 1 + Len(u)
          /\ \A i \in 1 .. 1 + Len(u) : v[i] = IF i <= 1 THEN <<token>>[i] ELSE u[i - 1]
      BY <3>1, ConcatProperties
    <3> HIDE DEF v
    <3>3. \A i \in 1 .. Len(u) : i + 1 \in 1 .. 1 + Len(u) /\ ~(i + 1 <= 1) /\ (i + 1) - 1 = i
      BY <1>1
    <3>4. v # << >>
      BY <1>1, <3>2, EmptySeq
    <3> QED BY <3>2, <3>3, <3>4
  <2> HIDE DEF v
  <2>2. Tail(v) \in Seq(T) /\ Len(Tail(v)) = Len(u) /\ \A i \in 1 .. Len(u) : Tail(v)[i] = v[i + 1]
    <3>1. Tail(v) \in Seq(T) /\ Len(Tail(v)) = Len(v) - 1 /\ \A i \in 1 .. Len(Tail(v)) : Tail(v)[i] = v[i + 1]
      BY <2>1, HeadTailProperties
    <3> QED BY <1>1, <2>1, <3>1
  <2>3. Tail(v) = u
    BY <2>1, <2>2, SeqEqual
  <2> QED BY <1>7, <2>3 DEF After, v
<1> QED BY <1>4, <1>6, <1>7, <1>8 DEF text, Led

\* A text of one token.
LEMMA OneToken ==
    ASSUME NEW T, NEW x \in T
    PROVE  /\ <<x>> \in Seq(T) /\ Len(<<x>>) = 1 /\ <<x>>[1] = x
           /\ \A token : Free(<<x>>, token) <=> x # token
BY DEF Free

\* Two texts in a row are free of a token when both are.
LEMMA FreeConcat ==
    ASSUME NEW T, NEW s \in Seq(T), NEW u \in Seq(T), NEW token
    PROVE  Free(s \o u, token) <=> Free(s, token) /\ Free(u, token)
<1> DEFINE text == s \o u
<1>1. /\ text \in Seq(T) /\ Len(text) = Len(s) + Len(u)
      /\ Len(s) \in Nat /\ Len(u) \in Nat
      /\ \A i \in 1 .. Len(s) : text[i] = s[i]
      /\ \A i \in 1 .. Len(u) : text[Len(s) + i] = u[i]
  BY ConcatIs
<1>2. DOMAIN text = 1 .. Len(s) + Len(u) /\ DOMAIN s = 1 .. Len(s) /\ DOMAIN u = 1 .. Len(u)
  BY <1>1, LenProperties
<1> HIDE DEF text
<1>3. \A i \in DOMAIN text : \/ i \in DOMAIN s
                             \/ i - Len(s) \in DOMAIN u /\ i = Len(s) + (i - Len(s))
  BY <1>1, <1>2
<1>4. \A i \in DOMAIN s : i \in DOMAIN text /\ text[i] = s[i]
  BY <1>1, <1>2
<1>5. \A i \in DOMAIN u : Len(s) + i \in DOMAIN text /\ text[Len(s) + i] = u[i]
  BY <1>1, <1>2
<1>6. Free(s, token) /\ Free(u, token) => Free(text, token)
  BY <1>3, <1>4, <1>5 DEF Free
<1>7. Free(text, token) => Free(s, token) /\ Free(u, token)
  BY <1>4, <1>5 DEF Free
<1> QED BY <1>6, <1>7 DEF text

\* A text without the tokens of U is free of each of them.
LEMMA FreeOf ==
    ASSUME NEW T, NEW U, NEW s \in Seq(T \ U)
    PROVE  s \in Seq(T) /\ \A token \in U : Free(s, token)
<1>1. \A i \in DOMAIN s : s[i] \in T \ U
  BY LenProperties, ElementOfSeq
<1>2. s \in Seq(T)
  BY SeqMonotonic
<1> QED BY <1>1, <1>2 DEF Free

\* The empty text is free of every token.
LEMMA FreeEmpty == \A token : Free(<< >>, token)
BY DEF Free

\* Of the texts with elements in T: what is put together is one of them, in any grouping.
Concats(T) ==
    /\ \A x, y \in Seq(T) : x \o y \in Seq(T)
    /\ \A x, y, z \in Seq(T) : (x \o y) \o z = x \o (y \o z)

\* Concatenation is associative, and has the empty text on either side.
LEMMA ConcatLaws == \A T : Concats(T)
<1> SUFFICES ASSUME NEW T PROVE Concats(T)
  OBVIOUS
<1>1. \A x, y \in Seq(T) : x \o y \in Seq(T)
  BY ConcatProperties
<1>2. ASSUME NEW x \in Seq(T), NEW y \in Seq(T), NEW z \in Seq(T)
      PROVE  (x \o y) \o z = x \o (y \o z)
  BY ConcatAssociative
<1> QED BY <1>1, <1>2 DEF Concats

Regrouped(a, b, c, q, d) == ((a \o (b \o c)) \o q) \o d = a \o (b \o ((c \o q) \o d))

\* Five texts in a row, grouped in two ways.
LEMMA Regroup ==
    ASSUME NEW T, NEW a \in Seq(T), NEW b \in Seq(T), NEW c \in Seq(T), NEW q \in Seq(T), NEW d \in Seq(T)
    PROVE  Regrouped(a, b, c, q, d)
<1>0. Concats(T)
  BY ConcatLaws
<1>1. /\ \A x, y \in Seq(T) : x \o y \in Seq(T)
      /\ \A x, y, z \in Seq(T) : (x \o y) \o z = x \o (y \o z)
  BY <1>0, Zenon DEF Concats
<1>2. c \o q \in Seq(T) /\ (c \o q) \o d \in Seq(T) /\ b \o c \in Seq(T) /\ (b \o c) \o q \in Seq(T)
  BY <1>1
<1>3. (a \o (b \o c)) \o q = a \o ((b \o c) \o q)
  BY <1>1, <1>2, SMTT(30)
<1>4. (a \o ((b \o c) \o q)) \o d = a \o (((b \o c) \o q) \o d)
  BY <1>1, <1>2, SMTT(30)
<1>5. (b \o c) \o q = b \o (c \o q)
  BY <1>1
<1>6. (b \o (c \o q)) \o d = b \o ((c \o q) \o d)
  BY <1>1, <1>2, SMTT(30)
<1> QED BY <1>3, <1>4, <1>5, <1>6 DEF Regrouped

-----------------------------------------------------------------------------
(* The lines of a request.                                                 *)

\* The tokens that the parser looks for are tokens, and differ.
LEMMA Separators == {" ", ":", "?", CR, LF} \subseteq Tokens /\ CR # LF /\ " " # CR /\ ":" # CR
BY TokensAssumption DEF CR, LF

\* What a request is made of.
LEMMA RequestTyped ==
    ASSUME NEW r \in Requests
    PROVE  /\ r.method \in Words /\ r.path \in Words
           /\ r.version \in Seq(Tokens) /\ Free(r.version, CR)
           /\ r.query \in Seq(Tokens) /\ Free(r.query, " ") /\ Free(r.query, CR)
           /\ r.query # << >> => r.query[1] = "?"
           /\ r.headers \in Seq([field : Words, value : Seq(Tokens \ {CR, LF})])
<1>1. /\ r.method \in Words /\ r.path \in Words /\ r.query \in Queries
      /\ r.version \in Seq(Tokens \ {CR, LF})
      /\ r.headers \in Seq([field : Words, value : Seq(Tokens \ {CR, LF})])
  BY DEF Requests, Versions
<1>2. /\ r.query \in Seq(Tokens) /\ Free(r.query, " ") /\ Free(r.query, CR)
      /\ r.query # << >> => r.query[1] = "?"
  <2>1. CASE r.query = << >>
    <3>1. << >> \in Seq(Tokens)
      OBVIOUS
    <3> QED BY <2>1, <3>1, FreeEmpty
  <2>2. CASE r.query # << >>
    <3>1. r.query \in Seq(Tokens \ {" ", CR, LF}) /\ r.query[1] = "?"
      BY <1>1, <2>2 DEF Queries
    <3>2. " " \in {" ", CR, LF} /\ CR \in {" ", CR, LF}
      OBVIOUS
    <3> QED BY <3>1, <3>2, FreeOf
  <2> QED BY <2>1, <2>2
<1>3. r.version \in Seq(Tokens) /\ Free(r.version, CR)
  <2>1. CR \in {CR, LF}
    OBVIOUS
  <2> QED BY <1>1, <2>1, FreeOf
<1> QED BY <1>1, <1>2, <1>3

\* A word is none of the tokens that the parser looks for.
LEMMA WordIs ==
    ASSUME NEW w \in Words
    PROVE  w \in Tokens /\ w # " " /\ w # ":" /\ w # "?" /\ w # CR
BY DEF Words

\* A line of a token a, a separator x, a text that begins with c, the same separator and a text v.
ThreeOf(a, x, c, q, v) == <<a, x, c>> \o q \o <<x>> \o v

\* A line of three parts set apart by x, as the parser takes it apart.
LEMMA LineOfThree ==
    ASSUME NEW T, NEW x \in T, NEW a \in T, NEW c \in T, NEW q \in Seq(T), NEW v \in Seq(T), NEW cr,
           a # x, c # x, Free(q, x), a # cr, c # cr, Free(q, cr), Free(v, cr), x # cr,
           NEW l, l = ThreeOf(a, x, c, q, v)
    PROVE  /\ l \in Seq(T) /\ Free(l, cr)
           /\ Has(l, x) /\ Before(l, x) = <<a>>
           /\ Has(After(l, x), x) /\ Before(After(l, x), x) = Led(c, q)
           /\ After(After(l, x), x) = v
<1> DEFINE sa == <<a>>
           sx == <<x>>
           sc == <<c>>
<1>1. /\ sa \in Seq(T) /\ sx \in Seq(T) /\ sc \in Seq(T)
      /\ Free(sa, x) /\ Free(sc, x)
      /\ Free(sa, cr) /\ Free(sc, cr) /\ Free(sx, cr)
  BY OneToken
<1>2. <<a, x, c>> = sa \o (sx \o sc)
  <2>1. <<x, c>> = sx \o sc
    OBVIOUS
  <2>2. <<a, x, c>> = sa \o <<x, c>>
    OBVIOUS
  <2> QED BY <2>1, <2>2
<1> DEFINE head == (sa \o (sx \o sc)) \o q
<1>3. l = head \o (sx \o v)
  <2>1. l = (head \o sx) \o v
    BY <1>2 DEF ThreeOf
  <2> HIDE DEF sa, sx, sc
  <2>2. head \in Seq(T)
    BY <1>1, ConcatProperties
  <2> HIDE DEF head
  <2>3. (head \o sx) \o v = head \o (sx \o v)
    BY <1>1, <2>2, ConcatAssociative
  <2> QED BY <2>1, <2>3
<1> HIDE DEF sa, sx, sc
<1> DEFINE t == sc \o q
           d == sx \o v
           rest == t \o d
<1>4. t \in Seq(T) /\ d \in Seq(T) /\ rest \in Seq(T) /\ sx \o rest \in Seq(T)
  BY <1>1, ConcatProperties
<1>5. l = sa \o (sx \o rest)
  <2>1. ((sa \o (sx \o sc)) \o q) \o d = sa \o (sx \o ((sc \o q) \o d))
    <3> HIDE DEF d
    <3>1. sa \in Seq(T) /\ sx \in Seq(T) /\ sc \in Seq(T) /\ q \in Seq(T) /\ d \in Seq(T)
      BY <1>1, <1>4
    <3>2. Regrouped(sa, sx, sc, q, d)
      BY <3>1, Regroup
    <3> QED BY <3>2 DEF Regrouped
  <2> QED BY <1>3, <2>1
<1>6. Free(t, x) /\ Free(t, cr) /\ Free(d, cr) /\ Free(rest, cr) /\ Free(sx \o rest, cr) /\ Free(l, cr)
  <2>1. Free(t, x) /\ Free(t, cr) /\ Free(d, cr)
    BY <1>1, FreeConcat
  <2>2. Free(rest, cr)
    BY <1>4, <2>1, FreeConcat
  <2> HIDE DEF t, d, rest
  <2>3. Free(sx \o rest, cr)
    BY <1>1, <1>4, <2>2, FreeConcat
  <2> DEFINE sr == sx \o rest
  <2>4. sr \in Seq(T) /\ Free(sr, cr) /\ l = sa \o sr
    BY <1>4, <1>5, <2>3
  <2> HIDE DEF sr
  <2>5. Free(sa \o sr, cr)
    BY <1>1, <2>4, FreeConcat
  <2> QED BY <2>1, <2>2, <2>3, <2>4, <2>5
<1>7. l \in Seq(T)
  BY <1>1, <1>4, <1>5, ConcatProperties
<1>8. Has(l, x) /\ Before(l, x) = sa /\ After(l, x) = rest
  <2> HIDE DEF rest
  <2>1. l = Around(sa, x, rest)
    BY <1>5 DEF sx, Around, Led
  <2>2. sa \in Seq(T) /\ rest \in Seq(T) /\ Free(sa, x)
    BY <1>1, <1>4
  <2>3. /\ Has(Around(sa, x, rest), x) /\ Before(Around(sa, x, rest), x) = sa
        /\ After(Around(sa, x, rest), x) = rest
    BY <2>2, SplitAt
  <2> QED BY <2>1, <2>3
<1>9. Has(rest, x) /\ Before(rest, x) = t /\ After(rest, x) = v
  <2> HIDE DEF t
  <2>1. rest = Around(t, x, v)
    BY DEF sx, Around, Led
  <2> HIDE DEF rest
  <2>2. t \in Seq(T) /\ v \in Seq(T) /\ Free(t, x)
    BY <1>1, <1>4, <1>6
  <2>3. /\ Has(Around(t, x, v), x) /\ Before(Around(t, x, v), x) = t
        /\ After(Around(t, x, v), x) = v
    BY <2>2, SplitAt
  <2> QED BY <2>1, <2>3
<1>10. t = Led(c, q)
  BY DEF Led, sc
<1> HIDE DEF t
<1> QED BY <1>6, <1>7, <1>8, <1>9, <1>10 DEF sa

\* What processRequestLine finds in the first line of a request.
LEMMA RequestLineIs ==
    ASSUME NEW r \in Requests, NEW l, l = RequestLine(r)
    PROVE  /\ l \in Seq(Tokens) /\ Free(l, CR)
           /\ HasMethod(l) /\ MethodText(l) = <<r.method>>
           /\ Has(After(l, " "), " ") /\ VersionText(l) = r.version
           /\ Before(TargetText(l), "?") = <<r.path>>
           /\ Has(TargetText(l), "?") <=> r.query # << >>
           /\ r.query # << >> => From(TargetText(l), "?") = r.query
<1> DEFINE t == <<r.path>> \o r.query
<1>0. /\ r.method \in Words /\ r.path \in Words
      /\ r.version \in Seq(Tokens) /\ Free(r.version, CR)
      /\ r.query \in Seq(Tokens) /\ Free(r.query, " ") /\ Free(r.query, CR)
      /\ r.query # << >> => r.query[1] = "?"
  BY RequestTyped
<1>1. /\ r.method \in Tokens /\ r.path \in Tokens
      /\ r.method # " " /\ r.method # CR /\ r.path # " " /\ r.path # CR /\ r.path # "?"
      /\ " " \in Tokens /\ "?" \in Tokens /\ " " # CR
  BY <1>0, WordIs, Separators
<1>2. /\ l \in Seq(Tokens) /\ Free(l, CR)
      /\ Has(l, " ") /\ Before(l, " ") = <<r.method>>
      /\ Has(After(l, " "), " ") /\ Before(After(l, " "), " ") = t
      /\ After(After(l, " "), " ") = r.version
  <2> DEFINE x == " "
             cr == CR
             a == r.method
             c == r.path
             q == r.query
             v == r.version
  <2>1. /\ x \in Tokens /\ a \in Tokens /\ c \in Tokens /\ v \in Seq(Tokens) /\ q \in Seq(Tokens)
        /\ a # x /\ c # x /\ Free(q, x) /\ a # cr /\ c # cr /\ Free(q, cr) /\ Free(v, cr) /\ x # cr
    BY <1>0, <1>1
  <2>2. l = ThreeOf(a, x, c, q, v)
    BY DEF RequestLine, ThreeOf
  <2> HIDE DEF x, cr, a, c, q, v
  <2>3. /\ l \in Seq(Tokens) /\ Free(l, cr)
        /\ Has(l, x) /\ Before(l, x) = <<a>>
        /\ Has(After(l, x), x) /\ Before(After(l, x), x) = Led(c, q)
        /\ After(After(l, x), x) = v
    BY <2>1, <2>2, LineOfThree
  <2>4. t = Led(c, q)
    BY DEF Led, c, q
  <2> QED BY <2>3, <2>4 DEF x, cr, a, v
<1>3. TargetText(l) = t /\ VersionText(l) = r.version /\ MethodText(l) = <<r.method>> /\ HasMethod(l)
  BY <1>2 DEF TargetText, VersionText, MethodText, HasMethod
<1>4. /\ Before(t, "?") = <<r.path>>
      /\ Has(t, "?") <=> r.query # << >>
      /\ r.query # << >> => From(t, "?") = r.query
  <2>0. <<r.path>> \in Seq(Tokens) /\ Free(<<r.path>>, "?")
    BY <1>1, OneToken
  <2>1. CASE r.query = << >>
    <3>1. t = <<r.path>>
      BY <2>0, <2>1, ConcatEmptySeq
    <3> QED BY <2>0, <2>1, <3>1, HasNot DEF Before
  <2>2. CASE r.query # << >>
    <3>1. Tail(r.query) \in Seq(Tokens) /\ r.query = <<"?">> \o Tail(r.query)
      <4> DEFINE q == r.query
                 x == "?"
      <4>1. q \in Seq(Tokens) /\ q # << >> /\ q[1] = x
        BY <1>0, <2>2
      <4> HIDE DEF q, x
      <4>2. Tail(q) \in Seq(Tokens) /\ q = <<q[1]>> \o Tail(q)
        BY <4>1, HeadTailProperties
      <4> QED BY <4>1, <4>2 DEF q, x
    <3>2. t = Around(<<r.path>>, "?", Tail(r.query))
      BY <3>1 DEF Around, Led
    <3> DEFINE x == "?"
               p == <<r.path>>
               u == Tail(r.query)
    <3>3. x \in Tokens /\ p \in Seq(Tokens) /\ u \in Seq(Tokens) /\ Free(p, x)
      BY <1>1, <2>0, <3>1
    <3>4. t = Around(p, x, u) /\ r.query = Led(x, u)
      BY <3>1, <3>2 DEF Led
    <3> HIDE DEF t, x, p, u
    <3>5. Has(t, x) /\ Before(t, x) = p /\ From(t, x) = r.query
      BY <3>3, <3>4, SplitAt
    <3> QED BY <2>2, <3>5 DEF x, p
  <2> QED BY <2>1, <2>2
<1> QED BY <1>2, <1>3, <1>4

\* What is found in a header of a request.
LEMMA HeaderLineIs ==
    ASSUME NEW h \in [field : Words, value : Seq(Tokens \ {CR, LF})], NEW l, l = HeaderLine(h)
    PROVE  /\ l \in Seq(Tokens) /\ Free(l, CR)
           /\ Has(l, ":") /\ Before(l, ":") = <<h.field>> /\ After(l, ":") = h.value
<1> DEFINE x == ":"
           f == <<h.field>>
           v == h.value
           cr == CR
           sx == <<x>>
           w == sx \o v
<1>1. h.field \in Words /\ v \in Seq(Tokens \ {CR, LF}) /\ cr \in {CR, LF}
  OBVIOUS
<1>2. v \in Seq(Tokens) /\ Free(v, cr)
  BY <1>1, FreeOf
<1>3. h.field \in Tokens /\ h.field # x /\ h.field # cr /\ x \in Tokens /\ x # cr
  BY <1>1, WordIs, Separators
<1>4. f \in Seq(Tokens) /\ Free(f, x) /\ Free(f, cr) /\ sx \in Seq(Tokens) /\ Free(sx, cr)
  BY <1>3, OneToken
<1>5. l = f \o w
  <2>1. <<h.field, ":">> = f \o sx
    OBVIOUS
  <2>2. l = (f \o sx) \o v
    BY <2>1 DEF HeaderLine
  <2> HIDE DEF f, sx, v
  <2>3. (f \o sx) \o v = f \o (sx \o v)
    BY <1>2, <1>4, ConcatAssociative
  <2> QED BY <2>2, <2>3
<1> HIDE DEF f, x, v, cr
<1>6. l = Around(f, x, v)
  BY <1>5 DEF Around, Led
<1>7. Has(l, x) /\ Before(l, x) = f /\ After(l, x) = v
  <2>1. /\ Has(Around(f, x, v), x) /\ Before(Around(f, x, v), x) = f
        /\ After(Around(f, x, v), x) = v
    BY <1>2, <1>3, <1>4, SplitAt
  <2> QED BY <1>6, <2>1
<1>8. w \in Seq(Tokens) /\ Free(w, cr)
  <2> HIDE DEF sx
  <2> QED BY <1>2, <1>4, ConcatProperties, FreeConcat
<1>9. l \in Seq(Tokens) /\ Free(l, cr)
  <2> HIDE DEF w
  <2> QED BY <1>4, <1>5, <1>8, ConcatProperties, FreeConcat
<1> QED BY <1>7, <1>9 DEF f, x, v, cr

\* A line is a request line, a header or nothing.
LEMMA LinesAre ==
    ASSUME NEW r \in Requests
    PROVE  /\ Len(r.headers) \in Nat /\ LinesOf(r) \in Seq(Seq(Tokens))
           /\ Len(LinesOf(r)) = Len(r.headers) + 2
           /\ LinesOf(r)[1] = RequestLine(r)
           /\ \A i \in 1 .. Len(r.headers) : LinesOf(r)[i + 1] = HeaderLine(r.headers[i])
           /\ LinesOf(r)[Len(r.headers) + 2] = << >>
           /\ \A i \in 1 .. Len(r.headers) + 2 : Free(LinesOf(r)[i], CR)
<1> DEFINE n == Len(r.headers)
           H == [i \in DOMAIN r.headers |-> HeaderLine(r.headers[i])]
           a == RequestLine(r)
           L == LinesOf(r)
<1>1. /\ r.headers \in Seq([field : Words, value : Seq(Tokens \ {CR, LF})])
      /\ n \in Nat /\ DOMAIN r.headers = 1 .. n
  BY RequestTyped, LenProperties
<1>2. a \in Seq(Tokens) /\ Free(a, CR)
  BY RequestLineIs
<1>3. \A i \in 1 .. n : HeaderLine(r.headers[i]) \in Seq(Tokens) /\ Free(HeaderLine(r.headers[i]), CR)
  <2> DEFINE S == [field : Words, value : Seq(Tokens \ {CR, LF})]
             s == r.headers
  <2> TAKE i \in 1 .. n
  <2>1. s \in Seq(S) /\ i \in DOMAIN s
    BY <1>1
  <2>2. s[i] \in S
    <3> HIDE DEF S, s
    <3> QED BY <2>1, ElementOfSeq, LenProperties
  <2> QED BY <2>2, HeaderLineIs
<1>4. H \in Seq(Seq(Tokens)) /\ Len(H) = n /\ \A i \in 1 .. n : H[i] = HeaderLine(r.headers[i])
  <2> DEFINE F(i) == HeaderLine(r.headers[i])
  <2>1. H = [i \in 1 .. n |-> F(i)]
    BY <1>1
  <2> HIDE DEF F, n
  <2>2. \A i \in 1 .. n : F(i) \in Seq(Tokens)
    BY <1>3 DEF F
  <2>3. [i \in 1 .. n |-> F(i)] \in Seq(Seq(Tokens)) /\ Len([i \in 1 .. n |-> F(i)]) = n
    BY <1>1, <2>2, IsASeq, LenProperties, SMT
  <2>4. \A i \in 1 .. n : H[i] = F(i)
    BY <2>1
  <2> QED BY <2>1, <2>3, <2>4 DEF F
<1> DEFINE sa == <<a>>
           sz == << << >> >>
           b == sa \o H
<1>5. /\ sa \in Seq(Seq(Tokens)) /\ Len(sa) = 1 /\ sa[1] = a
      /\ sz \in Seq(Seq(Tokens)) /\ Len(sz) = 1 /\ sz[1] = << >>
  <2>1. << >> \in Seq(Tokens)
    OBVIOUS
  <2> HIDE DEF a
  <2> QED BY <1>2, <2>1, OneToken
<1>6. IsConcat(b, sa, H) /\ IsConcat(L, b, sz)
  BY DEF LinesOf, IsConcat
<1> DEFINE U == Seq(Tokens)
<1> HIDE DEF sa, sz, H, n, L, a, b
<1>7. /\ b \in Seq(Seq(Tokens)) /\ Len(b) = 1 + n
      /\ b[1] = a /\ \A i \in 1 .. n : b[1 + i] = H[i]
  <2>1. /\ b \in Seq(Seq(Tokens)) /\ Len(b) = Len(sa) + Len(H)
        /\ \A i \in 1 .. Len(sa) : b[i] = sa[i]
        /\ \A i \in 1 .. Len(H) : b[Len(sa) + i] = H[i]
    <3>1. sa \in Seq(U) /\ H \in Seq(U)
      BY <1>4, <1>5
    <3> HIDE DEF U
    <3>2. b \in Seq(U)
      BY <1>6, <3>1, IsConcatIs
    <3>3. /\ Len(b) = Len(sa) + Len(H)
          /\ \A i \in 1 .. Len(sa) : b[i] = sa[i]
          /\ \A i \in 1 .. Len(H) : b[Len(sa) + i] = H[i]
      BY <1>6, <3>1, IsConcatIs
    <3> QED BY <3>2, <3>3 DEF U
  <2> QED BY <1>1, <1>4, <1>5, <2>1
<1>8. /\ L \in Seq(Seq(Tokens)) /\ Len(L) = n + 2
      /\ \A i \in 1 .. n + 1 : L[i] = b[i]
      /\ L[n + 2] = << >>
  <2>1. /\ L \in Seq(Seq(Tokens)) /\ Len(L) = Len(b) + Len(sz)
        /\ \A i \in 1 .. Len(b) : L[i] = b[i]
        /\ \A i \in 1 .. Len(sz) : L[Len(b) + i] = sz[i]
    <3>1. b \in Seq(U) /\ sz \in Seq(U)
      BY <1>5, <1>7
    <3> HIDE DEF U
    <3>2. L \in Seq(U)
      BY <1>6, <3>1, IsConcatIs
    <3>3. /\ Len(L) = Len(b) + Len(sz)
          /\ \A i \in 1 .. Len(b) : L[i] = b[i]
          /\ \A i \in 1 .. Len(sz) : L[Len(b) + i] = sz[i]
      BY <1>6, <3>1, IsConcatIs
    <3> QED BY <3>2, <3>3 DEF U
  <2>2. Len(b) + 1 = n + 2
    BY <1>1, <1>7
  <2>3. L[Len(b) + 1] = sz[1]
    BY <1>5, <2>1
  <2> QED BY <1>1, <1>5, <1>7, <2>1, <2>2, <2>3
<1>9. L[1] = a /\ \A i \in 1 .. n : L[i + 1] = HeaderLine(r.headers[i])
  <2>1. L[1] = a
    BY <1>1, <1>7, <1>8
  <2>2. ASSUME NEW i \in 1 .. n PROVE L[i + 1] = HeaderLine(r.headers[i])
    <3>1. i + 1 \in 1 .. n + 1 /\ i + 1 = 1 + i
      BY <1>1
    <3> QED BY <1>4, <1>7, <1>8, <3>1
  <2> QED BY <2>1, <2>2
<1>10. ASSUME NEW i \in 1 .. n + 2 PROVE Free(L[i], CR)
  <2>1. CASE i = 1
    BY <1>2, <1>9, <2>1
  <2>2. CASE i = n + 2
    BY <1>8, <2>2, FreeEmpty
  <2>3. CASE i # 1 /\ i # n + 2
    <3>1. i - 1 \in 1 .. n /\ (i - 1) + 1 = i
      BY <1>1, <2>3
    <3> QED BY <1>3, <1>9, <3>1
  <2> QED BY <2>1, <2>2, <2>3
<1> QED BY <1>1, <1>8, <1>9, <1>10 DEF n, L, a

-----------------------------------------------------------------------------
(* Where a line stands in what the client writes.                          *)

\* How much the client has written before its request number k + 1, and before the line number
\* j + 1 of that request.
Begin(k) == Len(WrittenUpTo(k))
Pieces(r) == [i \in DOMAIN LinesOf(r) |-> LinesOf(r)[i] \o <<CR, LF>>]
At(k, j) == Begin(k) + Len(UpTo(Pieces(script[k + 1]), j))
Wires == [i \in DOMAIN script |-> Wire(script[i])]

\* A function on 1 .. n is a sequence.
LEMMA MapIs ==
    ASSUME NEW S, NEW n \in Nat, NEW f, f = [i \in 1 .. n |-> f[i]], \A i \in 1 .. n : f[i] \in S
    PROVE  f \in Seq(S) /\ Len(f) = n
<1>1. [i \in 1 .. n |-> f[i]] \in Seq(S)
  BY IsASeq
<1>2. f \in Seq(S) /\ DOMAIN f = 1 .. n
  BY <1>1
<1> QED BY <1>2, LenProperties

\* A line with its end.
LEMMA PieceIs ==
    ASSUME NEW T, NEW l \in Seq(T), CR \in T, LF \in T, NEW p, p = l \o <<CR, LF>>
    PROVE  /\ Len(l) \in Nat /\ p \in Seq(T) /\ Len(p) = Len(l) + 2
           /\ \A i \in 1 .. Len(l) : p[i] = l[i]
           /\ p[Len(l) + 1] = CR /\ p[Len(l) + 2] = LF
<1> DEFINE end == <<CR, LF>>
<1>1. end \in Seq(T) /\ Len(end) = 2 /\ end[1] = CR /\ end[2] = LF
  OBVIOUS
<1>2. IsConcat(p, l, end)
  BY DEF IsConcat
<1> HIDE DEF end
<1>3. /\ p \in Seq(T) /\ Len(p) = Len(l) + Len(end) /\ Len(l) \in Nat
      /\ \A i \in 1 .. Len(l) : p[i] = l[i]
      /\ \A i \in 1 .. Len(end) : p[Len(l) + i] = end[i]
  BY <1>1, <1>2, IsConcatIs
<1>4. p[Len(l) + 1] = end[1] /\ p[Len(l) + 2] = end[2]
  BY <1>1, <1>3
<1> QED BY <1>1, <1>3, <1>4

\* The lines of a request, each with its end.
LEMMA PiecesAre ==
    ASSUME NEW r \in Requests
    PROVE  /\ Len(r.headers) \in Nat
           /\ Pieces(r) \in Seq(Seq(Tokens)) /\ Len(Pieces(r)) = Len(r.headers) + 2
           /\ \A j \in 1 .. Len(r.headers) + 2 :
                 LET l == LinesOf(r)[j]
                     p == Pieces(r)[j]
                 IN  /\ Len(l) \in Nat /\ Len(p) = Len(l) + 2
                     /\ \A i \in 1 .. Len(l) : p[i] = l[i]
                     /\ p[Len(l) + 1] = CR /\ p[Len(l) + 2] = LF
<1> DEFINE n == Len(r.headers) + 2
           L == LinesOf(r)
           P == Pieces(r)
           T == Tokens
<1>1. /\ Len(r.headers) \in Nat /\ n \in Nat /\ L \in Seq(Seq(T)) /\ Len(L) = n
      /\ CR \in T /\ LF \in T
  <2>1. Len(r.headers) \in Nat /\ L \in Seq(Seq(T)) /\ Len(L) = n
    BY LinesAre
  <2>2. CR \in T /\ LF \in T
    BY Separators
  <2>3. n \in Nat
    BY <2>1
  <2> QED BY <2>1, <2>2, <2>3
<1>2. DOMAIN L = 1 .. n /\ \A j \in 1 .. n : L[j] \in Seq(T)
  <2> DEFINE U == Seq(T)
  <2>1. L \in Seq(U)
    BY <1>1
  <2> HIDE DEF U, L, n
  <2>2. DOMAIN L = 1 .. n /\ \A j \in 1 .. n : L[j] \in U
    BY <1>1, <2>1, LenProperties, ElementOfSeq
  <2> QED BY <2>2 DEF U
<1>3. P = [j \in 1 .. n |-> P[j]] /\ \A j \in 1 .. n : P[j] = L[j] \o <<CR, LF>>
  BY <1>2 DEF Pieces
<1> HIDE DEF L, P, n, T
<1>4. ASSUME NEW j \in 1 .. n
      PROVE  /\ P[j] \in Seq(T) /\ Len(L[j]) \in Nat /\ Len(P[j]) = Len(L[j]) + 2
             /\ \A i \in 1 .. Len(L[j]) : P[j][i] = L[j][i]
             /\ P[j][Len(L[j]) + 1] = CR /\ P[j][Len(L[j]) + 2] = LF
  <2> DEFINE p == P[j]
             l == L[j]
  <2>1. l \in Seq(T) /\ p = l \o <<CR, LF>>
    BY <1>2, <1>3
  <2> HIDE DEF p, l
  <2>2. /\ Len(l) \in Nat /\ p \in Seq(T) /\ Len(p) = Len(l) + 2
        /\ \A i \in 1 .. Len(l) : p[i] = l[i]
        /\ p[Len(l) + 1] = CR /\ p[Len(l) + 2] = LF
    BY <1>1, <2>1, PieceIs
  <2> QED BY <2>2 DEF p, l
<1>5. P \in Seq(Seq(T)) /\ Len(P) = n
  <2> DEFINE U == Seq(T)
  <2>1. \A j \in 1 .. n : P[j] \in U
    BY <1>4
  <2> HIDE DEF U
  <2>2. P \in Seq(U) /\ Len(P) = n
    BY <1>1, <1>3, <2>1, MapIs
  <2> QED BY <2>2 DEF U
<1> QED BY <1>1, <1>4, <1>5 DEF L, P, n, T

\* A request on the wire is its lines, put together.
LEMMA WireIs ==
    ASSUME NEW r \in Requests
    PROVE  /\ Len(Pieces(r)) \in Nat /\ Wire(r) = UpTo(Pieces(r), Len(Pieces(r)))
           /\ Wire(r) \in Seq(Tokens) /\ Wire(r) \in Seq(ToSet(Wire(r)))
<1> DEFINE P == Pieces(r)
           U == Seq(Tokens)
<1>1. P \in Seq(U)
  BY PiecesAre
<1>2. Wire(r) = FlattenSeq(P)
  BY DEF Wire, Pieces
<1> HIDE DEF P
<1>3. SubSeq(P, 1, Len(P)) = P /\ Len(P) \in Nat
  <2> HIDE DEF U
  <2> QED BY <1>1, SubSeqFull, LenProperties
<1>4. Wire(r) = UpTo(P, Len(P))
  BY <1>2, <1>3 DEF UpTo
<1>5. UpTo(P, Len(P)) \in Seq(Tokens)
  <2>1. Len(P) \in 0 .. Len(P) /\ P \in Seq(Seq(Tokens))
    BY <1>1, <1>3
  <2> QED BY <2>1, UpToTyped
<1>6. ASSUME NEW w \in Seq(Tokens) PROVE w \in Seq(ToSet(w))
  <2>1. w = [i \in 1 .. Len(w) |-> w[i]] /\ Len(w) \in Nat /\ DOMAIN w = 1 .. Len(w)
    BY LenProperties
  <2>2. \A i \in 1 .. Len(w) : w[i] \in ToSet(w)
    BY <2>1 DEF ToSet
  <2> QED BY <2>1, <2>2, MapIs
<1> QED BY <1>3, <1>4, <1>5, <1>6 DEF P

\* The tokens that the script is written with.
Written == UNION {ToSet(Wire(script[i])) : i \in DOMAIN script}

\* What a client sends is a sequence of requests.
LEMMA ScriptIs ==
    ASSUME script \in Scripts
    PROVE  /\ script \in Seq(Requests) /\ Len(script) \in Nat
           /\ DOMAIN script = 1 .. Len(script)
           /\ \A k \in 1 .. Len(script) : script[k] \in Requests
<1>1. script \in Seq(Requests)
  BY ScriptsAssumption
<1> DEFINE R == Requests
<1>2. script \in Seq(R)
  BY <1>1
<1> HIDE DEF R
<1>3. /\ Len(script) \in Nat /\ DOMAIN script = 1 .. Len(script)
      /\ \A k \in 1 .. Len(script) : script[k] \in R
  BY <1>2, LenProperties, ElementOfSeq
<1> QED BY <1>1, <1>3 DEF R

\* The requests on the wire are texts.
LEMMA WiresAre ==
    ASSUME script \in Scripts
    PROVE  /\ Wires \in Seq(Seq(Tokens)) /\ Wires \in Seq(Seq(Written)) /\ Len(Wires) = Len(script)
           /\ \A k \in 1 .. Len(script) : Wires[k] = Wire(script[k])
<1> DEFINE n == Len(script)
           W == Wires
           U == Seq(Tokens)
           V == Seq(Written)
<1>1. n \in Nat /\ DOMAIN script = 1 .. n /\ \A k \in 1 .. n : script[k] \in Requests
  BY ScriptIs
<1>2. W = [k \in 1 .. n |-> W[k]] /\ \A k \in 1 .. n : W[k] = Wire(script[k])
  BY <1>1 DEF Wires
<1>3. ASSUME NEW k \in 1 .. n PROVE W[k] \in U /\ W[k] \in V
  <2> DEFINE w == Wire(script[k])
  <2>1. w \in U /\ w \in Seq(ToSet(w))
    BY <1>1, WireIs
  <2>2. ToSet(w) \subseteq Written
    BY <1>1 DEF Written
  <2>3. w \in V
    <3> HIDE DEF w
    <3>1. Seq(ToSet(w)) \subseteq Seq(Written)
      BY <2>2, SeqMonotonic
    <3> QED BY <2>1, <3>1
  <2> QED BY <1>2, <2>1, <2>3
<1> HIDE DEF W, U, V, n
<1>4. W \in Seq(U) /\ W \in Seq(V) /\ Len(W) = n
  BY <1>1, <1>2, <1>3, MapIs
<1> QED BY <1>2, <1>4 DEF W, U, V, n

\* What is written up to a request is the first requests, put together.
LEMMA WrittenIs ==
    ASSUME script \in Scripts, NEW k \in 0 .. Len(script)
    PROVE  WrittenUpTo(k) = UpTo(Wires, k)
<1> DEFINE W == Wires
           U == Seq(Tokens)
           f == [i \in 1 .. k |-> Wire(script[i])]
           t == SubSeq(W, 1, k)
<1>1. Len(script) \in Nat /\ k \in Nat
  BY ScriptIs
<1>2. W \in Seq(U) /\ Len(W) = Len(script) /\ \A i \in 1 .. k : W[i] = Wire(script[i])
  BY <1>1, WiresAre
<1>3. t \in Seq(U) /\ Len(t) = k /\ \A i \in 1 .. k : t[i] = W[i]
  <2> HIDE DEF W, U
  <2> QED BY <1>1, <1>2, FirstOf
<1>4. f = [i \in 1 .. k |-> f[i]] /\ \A i \in 1 .. k : f[i] = Wire(script[i])
  OBVIOUS
<1> HIDE DEF t, f, W
<1>5. DOMAIN t = 1 .. k /\ t = [i \in DOMAIN t |-> t[i]]
  <2> HIDE DEF U
  <2> QED BY <1>3, LenProperties
<1>6. t = f
  BY <1>2, <1>3, <1>4, <1>5
<1> QED BY <1>6 DEF WrittenUpTo, UpTo, f, t, W

\* The stream is all of them, put together.
LEMMA StreamIs ==
    ASSUME script \in Scripts
    PROVE  /\ Begin(0) = 0 /\ Begin(Len(script)) = Len(Stream)
           /\ Stream \in Seq(Written) /\ Len(Stream) \in Nat
<1>1. Len(script) \in Nat /\ 0 \in 0 .. Len(script) /\ Len(script) \in 0 .. Len(script)
  BY ScriptIs
<1>2. WrittenUpTo(0) = UpTo(Wires, 0) /\ Stream = UpTo(Wires, Len(script))
  BY <1>1, WrittenIs DEF Stream
<1>3. UpTo(Wires, 0) = << >> /\ Len(<< >>) = 0
  BY UpToNone
<1>4. Wires \in Seq(Seq(Written)) /\ Len(Wires) = Len(script)
  BY WiresAre
<1>5. UpTo(Wires, Len(script)) \in Seq(Written) /\ Len(UpTo(Wires, Len(script))) \in Nat
  BY <1>1, <1>4, UpToTyped
<1> QED BY <1>2, <1>3, <1>5 DEF Begin, Stream

\* A request in the stream.
LEMMA RequestStands ==
    ASSUME script \in Scripts, NEW k \in 0 .. Len(script) - 1
    PROVE  /\ k + 1 \in 1 .. Len(script) /\ script[k + 1] \in Requests
           /\ Begin(k) \in Nat /\ Begin(k + 1) = Begin(k) + Len(Wire(script[k + 1]))
           /\ Len(Wire(script[k + 1])) \in Nat
           /\ \A m \in k + 1 .. Len(script) : Begin(k + 1) <= Begin(m)
           /\ \A i \in 1 .. Len(Wire(script[k + 1])) : Stream[Begin(k) + i] = Wire(script[k + 1])[i]
<1>1. /\ Len(script) \in Nat /\ k + 1 \in 1 .. Len(script) /\ script[k + 1] \in Requests
      /\ k \in 0 .. Len(script) /\ k + 1 \in 0 .. Len(script) /\ Len(script) \in k + 1 .. Len(script)
      /\ \A m \in k + 1 .. Len(script) : m \in 0 .. Len(script)
  BY ScriptIs
<1>2. Wires \in Seq(Seq(Tokens)) /\ Len(Wires) = Len(script) /\ Wires[k + 1] = Wire(script[k + 1])
  BY <1>1, WiresAre
<1>3. \A m \in 0 .. Len(script) : WrittenUpTo(m) = UpTo(Wires, m)
  BY WrittenIs
<1> DEFINE n == Len(script)
           W == Wires
           U == UpTo(W, n)
<1>4. /\ Len(UpTo(W, k)) \in Nat /\ Len(UpTo(W, k + 1)) = Len(UpTo(W, k)) + Len(W[k + 1])
      /\ \A m \in k + 1 .. n : Len(UpTo(W, k + 1)) <= Len(UpTo(W, m))
      /\ \A i \in 1 .. Len(W[k + 1]) : U[Len(UpTo(W, k)) + i] = W[k + 1][i]
  <2>1. W \in Seq(Seq(Tokens)) /\ k \in 0 .. Len(W) - 1 /\ n \in k + 1 .. Len(W) /\ n = Len(W)
    BY <1>1, <1>2
  <2> HIDE DEF W, n
  <2>2. \A m \in k + 1 .. Len(W) :
          /\ Len(UpTo(W, k)) \in Nat /\ Len(UpTo(W, k + 1)) = Len(UpTo(W, k)) + Len(W[k + 1])
          /\ Len(UpTo(W, k + 1)) <= Len(UpTo(W, m))
          /\ \A i \in 1 .. Len(W[k + 1]) : UpTo(W, m)[Len(UpTo(W, k)) + i] = W[k + 1][i]
    BY <2>1, UpToPart
  <2> QED BY <2>1, <2>2
<1>5. \A m \in 0 .. n : Begin(m) = Len(UpTo(W, m))
  BY <1>3 DEF Begin
<1>6. Stream = U
  BY <1>1, <1>3 DEF Stream
<1>7. Len(Wire(script[k + 1])) \in Nat
  <2>1. Wire(script[k + 1]) \in Seq(Tokens)
    BY <1>1, WireIs
  <2> QED BY <2>1, LenProperties
<1> HIDE DEF W, n, U
<1> QED BY <1>1, <1>2, <1>4, <1>5, <1>6, <1>7 DEF W, n

Stands(s, x, w, n) == \A i \in 1 .. n : s[x + i] = w[i]

\* What stands within something that stands in the stream, stands in the stream.
LEMMA StandsWithin ==
    ASSUME NEW s, NEW w, NEW p, NEW x \in Nat, NEW a \in Nat, NEW n \in Nat, NEW m \in Nat,
           a + m <= n, Stands(s, x, w, n), Stands(w, a, p, m)
    PROVE  Stands(s, x + a, p, m)
<1> SUFFICES ASSUME NEW i \in 1 .. m PROVE s[(x + a) + i] = p[i]
  BY DEF Stands
<1>1. a + i \in 1 .. n /\ (x + a) + i = x + (a + i)
  OBVIOUS
<1> QED BY <1>1 DEF Stands

\* A line in the stream.
LineNo(k, j) == LinesOf(script[k + 1])[j + 1]

\* A line of a request, where it stands in the stream, with the end that it has.
LEMMA LineStands ==
    ASSUME script \in Scripts, NEW k \in 0 .. Len(script) - 1,
           NEW j \in 0 .. Len(script[k + 1].headers) + 1,
           NEW l, l = LineNo(k, j)
    PROVE  /\ Len(l) \in Nat /\ At(k, j) \in Nat /\ Free(l, CR)
           /\ At(k, j + 1) = At(k, j) + Len(l) + 2 /\ At(k, j + 1) <= Begin(k + 1)
           /\ Begin(k + 1) <= Len(Stream)
           /\ \A i \in 1 .. Len(l) : Stream[At(k, j) + i] = l[i]
           /\ Stream[At(k, j) + (Len(l) + 1)] = CR /\ Stream[At(k, j) + (Len(l) + 2)] = LF
<1> DEFINE r == script[k + 1]
           P == Pieces(r)
           w == Wire(r)
           n == Len(r.headers) + 2
<1>1. /\ r \in Requests /\ Begin(k) \in Nat /\ Begin(k + 1) = Begin(k) + Len(w)
      /\ \A i \in 1 .. Len(w) : Stream[Begin(k) + i] = w[i]
  BY RequestStands
<1>2. Begin(k + 1) <= Len(Stream)
  <2>1. Len(script) \in k + 1 .. Len(script)
    BY ScriptIs
  <2> QED BY <2>1, RequestStands, StreamIs
<1>3. /\ Len(r.headers) \in Nat /\ P \in Seq(Seq(Tokens)) /\ Len(P) = n
      /\ j + 1 \in 1 .. n /\ j \in 0 .. Len(P) - 1 /\ n \in j + 1 .. Len(P)
  BY <1>1, PiecesAre, SMTT(30)
<1>4. /\ Len(l) \in Nat /\ Len(P[j + 1]) = Len(l) + 2
      /\ \A i \in 1 .. Len(l) : P[j + 1][i] = l[i]
      /\ P[j + 1][Len(l) + 1] = CR /\ P[j + 1][Len(l) + 2] = LF
  BY <1>1, <1>3, PiecesAre DEF LineNo
<1>5. w = UpTo(P, n)
  BY <1>1, <1>3, WireIs
<1>6. Free(l, CR)
  BY <1>1, <1>3, LinesAre DEF LineNo
<1> HIDE DEF P, w, n
<1> DEFINE a == Len(UpTo(P, j))
           b == Len(UpTo(P, j + 1))
<1>7. /\ a \in Nat /\ b = a + Len(P[j + 1]) /\ b <= Len(UpTo(P, n))
      /\ \A i \in 1 .. Len(P[j + 1]) : UpTo(P, n)[a + i] = P[j + 1][i]
  BY <1>3, UpToPart
<1>8. At(k, j) = Begin(k) + a /\ At(k, j + 1) = Begin(k) + b
  BY DEF At, P
<1> HIDE DEF a, b, r
<1>9. Len(w) \in Nat
  BY RequestStands DEF w, r
<1>10. b = a + Len(l) + 2
  BY <1>4, <1>7
<1>11. b <= Len(w)
  BY <1>5, <1>7
<1>12. \A i \in 1 .. Len(l) + 2 : w[a + i] = P[j + 1][i]
  <2>1. \A i \in 1 .. Len(P[j + 1]) : w[a + i] = P[j + 1][i]
    BY <1>5, <1>7
  <2> QED BY <1>4, <2>1
<1> DEFINE x == Begin(k)
           y == At(k, j)
           z == At(k, j + 1)
           ll == Len(l)
           lw == Len(w)
           p == P[j + 1]
<1>13. x \in Nat /\ a \in Nat /\ ll \in Nat /\ lw \in Nat /\ a + ll + 2 <= lw
  <2>1. x \in Nat
    BY <1>1
  <2>2. a \in Nat
    BY <1>7
  <2>3. ll \in Nat
    BY <1>4
  <2>4. a + ll + 2 <= lw
    BY <1>10, <1>11
  <2> QED BY <1>9, <2>1, <2>2, <2>3, <2>4
<1>14. y = x + a /\ z = x + (a + ll + 2) /\ Begin(k + 1) = x + lw
  BY <1>1, <1>8, <1>10
<1>15. \A i \in 1 .. lw : Stream[x + i] = w[i]
  BY <1>1
<1>16. /\ \A i \in 1 .. ll + 2 : w[a + i] = p[i]
       /\ \A i \in 1 .. ll : p[i] = l[i]
       /\ p[ll + 1] = CR /\ p[ll + 2] = LF
  BY <1>4, <1>12
<1> HIDE DEF x, y, z, ll, lw, p, w
<1>17. /\ \A i \in 1 .. ll : Stream[(x + a) + i] = l[i]
       /\ Stream[(x + a) + (ll + 1)] = CR /\ Stream[(x + a) + (ll + 2)] = LF
  <2>1. Stands(Stream, x, w, lw) /\ Stands(w, a, p, ll + 2)
    BY <1>15, <1>16 DEF Stands
  <2>2. a + (ll + 2) <= lw /\ ll + 2 \in Nat
    BY <1>13
  <2>3. Stands(Stream, x + a, p, ll + 2)
    BY <1>13, <2>1, <2>2, StandsWithin
  <2>4. \A i \in 1 .. ll + 2 : Stream[(x + a) + i] = p[i]
    BY <2>3 DEF Stands
  <2> QED BY <1>13, <1>16, <2>4
<1>18. y \in Nat /\ z = y + ll + 2 /\ z <= Begin(k + 1)
  BY <1>13, <1>14
<1>19. /\ \A i \in 1 .. ll : Stream[y + i] = l[i]
       /\ Stream[y + (ll + 1)] = CR /\ Stream[y + (ll + 2)] = LF
  BY <1>14, <1>17
<1> QED BY <1>2, <1>4, <1>6, <1>18, <1>19 DEF y, z, ll

\* The first line of a request begins with it, and the last one ends it.
LEMMA RequestEnds ==
    ASSUME script \in Scripts, NEW k \in 0 .. Len(script) - 1
    PROVE  /\ At(k, 0) = Begin(k)
           /\ At(k, Len(script[k + 1].headers) + 2) = Begin(k + 1)
<1> DEFINE r == script[k + 1]
           P == Pieces(r)
<1>1. r \in Requests /\ Begin(k) \in Nat /\ Begin(k + 1) = Begin(k) + Len(Wire(r))
  BY RequestStands
<1>2. Wire(r) = UpTo(P, Len(r.headers) + 2)
  BY <1>1, WireIs, PiecesAre
<1>3. UpTo(P, 0) = << >> /\ Len(<< >>) = 0
  BY UpToNone
<1> QED BY <1>1, <1>2, <1>3 DEF At

\* What has been served and what has been taken from the buffer.
Count == Len(served)
Taken == sent - Len(buffer)
Now == script[Count + 1]
\* The buffer is what has been delivered and not been taken.
Delivered ==
    /\ Len(buffer) <= sent
    /\ buffer = SubSeq(Stream, Taken + 1, sent)

\* Each request begins after the one before it, and none is empty.
LEMMA BeginGrows ==
    ASSUME script \in Scripts
    PROVE  /\ \A k \in 0 .. Len(script) : Begin(k) \in Nat /\ Begin(k) <= Len(Stream)
           /\ \A k, m \in 0 .. Len(script) : k < m => Begin(k) < Begin(m)
<1>1. Len(script) \in Nat /\ Begin(Len(script)) = Len(Stream) /\ Len(Stream) \in Nat
  BY ScriptIs, StreamIs
<1>2. ASSUME NEW k \in 0 .. Len(script) - 1
      PROVE  /\ Begin(k) \in Nat /\ Begin(k) < Begin(k + 1) /\ Begin(k + 1) \in Nat
             /\ \A m \in k + 1 .. Len(script) : Begin(k + 1) <= Begin(m)
  <2> DEFINE r == script[k + 1]
             l == LineNo(k, 0)
             e == Begin(k + 1)
  <2>1. /\ Begin(k) \in Nat /\ e = Begin(k) + Len(Wire(r)) /\ Len(Wire(r)) \in Nat /\ r \in Requests
        /\ \A m \in k + 1 .. Len(script) : e <= Begin(m)
    BY RequestStands
  <2>2. 0 \in 0 .. Len(r.headers) + 1
    BY <2>1, LinesAre
  <2>3. At(k, 0 + 1) = At(k, 0) + Len(l) + 2 /\ At(k, 0 + 1) <= e /\ Len(l) \in Nat
    BY <2>2, LineStands
  <2>4. At(k, 0) = Begin(k)
    BY RequestEnds
  <2> HIDE DEF e, l, r
  <2>5. e \in Nat
    BY <2>1
  <2>6. Begin(k) < e
    BY <2>1, <2>3, <2>4, <2>5
  <2> QED BY <2>1, <2>5, <2>6 DEF e
<1>3. ASSUME NEW k \in 0 .. Len(script) PROVE Begin(k) \in Nat /\ Begin(k) <= Len(Stream)
  <2>1. CASE k = Len(script)
    BY <1>1, <2>1
  <2>2. CASE k # Len(script)
    <3>1. k \in 0 .. Len(script) - 1 /\ Len(script) \in k + 1 .. Len(script)
      BY <1>1, <2>2
    <3>2. Begin(k) \in Nat /\ Begin(k) < Begin(k + 1) /\ Begin(k + 1) \in Nat /\ Begin(k + 1) <= Begin(Len(script))
      BY <1>2, <3>1
    <3> QED BY <1>1, <3>2
  <2> QED BY <2>1, <2>2
<1>4. ASSUME NEW k \in 0 .. Len(script), NEW m \in 0 .. Len(script), k < m PROVE Begin(k) < Begin(m)
  <2>1. k \in 0 .. Len(script) - 1 /\ m \in k + 1 .. Len(script)
    BY <1>1, <1>4
  <2>2. Begin(k) < Begin(k + 1) /\ Begin(k + 1) <= Begin(m)
    BY <1>2, <2>1
  <2>3. k + 1 \in 0 .. Len(script)
    BY <2>1, <1>1
  <2> QED BY <1>3, <2>2, <2>3
<1> QED BY <1>3, <1>4

\* The first line found in the buffer is the next one of the request, and it is found once all of
\* it has been delivered.
LEMMA LineFound ==
    ASSUME script \in Scripts, NEW k \in 0 .. Len(script) - 1,
           NEW j \in 0 .. Len(script[k + 1].headers) + 1,
           NEW l, l = LineNo(k, j),
           buffer \in Seq(Written), sent \in 0 .. Len(Stream), Delivered, Taken = At(k, j)
    PROVE  /\ \A n \in 2 .. Len(buffer) : IsLine(n) => n = Len(l) + 2 /\ LineOf(n) = l
           /\ Len(l) \in Nat /\ Len(buffer) \in Nat /\ Len(buffer) = sent - At(k, j) /\ At(k, j) \in Nat
           /\ At(k, j + 1) = At(k, j) + (Len(l) + 2)
           /\ sent >= At(k, j + 1) => Len(l) + 2 \in 2 .. Len(buffer) /\ IsLine(Len(l) + 2)
<1> DEFINE a == At(k, j)
           ll == Len(l)
           lb == Len(buffer)
<1>1. /\ ll \in Nat /\ a \in Nat /\ Free(l, CR) /\ l \in Seq(Tokens)
      /\ At(k, j + 1) = a + (ll + 2)
      /\ \A i \in 1 .. ll : Stream[a + i] = l[i]
      /\ Stream[a + (ll + 1)] = CR /\ Stream[a + (ll + 2)] = LF
  <2>1. /\ ll \in Nat /\ a \in Nat /\ Free(l, CR)
        /\ At(k, j + 1) = a + ll + 2
        /\ \A i \in 1 .. ll : Stream[a + i] = l[i]
        /\ Stream[a + (ll + 1)] = CR /\ Stream[a + (ll + 2)] = LF
    BY LineStands, ZenonT(60)
  <2>2. a + ll + 2 = a + (ll + 2)
    BY <2>1
  <2>3. l \in Seq(Tokens)
    <3> DEFINE U == Seq(Tokens)
               L == LinesOf(script[k + 1])
    <3>1. L \in Seq(U) /\ j + 1 \in 1 .. Len(L)
      <4>1. script[k + 1] \in Requests
        BY RequestStands
      <4>2. L \in Seq(Seq(Tokens)) /\ Len(L) = Len(script[k + 1].headers) + 2 /\ Len(script[k + 1].headers) \in Nat
        BY <4>1, LinesAre
      <4> HIDE DEF L
      <4>3. j + 1 \in 1 .. Len(L)
        BY <4>2
      <4> QED BY <4>2, <4>3
    <3> HIDE DEF U, L
    <3>2. L[j + 1] \in U
      BY <3>1, ElementOfSeq
    <3> QED BY <3>2 DEF U, L, LineNo
  <2> QED BY <2>1, <2>2, <2>3
<1>2. /\ buffer \in Seq(Written) /\ lb \in Nat /\ sent \in Nat /\ lb = sent - a
      /\ \A i \in 1 .. lb : buffer[i] = Stream[a + i]
  <2>1. Stream \in Seq(Written) /\ Len(Stream) \in Nat
    BY StreamIs
  <2>2. sent \in Nat /\ sent <= Len(Stream)
    BY <2>1
  <2>3. a <= sent /\ buffer = SubSeq(Stream, a + 1, sent)
    <3>1. buffer = SubSeq(Stream, a + 1, sent) /\ a = sent - Len(buffer) /\ Len(buffer) <= sent
      <4> HIDE DEF a
      <4>1. Taken = a
        BY DEF a
      <4> QED BY <4>1 DEF Delivered, Taken
    <3>3. Len(buffer) \in Nat
      BY LenProperties
    <3> HIDE DEF a
    <3> QED BY <2>2, <3>1, <3>3
  <2> HIDE DEF a
  <2>4. /\ buffer \in Seq(Written) /\ lb = sent - a
        /\ \A i \in 1 .. sent - a : buffer[i] = Stream[a + i]
    <3> DEFINE f == SubSeq(Stream, a + 1, sent)
    <3>1. Stream \in Seq(Written) /\ a \in Nat /\ sent \in Nat /\ a <= sent /\ sent <= Len(Stream)
      BY <1>1, <2>1, <2>2, <2>3
    <3>2. Len(f) = sent - a /\ \A i \in 1 .. sent - a : f[i] = Stream[a + i]
      BY <3>1, SliceIs
    <3>3. buffer = f
      BY <2>3
    <3> HIDE DEF f
    <3> QED BY <3>2, <3>3 DEF lb
  <2> QED BY <1>1, <2>2, <2>3, <2>4, SMTT(30)
<1> HIDE DEF a, ll, lb
<1>3. \A i \in 1 .. lb : i <= ll => buffer[i] = l[i] /\ buffer[i] # CR
  <2> SUFFICES ASSUME NEW i \in 1 .. lb, i <= ll PROVE buffer[i] = l[i] /\ buffer[i] # CR
    OBVIOUS
  <2>1. i \in 1 .. ll /\ i \in DOMAIN l
    BY <1>1, <1>2, LenProperties DEF ll
  <2> QED BY <1>1, <1>2, <2>1 DEF Free
<1>4. ll + 2 <= lb => buffer[ll + 1] = CR /\ buffer[ll + 2] = LF
  <2> SUFFICES ASSUME ll + 2 <= lb PROVE buffer[ll + 1] = CR /\ buffer[ll + 2] = LF
    OBVIOUS
  <2>1. lb \in Nat /\ \A i \in 1 .. lb : buffer[i] = Stream[a + i]
    BY <1>2
  <2>2. ll \in Nat /\ Stream[a + (ll + 1)] = CR /\ Stream[a + (ll + 2)] = LF
    BY <1>1
  <2>3. ll + 1 \in 1 .. lb /\ ll + 2 \in 1 .. lb
    BY <2>1, <2>2
  <2>4. buffer[ll + 1] = Stream[a + (ll + 1)] /\ buffer[ll + 2] = Stream[a + (ll + 2)]
    BY <2>1, <2>3, Zenon
  <2> QED BY <2>2, <2>4
<1>5. ASSUME NEW n \in 2 .. lb, IsLine(n) PROVE n = ll + 2 /\ LineOf(n) = l
  <2>1. buffer[n - 1] = CR /\ \A m \in 2 .. n - 1 : ~(buffer[m - 1] = CR /\ buffer[m] = LF)
    <3>1. \A m \in 2 .. n - 1 : m \in 2 .. Len(buffer)
      BY <1>2 DEF lb
    <3> QED BY <1>5, <3>1 DEF IsLine, Input!EndsLine
  <2>2. n = ll + 2
    <3>1. ~(n - 1 <= ll)
      <4>1. n - 1 \in 1 .. lb
        BY <1>2
      <4> QED BY <1>3, <2>1, <4>1
    <3>2. n > ll + 2 => ll + 2 \in 2 .. n - 1 /\ ll + 2 <= lb /\ (ll + 2) - 1 = ll + 1
      BY <1>1, <1>2
    <3>3. ~(n > ll + 2)
      BY <1>4, <2>1, <3>2
    <3> QED BY <1>1, <1>2, <3>1, <3>3
  <2>3. LineOf(n) = l
    <3> DEFINE f == SubSeq(buffer, 1, ll)
    <3>1. LineOf(n) = f
      <4>1. n - 2 = ll
        BY <1>1, <2>2
      <4> QED BY <4>1 DEF LineOf
    <3>2. ll \in 0 .. Len(buffer)
      <4>1. ll \in Nat /\ ll <= lb
        BY <1>1, <1>2, <2>2
      <4> QED BY <4>1 DEF lb
    <3>3. f \in Seq(Written) /\ Len(f) = ll /\ \A i \in 1 .. ll : f[i] = buffer[i]
      <4>1. buffer \in Seq(Written)
        BY <1>2
      <4> QED BY <3>2, <4>1, FirstOf
    <3> HIDE DEF f
    <3>4. \A i \in 1 .. ll : f[i] = l[i]
      BY <1>1, <1>2, <1>3, <2>2, <3>3, SMTT(30)
    <3>5. f = l
      <4>1. /\ DOMAIN f = 1 .. ll /\ f = [i \in DOMAIN f |-> f[i]]
            /\ DOMAIN l = 1 .. ll /\ l = [i \in DOMAIN l |-> l[i]]
        BY <1>1, <3>3, LenProperties DEF ll
      <4> QED BY <3>4, <4>1
    <3> QED BY <3>1, <3>5
  <2> QED BY <2>2, <2>3
<1>6. ASSUME sent >= At(k, j + 1) PROVE ll + 2 \in 2 .. lb /\ IsLine(ll + 2)
  <2>1. ll + 2 \in 2 .. lb
    BY <1>1, <1>2, <1>6
  <2>2. Input!EndsLine(ll + 2)
    <3>1. (ll + 2) - 1 = ll + 1 /\ ll + 2 <= lb
      BY <1>1, <2>1
    <3> QED BY <1>4, <2>1, <3>1 DEF Input!EndsLine, lb
  <2>3. ASSUME NEW m \in 2 .. (ll + 2) - 1 PROVE ~Input!EndsLine(m)
    <3>1. m - 1 \in 1 .. lb /\ m - 1 <= ll
      <4>1. ll \in Nat /\ lb \in Nat
        BY <1>1, <1>2
      <4> HIDE DEF ll, lb
      <4> QED BY <4>1, <2>1
    <3>2. buffer[m - 1] # CR
      BY <1>3, <3>1
    <3> QED BY <3>2 DEF Input!EndsLine
  <2> QED BY <2>1, <2>2, <2>3 DEF IsLine
<1> QED BY <1>1, <1>2, <1>5, <1>6 DEF a, ll, lb

-----------------------------------------------------------------------------
(* What the parser makes of a line.                                        *)

\* What the parser makes of a whole request.
Expected(r) ==
    [method |-> r.method, version |-> VersionOf(r.version), path |-> <<r.path>>, query |-> r.query,
     headers |-> [field \in {<<r.headers[i].field>> : i \in DOMAIN r.headers} |->
                     LastValue(r, field[1])]]

\* The first j headers of a request, and what is known of the request then.
LastUpTo(r, j, field) ==
    Trimmed(r.headers[Max({i \in 1 .. j : r.headers[i].field = field})].value)
HeadersUpTo(r, j) ==
    [field \in {<<r.headers[i].field>> : i \in 1 .. j} |-> LastUpTo(r, j, field[1])]
Partly(r, j) == [Expected(r) EXCEPT !.headers = HeadersUpTo(r, j)]

\* The versions that the parser knows.
LEMMA VersionIs ==
    \A text : /\ VersionOf(text) \in {"kUnknown", "kHttp10", "kHttp20"}
              /\ VersionOf(text) # "kUnknown" <=> text \in Http1 \cup Http2
              /\ text \in Http1 => VersionOf(text) = "kHttp10"
              /\ text \in Http2 => VersionOf(text) = "kHttp20"
BY VersionsAssumption DEF VersionOf

\* A request of which the parser has seen some headers, field by field.
LEMMA ExpectedIs ==
    ASSUME NEW r, NEW j
    PROVE  /\ Partly(r, j) = [method |-> r.method, version |-> VersionOf(r.version),
                              path |-> <<r.path>>, query |-> r.query, headers |-> HeadersUpTo(r, j)]
           /\ Expected(r).method = r.method /\ Expected(r).version = VersionOf(r.version)
           /\ Partly(r, j).method = r.method /\ Partly(r, j).version = VersionOf(r.version)
           /\ HeadersUpTo(r, j) = Expected(r).headers => Partly(r, j) = Expected(r)
<1> DEFINE E == [field \in {<<r.headers[i].field>> : i \in DOMAIN r.headers} |-> LastValue(r, field[1])]
           v == VersionOf(r.version)
           p == <<r.path>>
           c == HeadersUpTo(r, j)
<1>1. Expected(r) = [method |-> r.method, version |-> v, path |-> p, query |-> r.query, headers |-> E]
  BY DEF Expected
<1>2. Partly(r, j) = [Expected(r) EXCEPT !.headers = c]
  BY DEF Partly
<1> HIDE DEF E, v, p, c
<1>3. Partly(r, j) = [method |-> r.method, version |-> v, path |-> p, query |-> r.query, headers |-> c]
  BY <1>1, <1>2
<1>4. /\ Expected(r).method = r.method /\ Expected(r).version = v /\ Expected(r).headers = E
      /\ Partly(r, j).method = r.method /\ Partly(r, j).version = v
  BY <1>1, <1>3
<1>5. c = E => Partly(r, j) = Expected(r)
  BY <1>1, <1>3
<1> QED BY <1>3, <1>4, <1>5 DEF v, p, c

\* Before the first header no header is known.
LEMMA NoHeaders ==
    ASSUME NEW r
    PROVE  HeadersUpTo(r, 0) = << >>
<1>1. {<<r.headers[i].field>> : i \in 1 .. 0} = {}
  OBVIOUS
<1> QED BY <1>1 DEF HeadersUpTo

\* After the last header the request is what the handler should see.
LEMMA AllHeaders ==
    ASSUME NEW r \in Requests
    PROVE  Partly(r, Len(r.headers)) = Expected(r)
<1> DEFINE n == Len(r.headers)
           E == [field \in {<<r.headers[i].field>> : i \in DOMAIN r.headers} |-> LastValue(r, field[1])]
<1>1. DOMAIN r.headers = 1 .. n
  BY RequestTyped, LenProperties
<1>2. \A field : LastUpTo(r, n, field) = LastValue(r, field)
  BY <1>1 DEF LastUpTo, LastValue, LastOf
<1>3. HeadersUpTo(r, n) = E
  BY <1>1, <1>2 DEF HeadersUpTo
<1>4. Expected(r).headers = E
  BY DEF Expected
<1> HIDE DEF E
<1> QED BY <1>3, <1>4, ExpectedIs

\* What processRequestLine makes of a request, field by field.
LEMMA ProcessedIs ==
    ASSUME NEW m, NEW v, NEW p, NEW q, NEW h, NEW l
    PROVE  Processed([method |-> m, version |-> v, path |-> p, query |-> q, headers |-> h], l) =
             [method  |-> IF GoodMethod(l) THEN MethodText(l)[1] ELSE m,
              version |-> IF GoodLine(l) THEN VersionOf(VersionText(l)) ELSE v,
              path    |-> IF HasTarget(l) THEN Before(TargetText(l), "?") ELSE p,
              query   |-> IF HasTarget(l) /\ Has(TargetText(l), "?") THEN From(TargetText(l), "?") ELSE q,
              headers |-> h]
<1> DEFINE mt == MethodText(l)[1]
           vt == VersionOf(VersionText(l))
           pt == Before(TargetText(l), "?")
           ft == From(TargetText(l), "?")
           qt == Has(TargetText(l), "?")
           s == [method |-> m, version |-> v, path |-> p, query |-> q, headers |-> h]
<1>1. Processed(s, l) = [s EXCEPT !.method  = IF GoodMethod(l) THEN mt ELSE @,
                                  !.path    = IF HasTarget(l) THEN pt ELSE @,
                                  !.query   = IF HasTarget(l) /\ qt THEN ft ELSE @,
                                  !.version = IF GoodLine(l) THEN vt ELSE @]
  <2> HIDE DEF s
  <2> QED BY DEF Processed
<1> HIDE DEF mt, vt, pt, ft, qt
<1>2. Processed(s, l) = [method  |-> IF GoodMethod(l) THEN mt ELSE m,
                         version |-> IF GoodLine(l) THEN vt ELSE v,
                         path    |-> IF HasTarget(l) THEN pt ELSE p,
                         query   |-> IF HasTarget(l) /\ qt THEN ft ELSE q,
                         headers |-> h]
  BY <1>1
<1> QED BY <1>2 DEF mt, vt, pt, ft, qt

\* processRequestLine on the first line of a request: it succeeds when the request is good, and
\* a line that is refused, parsed again, changes nothing more.
LEMMA FirstLineIs ==
    ASSUME NEW r \in Requests, NEW l, l = RequestLine(r)
    PROVE  /\ HasMethod(l)
           /\ GoodLine(l) <=> IsGood(r)
           /\ IsGood(r) => Processed(NewRequest, l) = Partly(r, 0)
           /\ ~IsGood(r) => /\ Processed(Processed(NewRequest, l), l) = Processed(NewRequest, l)
                            /\ Processed(NewRequest, l).version = "kUnknown"
           /\ Processed(NewRequest, l).method \in Methods \cup {"kInvalid"}
           /\ Processed(NewRequest, l).version \in {"kUnknown", "kHttp10", "kHttp20"}
<1>1. /\ HasMethod(l) /\ MethodText(l) = <<r.method>>
      /\ Has(After(l, " "), " ") /\ VersionText(l) = r.version
      /\ Before(TargetText(l), "?") = <<r.path>>
      /\ Has(TargetText(l), "?") <=> r.query # << >>
      /\ r.query # << >> => From(TargetText(l), "?") = r.query
  BY RequestLineIs
<1>2. GoodMethod(l) <=> r.method \in Methods
  <2>1. <<r.method>> \in {<<m>> : m \in Methods} <=> r.method \in Methods
    <3> DEFINE S == Methods
    <3> HIDE DEF S
    <3>1. \A m \in S : <<r.method>> = <<m>> => r.method = m
      OBVIOUS
    <3> QED BY <3>1 DEF S
  <2> QED BY <1>1, <2>1 DEF GoodMethod
<1>3. HasTarget(l) <=> r.method \in Methods
  BY <1>1, <1>2 DEF HasTarget
<1>4. GoodLine(l) <=> IsGood(r)
  <2>1. VersionOf(VersionText(l)) # "kUnknown" <=> r.version \in Http1 \cup Http2
    BY <1>1, VersionIs
  <2> QED BY <1>3, <2>1 DEF GoodLine, IsGood
<1> DEFINE m == r.method \in Methods
           q == r.query # << >>
           g == IsGood(r)
           v == VersionOf(r.version)
           w == <<r.path>>
           Of(a, b, c, d, e) ==
             [method |-> a, version |-> b, path |-> c, query |-> d, headers |-> e]
           p == Processed(NewRequest, l)
<1>5. ASSUME NEW a, NEW b, NEW c, NEW d, NEW e
      PROVE  Processed(Of(a, b, c, d, e), l) =
               Of(IF m THEN r.method ELSE a, IF g THEN v ELSE b, IF m THEN w ELSE c,
                  IF m /\ q THEN r.query ELSE d, e)
  <2>1. MethodText(l) = <<r.method>>
    BY <1>1, Zenon
  <2>2. MethodText(l)[1] = r.method
    BY <2>1
  <2>3. VersionOf(VersionText(l)) = v /\ Before(TargetText(l), "?") = w
    BY <1>1, Zenon
  <2> DEFINE mt == MethodText(l)[1]
             vt == VersionOf(VersionText(l))
             pt == Before(TargetText(l), "?")
             ft == From(TargetText(l), "?")
             qt == Has(TargetText(l), "?")
  <2>4. Processed(Of(a, b, c, d, e), l) =
          Of(IF GoodMethod(l) THEN mt ELSE a, IF GoodLine(l) THEN vt ELSE b,
             IF HasTarget(l) THEN pt ELSE c, IF HasTarget(l) /\ qt THEN ft ELSE d, e)
    BY ProcessedIs
  <2>5. mt = r.method /\ vt = v /\ pt = w /\ (qt <=> q) /\ (q => ft = r.query)
    BY <1>1, <2>2, <2>3
  <2> HIDE DEF mt, vt, pt, ft, qt, v, w, Of
  <2>6. (IF GoodMethod(l) THEN mt ELSE a) = IF m THEN r.method ELSE a
    BY <1>2, <2>5
  <2>7. (IF GoodLine(l) THEN vt ELSE b) = IF g THEN v ELSE b
    BY <1>4, <2>5
  <2>8. (IF HasTarget(l) THEN pt ELSE c) = IF m THEN w ELSE c
    BY <1>3, <2>5
  <2>9. (IF HasTarget(l) /\ qt THEN ft ELSE d) = IF m /\ q THEN r.query ELSE d
    BY <1>3, <2>5
  <2> QED BY <2>4, <2>6, <2>7, <2>8, <2>9
<1>6. NewRequest = Of("kInvalid", "kUnknown", << >>, << >>, << >>)
  BY DEF NewRequest
<1>7. p = Of(IF m THEN r.method ELSE "kInvalid", IF g THEN v ELSE "kUnknown",
             IF m THEN w ELSE << >>, IF m /\ q THEN r.query ELSE << >>, << >>)
  <2> HIDE DEF Of, m, g, v, w, q
  <2> QED BY <1>5, <1>6
<1>8. ASSUME IsGood(r) PROVE p = Partly(r, 0)
  <2>1. m /\ (IF q THEN r.query ELSE << >>) = r.query
    BY <1>8 DEF IsGood
  <2>2. p = Of(r.method, v, w, r.query, << >>)
    <3> HIDE DEF Of, p, v, w
    <3> QED BY <1>7, <1>8, <2>1
  <2>3. Partly(r, 0) = Of(r.method, v, w, r.query, HeadersUpTo(r, 0))
    BY ExpectedIs
  <2> QED BY <2>2, <2>3, NoHeaders
<1>9. ASSUME ~IsGood(r) PROVE Processed(p, l) = p /\ p.version = "kUnknown"
  <2> DEFINE a == IF m THEN r.method ELSE "kInvalid"
             c == IF m THEN w ELSE << >>
             d == IF m /\ q THEN r.query ELSE << >>
  <2>1. p = Of(a, "kUnknown", c, d, << >>)
    <3> HIDE DEF Of, p, v, w, m, q
    <3> QED BY <1>7, <1>9
  <2>2. p.version = "kUnknown"
    <3> HIDE DEF p, a, c, d
    <3> QED BY <2>1
  <2>3. Processed(Of(a, "kUnknown", c, d, << >>), l) =
          Of(IF m THEN r.method ELSE a, IF g THEN v ELSE "kUnknown", IF m THEN w ELSE c,
             IF m /\ q THEN r.query ELSE d, << >>)
    <3> HIDE DEF Of, v, w, a, c, d, m, q, g
    <3> QED BY <1>5
  <2>4. /\ (IF m THEN r.method ELSE a) = a /\ (IF g THEN v ELSE "kUnknown") = "kUnknown"
        /\ (IF m THEN w ELSE c) = c /\ (IF m /\ q THEN r.query ELSE d) = d
    <3> HIDE DEF v, w, m, q
    <3> QED BY <1>9
  <2>5. Processed(p, l) = p
    <3> HIDE DEF Of, v, w, a, c, d, m, q, g, p
    <3> QED BY <2>1, <2>3, <2>4
  <2> QED BY <2>2, <2>5
<1>10. p.method \in Methods \cup {"kInvalid"} /\ p.version \in {"kUnknown", "kHttp10", "kHttp20"}
  <2>1. /\ p.method = IF m THEN r.method ELSE "kInvalid"
        /\ p.version = IF g THEN v ELSE "kUnknown"
    <3> HIDE DEF p, m, g, v, w, q
    <3> QED BY <1>7
  <2> HIDE DEF p, v, g
  <2>2. v \in {"kUnknown", "kHttp10", "kHttp20"}
    BY VersionIs DEF v
  <2> QED BY <2>1, <2>2
<1> QED BY <1>1, <1>4, <1>8, <1>9, <1>10

\* The greatest element of a set of numbers.
LEMMA GreatestIs ==
    ASSUME NEW S, NEW m \in S, S \subseteq Nat, \A i \in S : i <= m
    PROVE  Max(S) = m
<1>1. \E x \in S : \A y \in S : x >= y
  OBVIOUS
<1>2. Max(S) \in S /\ \A y \in S : Max(S) >= y
  BY <1>1 DEF Max
<1>3. Max(S) \in Nat /\ m \in Nat /\ Max(S) <= m /\ Max(S) >= m
  BY <1>2
<1> QED BY <1>3

\* Adding the next header to the first j of them gives the first j + 1, the last of a name in force.
LEMMA NextHeader ==
    ASSUME NEW r \in Requests, NEW j \in 0 .. Len(r.headers) - 1,
           NEW l, l = HeaderLine(r.headers[j + 1])
    PROVE  Has(l, ":") /\ WithHeader(Partly(r, j), l) = Partly(r, j + 1)
<1> DEFINE H == r.headers
           h == r.headers[j + 1]
           f == h.field
           v == Trimmed(h.value)
           A == {<<H[i].field>> : i \in 1 .. j}
           B == {<<H[i].field>> : i \in 1 .. j + 1}
<1>1. Len(H) \in Nat /\ h \in [field : Words, value : Seq(Tokens \ {CR, LF})]
  <2> DEFINE S == [field : Words, value : Seq(Tokens \ {CR, LF})]
  <2>1. H \in Seq(S) /\ Len(H) \in Nat
    BY RequestTyped, LenProperties
  <2> HIDE DEF S, H
  <2>2. j + 1 \in 1 .. Len(H)
    BY <2>1 DEF H
  <2>3. H[j + 1] \in S
    BY <2>1, <2>2, ElementOfSeq
  <2> QED BY <2>1, <2>3 DEF S, H
<1>2. Has(l, ":") /\ Before(l, ":") = <<f>> /\ Trimmed(After(l, ":")) = v
  <2>1. Has(l, ":") /\ Before(l, ":") = <<h.field>> /\ After(l, ":") = h.value
    BY <1>1, HeaderLineIs
  <2> QED BY <2>1
<1>3. B = A \cup {<<f>>}
  <2>1. 1 .. j + 1 = 1 .. j \cup {j + 1}
    OBVIOUS
  <2> QED BY <2>1
<1>4. LastUpTo(r, j + 1, f) = v
  <2> DEFINE S == {i \in 1 .. j + 1 : H[i].field = f}
  <2>1. j + 1 \in S /\ S \subseteq Nat /\ \A i \in S : i <= j + 1
    OBVIOUS
  <2> HIDE DEF S
  <2>2. Max(S) = j + 1
    BY <2>1, GreatestIs
  <2> QED BY <2>2 DEF LastUpTo, S
<1>5. ASSUME NEW x, x # f PROVE LastUpTo(r, j + 1, x) = LastUpTo(r, j, x)
  <2>1. {i \in 1 .. j + 1 : H[i].field = x} = {i \in 1 .. j : H[i].field = x}
    <3>1. \A i \in 1 .. j + 1 : i \in 1 .. j \/ i = j + 1
      OBVIOUS
    <3> QED BY <1>5, <3>1
  <2> QED BY <2>1 DEF LastUpTo
<1> DEFINE c == HeadersUpTo(r, j)
           d == HeadersUpTo(r, j + 1)
           e == Assigned(c, <<f>>, v)
<1>6. /\ c = [field \in A |-> LastUpTo(r, j, field[1])]
      /\ d = [field \in B |-> LastUpTo(r, j + 1, field[1])]
  BY DEF HeadersUpTo
<1>7. \A x \in A : x # <<f>> => x[1] # f
  OBVIOUS
<1>8. <<f>>[1] = f
  OBVIOUS
<1> HIDE DEF A, B, c, d, f, v, h
<1>9. e = [x \in {<<f>>} \cup A |-> IF x = <<f>> THEN v ELSE c[x]]
  <2>1. DOMAIN c \cup {<<f>>} = {<<f>>} \cup A
    BY <1>6
  <2> QED BY <2>1 DEF Assigned
<1>10. \A x \in B : d[x] = IF x = <<f>> THEN v ELSE c[x]
  <2> TAKE x \in B
  <2>1. CASE x = <<f>>
    BY <1>4, <1>6, <1>8, <2>1
  <2>2. CASE x # <<f>>
    BY <1>3, <1>5, <1>6, <1>7, <2>2
  <2> QED BY <2>1, <2>2
<1>11. d = e
  <2> DEFINE g == [x \in B |-> IF x = <<f>> THEN v ELSE c[x]]
  <2>1. {<<f>>} \cup A = B
    BY <1>3
  <2>2. e = g
    BY <1>9, <2>1
  <2>3. d = [x \in B |-> d[x]]
    BY <1>6
  <2>4. d = g
    BY <1>10, <2>3
  <2> QED BY <2>2, <2>4
<1>12. WithHeader(Partly(r, j), l) = Partly(r, j + 1)
  <2> HIDE DEF e
  <2>1. Partly(r, j).headers = c /\ Partly(r, j + 1) = [Partly(r, j) EXCEPT !.headers = d]
    <3> DEFINE m == r.method
               w == VersionOf(r.version)
               p == <<r.path>>
               q == r.query
    <3>1. /\ Partly(r, j) = [method |-> m, version |-> w, path |-> p, query |-> q, headers |-> c]
          /\ Partly(r, j + 1) = [method |-> m, version |-> w, path |-> p, query |-> q, headers |-> d]
      BY ExpectedIs DEF c, d
    <3> HIDE DEF m, w, p, q
    <3> QED BY <3>1
  <2>2. WithHeader(Partly(r, j), l) = [Partly(r, j) EXCEPT !.headers = e]
    BY <1>2, <2>1 DEF WithHeader, e
  <2> QED BY <1>11, <2>1, <2>2
<1> QED BY <1>2, <1>12

-----------------------------------------------------------------------------
(* The inductive invariant.                                                *)

ServedInOrder ==
    /\ Count <= Len(script)
    /\ \A i \in DOMAIN served : IsGood(script[i]) /\ served[i] = Expected(script[i])

\* Where the parser stands, and what it has found.
AtRequestLine ==
    /\ state = "kExpectRequestLine"
    /\ Taken = Begin(Count)
    /\ \/ request = NewRequest /\ ~aborted
       \/ /\ Count < Len(script) /\ ~IsGood(Now) /\ sent >= At(Count, 1)
          /\ request = Processed(NewRequest, RequestLine(Now))
          /\ conn = "kDisconnecting"
AtHeaders ==
    /\ state = "kExpectHeaders" /\ ~aborted
    /\ Count < Len(script) /\ IsGood(Now)
    /\ \E j \in 0 .. Len(Now.headers) : Taken = At(Count, j + 1) /\ request = Partly(Now, j)
AtEnd ==
    /\ state = "kGotAll" /\ ~aborted
    /\ Count < Len(script) /\ IsGood(Now)
    /\ Taken = Begin(Count + 1) /\ request = Expected(Now)
Parsing == AtRequestLine \/ AtHeaders \/ AtEnd

\* A client that waits for its answers has written no more than one request past them.
Waits == ~pipelines /\ Len(answers) < Len(script) => sent <= Begin(Len(answers) + 1)
NothingLeft == pc = "idle" /\ ~pipelines /\ ~aborted /\ conn = "kConnected" => NoLine

AnswersKept == AnswersInOrder /\ (conn = "kConnected" => Len(answers) = Count)

\* What is there, is delivered in order, and is a text of the client's.
Buffers == /\ script \in Scripts /\ sent \in 0 .. Len(Stream)
           /\ buffer \in Seq(Written) /\ line \in Seq(Written)
           /\ Delivered
Types == /\ pipelines \in BOOLEAN /\ pc \in {"idle", "parse", "request"}
         /\ state \in {"kExpectRequestLine", "kExpectHeaders", "kGotAll"}
         /\ (state = "kGotAll") = (pc = "request")
         /\ request.method \in Methods \cup {"kInvalid"}
         /\ request.version \in {"kUnknown", "kHttp10", "kHttp20"}
         /\ conn \in {"kConnected", "kDisconnecting"}
         /\ aborted \in BOOLEAN
         /\ served \in Seq(Range(served)) /\ answers \in Seq(Range(answers))

IInv == /\ Buffers /\ Types /\ ServedInOrder /\ Parsing
        /\ Waits /\ NothingLeft /\ AnswersKept

\* What the client writes is settled by its script.
LEMMA SameScript ==
    ASSUME script' = script
    PROVE  /\ Stream' = Stream /\ Written' = Written
           /\ \A k : Begin(k)' = Begin(k)
           /\ \A k, j : At(k, j)' = At(k, j)
<1>1. ASSUME NEW k PROVE WrittenUpTo(k)' = WrittenUpTo(k)
  BY DEF WrittenUpTo
<1>2. ASSUME NEW k PROVE Begin(k)' = Begin(k)
  BY <1>1 DEF Begin
<1>3. ASSUME NEW k, NEW j PROVE At(k, j)' = At(k, j)
  BY <1>2 DEF At
<1>4. Stream' = Stream
  BY DEF Stream, WrittenUpTo
<1>5. Written' = Written
  BY DEF Written
<1> QED BY <1>2, <1>3, <1>4, <1>5

\* A line is taken.
LEMMA LineTaken ==
    ASSUME Buffers, NEW k \in 0 .. Len(script) - 1,
           NEW j \in 0 .. Len(script[k + 1].headers) + 1, Taken = At(k, j),
           NEW n \in 2 .. Len(buffer), IsLine(n), Input!TakeLine(n),
           script' = script, sent' = sent
    PROVE  Buffers' /\ Taken' = At(k, j + 1) /\ LineOf(n) = LineNo(k, j)
<1> DEFINE l == LineNo(k, j)
           S == Stream
           a == At(k, j)
           m == Len(buffer)
<1>1. /\ script \in Scripts /\ sent \in 0 .. Len(Stream) /\ buffer \in Seq(Written) /\ Delivered
  BY DEF Buffers
<1>2. /\ n = Len(l) + 2 /\ LineOf(n) = l /\ a \in Nat /\ m \in Nat /\ m = sent - a
      /\ At(k, j + 1) = a + (Len(l) + 2)
  BY <1>1, LineFound
<1>3. buffer' = SubSeq(buffer, n + 1, m) /\ line' = SubSeq(buffer, 1, n)
  BY DEF Input!TakeLine, Input!TakeFront, Input!After, Input!First
<1> HIDE DEF l, a, m, S
<1>4. n \in 0 .. m /\ n \in Nat
  BY <1>2 DEF m
<1>5. line' \in Seq(Written)
  BY <1>1, <1>3, <1>4, FirstOf DEF m
<1>6. buffer' \in Seq(Written) /\ Len(buffer') = m - n
  <2>1. n \in Nat /\ m \in Nat /\ n <= m /\ m = Len(buffer) /\ buffer \in Seq(Written)
    BY <1>1, <1>2, <1>4 DEF m
  <2> QED BY <1>3, <2>1, SliceIs
<1>7. sent \in Nat /\ a + n <= sent /\ sent - Len(buffer') = a + n
  <2>1. sent \in Nat
    BY <1>1, StreamIs
  <2> QED BY <1>2, <1>4, <1>6, <2>1
<1>8. buffer' = SubSeq(S, (a + n) + 1, sent)
  <2>1. buffer = SubSeq(S, a + 1, sent)
    <3>1. Taken = a
      BY DEF a
    <3> QED BY <1>1, <3>1 DEF Delivered, S
  <2>2. S \in Seq(Written) /\ Len(S) \in Nat
    BY <1>1, StreamIs DEF S
  <2>3. sent \in Nat /\ sent <= Len(S)
    BY <1>1, <2>2 DEF S
  <2>4. a <= sent /\ m = sent - a /\ n \in 0 .. sent - a
    BY <1>2, <1>4, <2>3
  <2>5. SubSeq(SubSeq(S, a + 1, sent), n + 1, m) = SubSeq(S, (a + n) + 1, sent)
    BY <1>2, <2>2, <2>3, <2>4, SliceOfSlice, SMTT(30)
  <2> QED BY <1>3, <2>1, <2>5
<1>9. Taken' = a + n
  BY <1>7 DEF Taken
<1>10. Stream' = S /\ Written' = Written
  BY SameScript DEF S
<1>11. Delivered'
  <2>1. Len(buffer') <= sent
    BY <1>2, <1>4, <1>6, <1>7
  <2> QED BY <1>8, <1>9, <1>10, <2>1 DEF Delivered
<1>12. Buffers'
  BY <1>1, <1>5, <1>6, <1>10, <1>11 DEF Buffers, S
<1> QED BY <1>2, <1>9, <1>12 DEF l, a

\* More is delivered.
LEMMA MoreDelivered ==
    ASSUME Buffers, NEW upTo \in sent + 1 .. Len(Stream),
           Input!PutBack(SubSeq(Stream, sent + 1, upTo)),
           script' = script, sent' = upTo
    PROVE  Buffers' /\ Taken' = Taken
<1> DEFINE S == Stream
           p == SubSeq(S, sent + 1, upTo)
           m == Len(buffer)
           a == sent - m
<1>1. /\ script \in Scripts /\ sent \in 0 .. Len(S) /\ buffer \in Seq(Written)
      /\ m \in Nat /\ m <= sent /\ buffer = SubSeq(S, a + 1, sent)
      /\ S \in Seq(Written) /\ Len(S) \in Nat
  <2>1. script \in Scripts /\ sent \in 0 .. Len(S) /\ buffer \in Seq(Written)
    BY DEF Buffers
  <2>2. m <= sent /\ buffer = SubSeq(S, a + 1, sent)
    BY DEF Buffers, Delivered, Taken
  <2>3. S \in Seq(Written) /\ Len(S) \in Nat
    BY <2>1, StreamIs
  <2>4. m \in Nat
    BY <2>1, LenProperties
  <2> QED BY <2>1, <2>2, <2>3, <2>4
<1>2. upTo \in Nat /\ sent \in Nat /\ upTo <= Len(S) /\ sent <= upTo /\ a \in Nat
  <2>1. sent \in Nat
    BY <1>1
  <2> HIDE DEF S
  <2>2. upTo \in Nat /\ upTo <= Len(S) /\ sent <= upTo
    BY <1>1, <2>1 DEF S
  <2> QED BY <1>1, <2>1, <2>2
<1>3. buffer' = buffer \o p /\ line' = << >>
  BY DEF Input!PutBack
<1>4. p \in Seq(Written) /\ Len(p) = upTo - sent
  <2> HIDE DEF S
  <2> QED BY <1>1, <1>2, SliceIs
<1>5. buffer \o p = SubSeq(S, a + 1, upTo)
  <2>1. a + 1 \in 1 .. Len(S) + 1 /\ sent \in (a + 1) - 1 .. Len(S) /\ upTo \in sent .. Len(S)
    BY <1>1, <1>2
  <2> DEFINE x == SubSeq(S, a + 1, sent)
  <2>2. x \o p = SubSeq(S, a + 1, upTo)
    <3> HIDE DEF S, a
    <3> QED BY <1>1, <2>1, ConcatAdjacentSubSeq
  <2>3. buffer = x
    BY <1>1
  <2> HIDE DEF x, p
  <2> QED BY <2>2, <2>3
<1> HIDE DEF p
<1>6. buffer' \in Seq(Written) /\ Len(buffer') = m + (upTo - sent)
  <2>1. IsConcat(buffer', buffer, p)
    BY <1>3 DEF IsConcat
  <2>2. buffer \in Seq(Written) /\ p \in Seq(Written)
    BY <1>1, <1>4
  <2>3. buffer' \in Seq(Written) /\ Len(buffer') = Len(buffer) + Len(p)
    BY <2>1, <2>2, IsConcatIs
  <2> QED BY <1>4, <2>3
<1>7. Taken' = Taken /\ Len(buffer') <= sent'
  BY <1>1, <1>2, <1>6 DEF Taken
<1>8. Stream' = S /\ Written' = Written
  BY SameScript
<1>9. Delivered'
  <2>1. Taken' = a
    BY <1>7 DEF Taken
  <2>2. buffer' = SubSeq(S, a + 1, upTo)
    BY <1>3, <1>5
  <2> HIDE DEF a, S
  <2> QED BY <1>7, <1>8, <2>1, <2>2 DEF Delivered
<1>10. line' \in Seq(Written)
  BY <1>3
<1>11. Buffers'
  <2>1. script' \in Scripts /\ upTo \in 0 .. Len(S)
    BY <1>1, <1>2
  <2> HIDE DEF S
  <2> QED BY <1>6, <1>8, <1>9, <1>10, <2>1 DEF Buffers
<1> QED BY <1>7, <1>11

\* A line is found in the request that comes next.
LEMMA LineOfNow ==
    ASSUME Buffers, ServedInOrder, Taken = Begin(Count), Count \in Nat,
           NEW n \in 2 .. Len(buffer), IsLine(n)
    PROVE  /\ Count \in 0 .. Len(script) - 1 /\ Now \in Requests /\ 0 \in 0 .. Len(Now.headers) + 1
           /\ Taken = At(Count, 0) /\ At(Count, 1) \in Nat
           /\ LineOf(n) = RequestLine(Now) /\ LineNo(Count, 0) = RequestLine(Now)
           /\ sent >= At(Count, 1)
<1>1. /\ script \in Scripts /\ sent \in 0 .. Len(Stream) /\ buffer \in Seq(Written) /\ Delivered
      /\ Len(script) \in Nat /\ Begin(Len(script)) = Len(Stream) /\ Len(Stream) \in Nat
      /\ Count <= Len(script)
  BY ScriptIs, StreamIs DEF Buffers, ServedInOrder
<1>2. Len(buffer) \in Nat
  BY <1>1, LenProperties
<1>3. Count \in 0 .. Len(script) - 1
  <2>1. ASSUME Count = Len(script) PROVE FALSE
    BY <1>1, <1>2, <2>1 DEF Taken
  <2> QED BY <1>1, <2>1
<1>4. Now \in Requests /\ At(Count, 0) = Begin(Count)
  BY <1>1, <1>3, RequestStands, RequestEnds DEF Now
<1>5. Len(Now.headers) \in Nat /\ LineNo(Count, 0) = RequestLine(Now)
  <2>1. Len(Now.headers) \in Nat /\ LinesOf(Now)[1] = RequestLine(Now)
    BY <1>4, LinesAre
  <2> QED BY <2>1 DEF LineNo, Now
<1>6. 0 \in 0 .. Len(Now.headers) + 1
  BY <1>5
<1> DEFINE l == LineNo(Count, 0)
<1>7. /\ n = Len(l) + 2 /\ LineOf(n) = l /\ Len(buffer) = sent - At(Count, 0) /\ At(Count, 0) \in Nat
      /\ Len(l) \in Nat /\ At(Count, 0 + 1) = At(Count, 0) + (Len(l) + 2)
  <2>1. 0 \in 0 .. Len(script[Count + 1].headers) + 1
    BY <1>6 DEF Now
  <2>2. Taken = At(Count, 0)
    BY <1>4
  <2> HIDE DEF l
  <2> QED BY <1>1, <1>3, <2>1, <2>2, LineFound DEF l
<1> HIDE DEF l
<1>8. sent >= At(Count, 1) /\ At(Count, 1) \in Nat
  <2>1. sent \in Nat
    BY <1>1
  <2> QED BY <1>7, <2>1
<1> QED BY <1>3, <1>4, <1>5, <1>6, <1>7, <1>8 DEF l

\* A line is found after the request line.
LEMMA LineOfHeaders ==
    ASSUME Buffers, Count \in 0 .. Len(script) - 1, NEW j \in 0 .. Len(Now.headers), Taken = At(Count, j + 1),
           NEW n \in 2 .. Len(buffer), IsLine(n)
    PROVE  /\ Now \in Requests /\ j + 1 \in 0 .. Len(Now.headers) + 1
           /\ LineOf(n) = LineNo(Count, j + 1)
           /\ Has(LineOf(n), ":") <=> j < Len(Now.headers)
           /\ j < Len(Now.headers) => j \in 0 .. Len(Now.headers) - 1 /\ LineOf(n) = HeaderLine(Now.headers[j + 1])
<1>1. script \in Scripts /\ sent \in 0 .. Len(Stream) /\ buffer \in Seq(Written) /\ Delivered
  BY DEF Buffers
<1>2. Now \in Requests
  BY <1>1, RequestStands DEF Now
<1> DEFINE h == Len(Now.headers)
<1>3. /\ h \in Nat /\ \A i \in 1 .. h : LinesOf(Now)[i + 1] = HeaderLine(Now.headers[i])
      /\ LinesOf(Now)[h + 2] = << >>
  BY <1>2, LinesAre
<1>4. j + 1 \in 0 .. h + 1 /\ j \in 0 .. h
  BY <1>3
<1>5. LineOf(n) = LineNo(Count, j + 1)
  <2>1. j + 1 \in 0 .. Len(script[Count + 1].headers) + 1
    BY <1>4 DEF Now
  <2> QED BY <1>1, <2>1, LineFound
<1>6. LineNo(Count, j + 1) = LinesOf(Now)[(j + 1) + 1]
  BY DEF LineNo, Now
<1> HIDE DEF h
<1>7. CASE j < h
  <2>1. j + 1 \in 1 .. h /\ j \in 0 .. h - 1
    BY <1>3, <1>4, <1>7
  <2>2. LineOf(n) = HeaderLine(Now.headers[j + 1])
    BY <1>3, <1>5, <1>6, <2>1
  <2>3. Has(LineOf(n), ":")
    BY <1>2, <2>1, <2>2, NextHeader DEF h
  <2> QED BY <1>2, <1>4, <1>5, <1>7, <2>1, <2>2, <2>3 DEF h
<1>8. CASE ~(j < h)
  <2>1. (j + 1) + 1 = h + 2
    BY <1>3, <1>4, <1>8
  <2>2. LineOf(n) = << >>
    BY <1>3, <1>5, <1>6, <2>1
  <2>3. ~Has(LineOf(n), ":")
    BY <2>2, FreeEmpty, HasNot
  <2> QED BY <1>2, <1>4, <1>5, <1>8, <2>3 DEF h
<1> QED BY <1>7, <1>8

IsAppend(t, s, e) == t = Append(s, e)

\* One more element at the end of a sequence.
LEMMA AppendSelf ==
    ASSUME NEW s, s \in Seq(Range(s)), NEW e, NEW t, IsAppend(t, s, e)
    PROVE  /\ Len(s) \in Nat /\ DOMAIN s = 1 .. Len(s)
           /\ t \in Seq(Range(t)) /\ Len(t) = Len(s) + 1 /\ DOMAIN t = 1 .. Len(s) + 1
           /\ \A i \in 1 .. Len(s) : t[i] = s[i]
           /\ t[Len(s) + 1] = e
<1> DEFINE S == Range(s) \cup {e}
<1>1. s \in Seq(S) /\ Len(s) \in Nat /\ DOMAIN s = 1 .. Len(s)
  BY SeqMonotonic, LenProperties
<1> HIDE DEF S
<1>2. e \in S
  BY DEF S
<1>3. /\ t \in Seq(S) /\ Len(t) = Len(s) + 1
      /\ \A i \in 1 .. Len(s) : t[i] = s[i]
      /\ t[Len(s) + 1] = e
  BY <1>1, <1>2, AppendProperties DEF IsAppend
<1>4. DOMAIN t = 1 .. Len(s) + 1 /\ t = [i \in 1 .. Len(s) + 1 |-> t[i]]
  BY <1>1, <1>3, LenProperties
<1>5. t \in Seq(Range(t))
  <2>1. \A i \in 1 .. Len(s) + 1 : t[i] \in Range(t)
    BY <1>4 DEF Range
  <2>2. Len(s) + 1 \in Nat
    BY <1>1
  <2> QED BY <1>4, <2>1, <2>2, MapIs
<1> QED BY <1>1, <1>3, <1>4, <1>5

\* The two histories are sequences.
LEMMA CountIs ==
    ASSUME Types
    PROVE  /\ Count \in Nat /\ DOMAIN served = 1 .. Count
           /\ Len(answers) \in Nat /\ DOMAIN answers = 1 .. Len(answers)
BY LenProperties DEF Types, Count

\* The answers, whatever is sent.
LEMMA AnswerSent ==
    ASSUME Types, AnswersKept, NEW r, NEW response, NEW text,
           Sent(r, response, text), Shutdown(response.closeConnection), script' = script,
           \A i \in DOMAIN served : i \in DOMAIN served' /\ served'[i] = served[i],
           r = NewRequest => ~IsGood(script[Count + 1]),
           r # NewRequest => Count + 1 \in DOMAIN served' /\ served'[Count + 1] = r,
           ~response.closeConnection => Count' = Count + 1
    PROVE  /\ AnswersKept' /\ answers' \in Seq(Range(answers'))
           /\ conn' \in {"kConnected", "kDisconnecting"}
           /\ conn' = "kConnected" => conn = "kConnected"
           /\ Len(answers') \in Nat /\ Len(answers) <= Len(answers')
<1> DEFINE n == Len(answers)
           a == [request |-> r, response |-> response]
           closes == response.closeConnection
<1>1. /\ Count \in Nat /\ DOMAIN served = 1 .. Count /\ n \in Nat /\ DOMAIN answers = 1 .. n
      /\ answers \in Seq(Range(answers)) /\ conn \in {"kConnected", "kDisconnecting"}
  BY CountIs DEF Types
<1>2. /\ \A i \in 1 .. n : /\ Refused(answers[i]) => ~IsGood(script[i])
                           /\ ~Refused(answers[i]) => i \in DOMAIN served /\ answers[i].request = served[i]
                           /\ answers[i].response.closeConnection => i = n
      /\ (conn = "kDisconnecting") <=> (\E i \in 1 .. n : answers[i].response.closeConnection)
      /\ conn = "kConnected" => n = Count
  BY <1>1 DEF AnswersKept, AnswersInOrder
<1>3. CASE conn = "kConnected"
  <2>1. /\ answers' = Append(answers, a)
        /\ conn' = IF closes THEN "kDisconnecting" ELSE "kConnected"
        /\ n = Count /\ \A i \in 1 .. n : ~answers[i].response.closeConnection
    BY <1>2, <1>3 DEF Sent, Shutdown
  <2>2. /\ answers' \in Seq(Range(answers')) /\ Len(answers') = n + 1 /\ DOMAIN answers' = 1 .. n + 1
        /\ \A i \in 1 .. n : answers'[i] = answers[i]
        /\ answers'[n + 1] = a
    <3>1. IsAppend(answers', answers, a) /\ answers \in Seq(Range(answers))
      BY <1>1, <2>1 DEF IsAppend
    <3> HIDE DEF a
    <3> QED BY <3>1, AppendSelf
  <2>3. a.request = r /\ a.response = response /\ a.response.closeConnection = closes
    OBVIOUS
  <2> HIDE DEF a, closes, n
  <2>4. ASSUME NEW i \in 1 .. n + 1
        PROVE  /\ Refused(answers'[i]) => ~IsGood(script[i])
               /\ ~Refused(answers'[i]) => i \in DOMAIN served' /\ answers'[i].request = served'[i]
               /\ answers'[i].response.closeConnection => i = n + 1
    <3>1. CASE i = n + 1
      BY <2>1, <2>2, <2>3, <3>1 DEF Refused
    <3>2. CASE i # n + 1
      <4>1. i \in 1 .. n
        BY <1>1, <3>2
      <4>2. answers'[i] = answers[i]
        BY <2>2, <4>1
      <4>3. ~Refused(answers[i]) => i \in DOMAIN served' /\ answers[i].request = served'[i]
        BY <1>2, <4>1
      <4> QED BY <1>2, <2>1, <4>1, <4>2, <4>3
    <3> QED BY <3>1, <3>2
  <2>5. (conn' = "kDisconnecting") <=> (\E i \in 1 .. n + 1 : answers'[i].response.closeConnection)
    <3>1. n + 1 \in 1 .. n + 1
      BY <1>1
    <3>2. closes => (\E i \in 1 .. n + 1 : answers'[i].response.closeConnection)
      BY <2>2, <2>3, <3>1
    <3>3. (\E i \in 1 .. n + 1 : answers'[i].response.closeConnection) => closes
      <4> SUFFICES ASSUME NEW i \in 1 .. n + 1, answers'[i].response.closeConnection PROVE closes
        OBVIOUS
      <4>1. i = n + 1
        BY <2>4
      <4> QED BY <2>2, <2>3, <4>1
    <3>4. (conn' = "kDisconnecting") <=> closes
      BY <2>1
    <3> QED BY <3>2, <3>3, <3>4
  <2>6. conn' = "kConnected" => Len(answers') = Count'
    BY <2>1, <2>2 DEF closes
  <2>7. AnswersInOrder'
    BY <2>2, <2>4, <2>5 DEF AnswersInOrder, Refused
  <2>8. n + 1 \in Nat /\ n <= n + 1
    BY <1>1
  <2> QED BY <1>3, <2>1, <2>2, <2>6, <2>7, <2>8 DEF AnswersKept, n
<1>4. CASE conn # "kConnected"
  <2>1. answers' = answers /\ conn' = "kDisconnecting" /\ conn = "kDisconnecting"
    BY <1>1, <1>4 DEF Sent, Shutdown
  <2>2. \A i \in 1 .. n : ~Refused(answers[i]) => i \in DOMAIN served' /\ answers[i].request = served'[i]
    BY <1>2
  <2>3. AnswersInOrder'
    BY <1>1, <1>2, <2>1, <2>2 DEF AnswersInOrder, Refused
  <2> QED BY <1>1, <2>1, <2>3 DEF AnswersKept
<1> QED BY <1>3, <1>4

\* A client that waits goes on waiting while no more is delivered.
LEMMA StillWaits ==
    ASSUME Buffers, Types, Waits, sent' = sent, script' = script, pipelines' = pipelines,
           Len(answers') \in Nat, Len(answers) <= Len(answers')
    PROVE  Waits'
<1>1. /\ Len(script) \in Nat /\ Len(answers) \in Nat /\ sent \in Nat
      /\ \A k \in 0 .. Len(script) : Begin(k) \in Nat
      /\ \A k, m \in 0 .. Len(script) : k < m => Begin(k) < Begin(m)
  BY ScriptIs, StreamIs, BeginGrows, CountIs DEF Buffers
<1> DEFINE x == Len(answers)
           y == Len(answers')
<1> SUFFICES ASSUME ~pipelines, y < Len(script) PROVE sent <= Begin(y + 1)
  BY SameScript DEF Waits
<1>2. x \in Nat /\ y \in Nat /\ x <= y
  BY <1>1
<1>3. x < Len(script) => sent <= Begin(x + 1)
  BY DEF Waits
<1> HIDE DEF x, y
<1>4. x < Len(script) /\ x + 1 \in 0 .. Len(script) /\ y + 1 \in 0 .. Len(script)
  BY <1>1, <1>2
<1>5. CASE x = y
  BY <1>3, <1>4, <1>5
<1>6. CASE x < y
  <2>1. Begin(x + 1) < Begin(y + 1) /\ Begin(x + 1) \in Nat /\ Begin(y + 1) \in Nat
    BY <1>1, <1>2, <1>4, <1>6
  <2> QED BY <1>1, <1>3, <1>4, <2>1
<1> QED BY <1>2, <1>5, <1>6

-----------------------------------------------------------------------------
(* Every step keeps the invariant.                                         *)

\* At the start nothing has been written, delivered or answered.
LEMMA InitIInv == Init => IInv
<1> SUFFICES ASSUME Init PROVE IInv
  OBVIOUS
<1>1. /\ script \in Scripts /\ pipelines \in BOOLEAN /\ sent = 0 /\ pc = "idle"
      /\ buffer = << >> /\ line = << >>
      /\ state = "kExpectRequestLine" /\ request = NewRequest /\ conn = "kConnected"
      /\ served = << >> /\ answers = << >> /\ aborted = FALSE
  BY DEF Init, Input!Init
<1>2. /\ Len(script) \in Nat /\ Begin(0) = 0 /\ Stream \in Seq(Written) /\ Len(Stream) \in Nat
      /\ \A k \in 0 .. Len(script) : Begin(k) \in Nat
  BY <1>1, ScriptIs, StreamIs, BeginGrows
<1>3. Len(<< >>) = 0 /\ DOMAIN << >> = {}
  OBVIOUS
<1>4. Taken = 0 /\ Count = 0
  <2>1. Len(buffer) = 0 /\ Len(served) = 0
    BY <1>1
  <2>2. sent = 0
    BY <1>1
  <2> QED BY <2>1, <2>2 DEF Taken, Count
<1>5. Buffers
  <2>1. SubSeq(Stream, 0 + 1, 0) = << >>
    BY SubSeqEmpty
  <2>2. Delivered
    BY <1>1, <1>3, <1>4, <2>1 DEF Delivered
  <2>3. buffer \in Seq(Written) /\ line \in Seq(Written) /\ sent \in 0 .. Len(Stream)
    BY <1>1, <1>2
  <2> QED BY <1>1, <2>2, <2>3 DEF Buffers
<1>6. Types
  <2>1. request.method = "kInvalid" /\ request.version = "kUnknown"
    BY <1>1 DEF NewRequest
  <2>2. served \in Seq(Range(served)) /\ answers \in Seq(Range(answers))
    BY <1>1
  <2> QED BY <1>1, <2>1, <2>2 DEF Types
<1>7. ServedInOrder
  BY <1>1, <1>2, <1>3, <1>4 DEF ServedInOrder
<1>8. Parsing
  BY <1>1, <1>2, <1>4 DEF Parsing, AtRequestLine
<1>9. Waits
  <2>1. Len(answers) = 0
    BY <1>1
  <2>2. Len(script) > 0 => 0 + 1 \in 0 .. Len(script)
    BY <1>2
  <2> QED BY <1>1, <1>2, <2>1, <2>2 DEF Waits
<1>10. NothingLeft
  <2>1. 2 .. Len(buffer) = {}
    BY <1>1
  <2> QED BY <2>1 DEF NothingLeft, NoLine
<1>11. AnswersKept
  <2>1. DOMAIN answers = {} /\ Len(answers) = 0
    BY <1>1
  <2> QED BY <1>1, <1>4, <2>1 DEF AnswersKept, AnswersInOrder
<1> QED BY <1>5, <1>6, <1>7, <1>8, <1>9, <1>10, <1>11 DEF IInv

\* A piece arrives: more of the stream is in the buffer.
LEMMA OnMessageKeeps ==
    ASSUME IInv, NEW upTo \in sent + 1 .. MayBeSent, OnMessage(upTo)
    PROVE  IInv'
<1>1. /\ Buffers /\ Types /\ ServedInOrder /\ Parsing /\ Waits /\ AnswersKept
  BY DEF IInv
<1>2. /\ pc = "idle" /\ ~aborted /\ sent' = upTo /\ pc' = "parse"
      /\ Input!PutBack(SubSeq(Stream, sent + 1, upTo))
      /\ script' = script /\ pipelines' = pipelines /\ state' = state /\ request' = request
      /\ conn' = conn /\ served' = served /\ answers' = answers /\ aborted' = aborted
  BY DEF OnMessage, client, context, output
<1>3. /\ script \in Scripts /\ Len(script) \in Nat /\ sent \in Nat /\ Len(Stream) \in Nat
      /\ \A k \in 0 .. Len(script) : Begin(k) \in Nat /\ Begin(k) <= Len(Stream)
      /\ Len(answers) \in Nat /\ Count \in Nat
  BY <1>1, ScriptIs, StreamIs, BeginGrows, CountIs DEF Buffers
<1>4. /\ MayBeSent \in Nat /\ MayBeSent <= Len(Stream)
      /\ ~pipelines /\ Len(answers) < Len(script) => MayBeSent = Begin(Len(answers) + 1)
  <2>1. CASE pipelines
    BY <1>3, <2>1 DEF MayBeSent
  <2>2. CASE ~pipelines
    <3> DEFINE m == Min({Len(answers) + 1, Len(script)})
    <3>1. m = IF Len(answers) + 1 <= Len(script) THEN Len(answers) + 1 ELSE Len(script)
      <4>1. \A i, j \in Nat : Min({i, j}) = IF i <= j THEN i ELSE j
        BY DEF Min
      <4> QED BY <1>3, <4>1
    <3> HIDE DEF m
    <3>2. m \in 0 .. Len(script)
      BY <1>3, <3>1
    <3>3. MayBeSent = Begin(m)
      BY <2>2 DEF MayBeSent, Begin, m
    <3> QED BY <1>3, <3>1, <3>2, <3>3
  <2> QED BY <2>1, <2>2
<1>5. upTo \in sent + 1 .. Len(Stream) /\ upTo \in Nat /\ sent <= upTo
  BY <1>3, <1>4
<1>6. Buffers' /\ Taken' = Taken
  BY <1>1, <1>2, <1>5, MoreDelivered
<1>7. /\ Stream' = Stream /\ (\A k : Begin(k)' = Begin(k)) /\ (\A k, j : At(k, j)' = At(k, j))
      /\ Count' = Count /\ Now' = Now
  BY <1>2, SameScript DEF Count, Now
<1>8. Types'
  BY <1>1, <1>2 DEF Types
<1>9. ServedInOrder'
  BY <1>1, <1>2, <1>7 DEF ServedInOrder
<1>10. Parsing'
  <2>1. CASE AtRequestLine
    <3>1. sent >= At(Count, 1) /\ Count < Len(script) => sent' >= At(Count, 1)
      <4>1. Count < Len(script) => At(Count, 1) \in Nat
        <5>1. ASSUME Count < Len(script) PROVE At(Count, 1) \in Nat
          <6>0. Count \in 0 .. Len(script) - 1
            BY <1>3, <5>1
          <6>1. Count \in 0 .. Len(script) - 1 /\ Now \in Requests
            BY <1>3, <6>0, RequestStands DEF Now
          <6>2. Len(Now.headers) \in Nat
            BY <6>1, LinesAre
          <6> DEFINE l == LineNo(Count, 0)
          <6>3. 0 \in 0 .. Len(script[Count + 1].headers) + 1
            BY <6>2 DEF Now
          <6>4. At(Count, 0) \in Nat /\ Len(l) \in Nat /\ At(Count, 0 + 1) = At(Count, 0) + Len(l) + 2
            BY <1>3, <6>1, <6>3, LineStands
          <6> HIDE DEF l
          <6> QED BY <6>4
        <5> QED BY <5>1
      <4> QED BY <1>2, <1>3, <1>5, <4>1
    <3> QED BY <1>2, <1>6, <1>7, <2>1, <3>1 DEF AtRequestLine, Parsing
  <2>2. CASE AtHeaders
    BY <1>2, <1>6, <1>7, <2>2 DEF AtHeaders, Parsing
  <2>3. CASE AtEnd
    BY <1>2, <1>6, <1>7, <2>3 DEF AtEnd, Parsing
  <2> QED BY <1>1, <2>1, <2>2, <2>3 DEF Parsing
<1>11. Waits'
  <2>1. ASSUME ~pipelines, Len(answers) < Len(script) PROVE upTo <= Begin(Len(answers) + 1)
    BY <1>3, <1>4, <1>5, <2>1
  <2> QED BY <1>2, <1>7, <2>1 DEF Waits
<1>12. NothingLeft' /\ AnswersKept'
  BY <1>1, <1>2, <1>7 DEF NothingLeft, AnswersKept, AnswersInOrder, Refused
<1> QED BY <1>6, <1>8, <1>9, <1>10, <1>11, <1>12 DEF IInv

\* No line is whole: the message has been dealt with.
LEMMA LineIncompleteKeeps ==
    ASSUME IInv, LineIncomplete
    PROVE  IInv'
<1>1. /\ pc = "parse" /\ NoLine /\ pc' = "idle"
      /\ script' = script /\ pipelines' = pipelines /\ sent' = sent /\ buffer' = buffer /\ line' = line
      /\ state' = state /\ request' = request /\ conn' = conn /\ served' = served
      /\ answers' = answers /\ aborted' = aborted
  BY DEF LineIncomplete, client, context, output
<1>2. /\ Stream' = Stream /\ Written' = Written
      /\ (\A k : Begin(k)' = Begin(k)) /\ (\A k, j : At(k, j)' = At(k, j))
      /\ Count' = Count /\ Now' = Now /\ Taken' = Taken
  BY <1>1, SameScript DEF Count, Now, Taken
<1>3. Buffers'
  BY <1>1, <1>2 DEF IInv, Buffers, Delivered
<1>4. Types'
  BY <1>1 DEF IInv, Types
<1>5. ServedInOrder'
  BY <1>1, <1>2 DEF IInv, ServedInOrder
<1>6. Parsing'
  <2>1. AtRequestLine => AtRequestLine'
    BY <1>1, <1>2 DEF AtRequestLine
  <2>2. AtHeaders => AtHeaders'
    BY <1>1, <1>2 DEF AtHeaders
  <2>3. AtEnd => AtEnd'
    BY <1>1, <1>2 DEF AtEnd
  <2> QED BY <2>1, <2>2, <2>3 DEF IInv, Parsing
<1>7. Waits'
  BY <1>1, <1>2 DEF IInv, Waits
<1>8. NothingLeft'
  BY <1>1 DEF NothingLeft, NoLine, Input!EndsLine
<1>9. AnswersKept'
  BY <1>1, <1>2 DEF IInv, AnswersKept, AnswersInOrder, Refused
<1> QED BY <1>3, <1>4, <1>5, <1>6, <1>7, <1>8, <1>9 DEF IInv

\* The line is the request line of the next request, and a good one.
LEMMA ProcessRequestLineKeeps ==
    ASSUME IInv, NEW n \in 2 .. Len(buffer), ProcessRequestLine(n)
    PROVE  IInv'
<1>1. /\ Buffers /\ Types /\ ServedInOrder /\ Parsing /\ Waits /\ AnswersKept
  BY DEF IInv
<1>2. /\ pc = "parse" /\ ~aborted /\ state = "kExpectRequestLine" /\ IsLine(n) /\ GoodLine(LineOf(n))
      /\ aborted' = (request.method # "kInvalid") /\ request' = Processed(request, LineOf(n))
      /\ Input!TakeLine(n) /\ state' = "kExpectHeaders"
      /\ script' = script /\ pipelines' = pipelines /\ sent' = sent /\ pc' = pc
      /\ conn' = conn /\ served' = served /\ answers' = answers
  BY DEF ProcessRequestLine, client, output
<1>3. AtRequestLine
  BY <1>1, <1>2 DEF Parsing, AtHeaders, AtEnd
<1>4. Count \in Nat /\ Taken = Begin(Count)
  BY <1>1, <1>3, CountIs DEF AtRequestLine
<1> DEFINE l == RequestLine(Now)
<1>5. /\ Count \in 0 .. Len(script) - 1 /\ Now \in Requests /\ 0 \in 0 .. Len(Now.headers) + 1
      /\ Taken = At(Count, 0) /\ LineOf(n) = l
  BY <1>1, <1>2, <1>4, LineOfNow
<1> HIDE DEF l
<1>6. IsGood(Now) /\ Processed(NewRequest, l) = Partly(Now, 0)
  BY <1>2, <1>5, FirstLineIs DEF l
<1>7. request = NewRequest /\ request.method = "kInvalid"
  BY <1>3, <1>6 DEF AtRequestLine, NewRequest
<1>8. ~aborted' /\ aborted' \in BOOLEAN /\ request' = Partly(Now, 0)
  BY <1>2, <1>5, <1>6, <1>7
<1>9. Buffers' /\ Taken' = At(Count, 0 + 1)
  <2>1. 0 \in 0 .. Len(script[Count + 1].headers) + 1
    BY <1>5 DEF Now
  <2> QED BY <1>1, <1>2, <1>5, <2>1, LineTaken
<1>10. /\ Stream' = Stream /\ (\A k : Begin(k)' = Begin(k)) /\ (\A k, j : At(k, j)' = At(k, j))
       /\ Count' = Count /\ Now' = Now
  BY <1>2, SameScript DEF Count, Now
<1>11. Types'
  <2>1. /\ request'.method \in Methods \cup {"kInvalid"}
        /\ request'.version \in {"kUnknown", "kHttp10", "kHttp20"}
    <3>1. request'.method = Now.method /\ request'.version = VersionOf(Now.version)
      BY <1>8, ExpectedIs
    <3> QED BY <1>6, <3>1, VersionIs DEF IsGood
  <2> QED BY <1>1, <1>2, <1>8, <2>1 DEF Types
<1>12. ServedInOrder'
  BY <1>1, <1>2, <1>10 DEF ServedInOrder
<1>13. Parsing'
  <2>1. 0 \in 0 .. Len(Now.headers) /\ Count < Len(script)
    <3>1. Len(Now.headers) \in Nat
      BY <1>5, LinesAre
    <3>2. Len(script) \in Nat
      BY <1>1, ScriptIs DEF Buffers
    <3> QED BY <1>5, <3>1, <3>2
  <2>2. AtHeaders'
    BY <1>2, <1>6, <1>8, <1>9, <1>10, <2>1 DEF AtHeaders
  <2> QED BY <2>2 DEF Parsing
<1>14. Waits' /\ NothingLeft' /\ AnswersKept'
  BY <1>1, <1>2, <1>10 DEF Waits, NothingLeft, AnswersKept, AnswersInOrder, Refused
<1> QED BY <1>9, <1>11, <1>12, <1>13, <1>14 DEF IInv

\* The line is the request line of the next request, and a bad one.  It stays, so when it has been
\* parsed before, the connection is on its way down and nothing is sent.
LEMMA RefuseRequestLineKeeps ==
    ASSUME IInv, NEW n \in 2 .. Len(buffer), RefuseRequestLine(n)
    PROVE  IInv'
<1>1. /\ Buffers /\ Types /\ ServedInOrder /\ Parsing /\ Waits /\ AnswersKept
  BY DEF IInv
<1>2. /\ pc = "parse" /\ state = "kExpectRequestLine" /\ IsLine(n) /\ ~GoodLine(LineOf(n))
      /\ aborted' = (HasMethod(LineOf(n)) /\ request.method # "kInvalid")
      /\ request' = Processed(request, LineOf(n))
      /\ IF aborted' THEN UNCHANGED <<conn, written, answers>>
         ELSE Sent(NewRequest, BadRequest, StatusLine(BadRequest) \o <<CR, LF>>) /\ Shutdown(TRUE)
      /\ script' = script /\ pipelines' = pipelines /\ sent' = sent /\ buffer' = buffer /\ line' = line
      /\ pc' = "idle" /\ state' = state /\ served' = served
  BY DEF RefuseRequestLine, client
<1>3. AtRequestLine
  BY <1>1, <1>2 DEF Parsing, AtHeaders, AtEnd
<1>4. Count \in Nat /\ Taken = Begin(Count)
  BY <1>1, <1>3, CountIs DEF AtRequestLine
<1> DEFINE l == RequestLine(Now)
<1>5. Count \in 0 .. Len(script) - 1 /\ Now \in Requests /\ LineOf(n) = l /\ sent >= At(Count, 1)
  BY <1>1, <1>2, <1>4, LineOfNow
<1> HIDE DEF l
<1> DEFINE p == Processed(NewRequest, l)
<1>6. /\ ~IsGood(Now) /\ Processed(p, l) = p
      /\ p.method \in Methods \cup {"kInvalid"} /\ p.version \in {"kUnknown", "kHttp10", "kHttp20"}
  BY <1>2, <1>5, FirstLineIs DEF l
<1>7. request' = p
  BY <1>2, <1>3, <1>5, <1>6 DEF AtRequestLine, l
<1>8. aborted' \in BOOLEAN /\ (aborted' => conn = "kDisconnecting")
  <2>1. NewRequest.method = "kInvalid"
    BY DEF NewRequest
  <2> QED BY <1>2, <1>3, <2>1 DEF AtRequestLine
<1>9. /\ Stream' = Stream /\ Written' = Written
      /\ (\A k : Begin(k)' = Begin(k)) /\ (\A k, j : At(k, j)' = At(k, j))
      /\ Count' = Count /\ Now' = Now /\ Taken' = Taken
  BY <1>2, SameScript DEF Count, Now, Taken
<1>10. /\ AnswersKept' /\ answers' \in Seq(Range(answers')) /\ conn' = "kDisconnecting"
       /\ Len(answers') \in Nat /\ Len(answers) <= Len(answers')
  <2>1. CASE aborted'
    <3>1. conn' = "kDisconnecting" /\ conn = conn' /\ answers' = answers
      BY <1>2, <1>8, <2>1
    <3>2. Len(answers) \in Nat /\ answers \in Seq(Range(answers))
      BY <1>1, CountIs DEF Types
    <3>3. AnswersKept'
      BY <1>1, <1>2, <1>9, <3>1 DEF AnswersKept, AnswersInOrder, Refused
    <3> QED BY <3>1, <3>2, <3>3
  <2>2. CASE ~aborted'
    <3> DEFINE x == BadRequest
               t == StatusLine(BadRequest) \o <<CR, LF>>
               r == NewRequest
    <3>1. x.closeConnection = TRUE
      BY DEF BadRequest
    <3>2. Sent(r, x, t) /\ Shutdown(x.closeConnection)
      <4>1. Sent(r, x, t) /\ Shutdown(TRUE)
        BY <1>2, <2>2
      <4> QED BY <3>1, <4>1 DEF Shutdown
    <3>3. conn' = "kDisconnecting"
      BY <1>2, <2>2 DEF Shutdown
    <3>4. ~IsGood(script[Count + 1])
      BY <1>6 DEF Now
    <3> HIDE DEF x, t
    <3>5. /\ AnswersKept' /\ answers' \in Seq(Range(answers'))
          /\ Len(answers') \in Nat /\ Len(answers) <= Len(answers')
      BY <1>1, <1>2, <3>1, <3>2, <3>4, AnswerSent
    <3> QED BY <3>3, <3>5
  <2> QED BY <2>1, <2>2
<1>11. Buffers'
  BY <1>1, <1>2, <1>9 DEF Buffers, Delivered
<1>12. Types'
  BY <1>1, <1>2, <1>6, <1>7, <1>8, <1>10 DEF Types
<1>13. ServedInOrder'
  BY <1>1, <1>2, <1>9 DEF ServedInOrder
<1>14. Parsing'
  <2>1. Count < Len(script)
    <3>1. Len(script) \in Nat
      BY <1>1, ScriptIs DEF Buffers
    <3> QED BY <1>5, <3>1
  <2>2. AtRequestLine'
    BY <1>2, <1>4, <1>5, <1>6, <1>7, <1>9, <1>10, <2>1 DEF AtRequestLine, l
  <2> QED BY <2>2 DEF Parsing
<1>15. Waits'
  BY <1>1, <1>2, <1>10, StillWaits
<1>16. NothingLeft'
  BY <1>10 DEF NothingLeft
<1> QED BY <1>10, <1>11, <1>12, <1>13, <1>14, <1>15, <1>16 DEF IInv

\* The line is the next header.
LEMMA AddHeaderKeeps ==
    ASSUME IInv, NEW n \in 2 .. Len(buffer), AddHeader(n)
    PROVE  IInv'
<1>1. /\ Buffers /\ Types /\ ServedInOrder /\ Parsing /\ Waits /\ AnswersKept
  BY DEF IInv
<1>2. /\ pc = "parse" /\ ~aborted /\ state = "kExpectHeaders" /\ IsLine(n) /\ Has(LineOf(n), ":")
      /\ request' = WithHeader(request, LineOf(n)) /\ Input!TakeLine(n)
      /\ script' = script /\ pipelines' = pipelines /\ sent' = sent /\ pc' = pc /\ state' = state
      /\ conn' = conn /\ served' = served /\ answers' = answers /\ aborted' = aborted
  BY DEF AddHeader, client, output
<1>3. AtHeaders
  BY <1>1, <1>2 DEF Parsing, AtRequestLine, AtEnd
<1>4. PICK j \in 0 .. Len(Now.headers) : Taken = At(Count, j + 1) /\ request = Partly(Now, j)
  BY <1>3 DEF AtHeaders
<1>5. Count \in 0 .. Len(script) - 1 /\ IsGood(Now)
  <2>1. Count \in Nat /\ Count < Len(script) /\ IsGood(Now) /\ Len(script) \in Nat
    BY <1>1, <1>3, CountIs, ScriptIs DEF AtHeaders, Buffers
  <2> QED BY <2>1
<1>6. /\ Now \in Requests /\ j + 1 \in 0 .. Len(Now.headers) + 1 /\ j \in 0 .. Len(Now.headers) - 1
      /\ LineOf(n) = HeaderLine(Now.headers[j + 1])
  BY <1>1, <1>2, <1>4, <1>5, LineOfHeaders
<1>7. request' = Partly(Now, j + 1)
  <2> DEFINE l == HeaderLine(Now.headers[j + 1])
  <2>1. request' = WithHeader(Partly(Now, j), l)
    BY <1>2, <1>4, <1>6
  <2> HIDE DEF l
  <2> QED BY <1>6, <2>1, NextHeader DEF l
<1>8. Buffers' /\ Taken' = At(Count, (j + 1) + 1)
  <2>1. j + 1 \in 0 .. Len(script[Count + 1].headers) + 1
    BY <1>6 DEF Now
  <2> QED BY <1>1, <1>2, <1>4, <1>5, <2>1, LineTaken
<1>9. /\ Stream' = Stream /\ (\A k : Begin(k)' = Begin(k)) /\ (\A k, i : At(k, i)' = At(k, i))
      /\ Count' = Count /\ Now' = Now
  BY <1>2, SameScript DEF Count, Now
<1>10. Types'
  <2>1. /\ request'.method \in Methods \cup {"kInvalid"}
        /\ request'.version \in {"kUnknown", "kHttp10", "kHttp20"}
    <3>1. request'.method = Now.method /\ request'.version = VersionOf(Now.version)
      BY <1>7, ExpectedIs
    <3> QED BY <1>5, <3>1, VersionIs DEF IsGood
  <2> QED BY <1>1, <1>2, <2>1 DEF Types
<1>11. ServedInOrder'
  BY <1>1, <1>2, <1>9 DEF ServedInOrder
<1>12. Parsing'
  <2>1. j + 1 \in 0 .. Len(Now.headers) /\ Count < Len(script)
    BY <1>3, <1>6 DEF AtHeaders
  <2>2. AtHeaders'
    BY <1>2, <1>5, <1>7, <1>8, <1>9, <2>1 DEF AtHeaders
  <2> QED BY <2>2 DEF Parsing
<1>13. Waits' /\ NothingLeft' /\ AnswersKept'
  BY <1>1, <1>2, <1>9 DEF Waits, NothingLeft, AnswersKept, AnswersInOrder, Refused
<1> QED BY <1>8, <1>10, <1>11, <1>12, <1>13 DEF IInv

\* The line is the empty one behind the last header: the request is whole, and all of it has
\* been taken.
LEMMA EndHeadersKeeps ==
    ASSUME IInv, NEW n \in 2 .. Len(buffer), EndHeaders(n)
    PROVE  IInv'
<1>1. /\ Buffers /\ Types /\ ServedInOrder /\ Parsing /\ Waits /\ AnswersKept
  BY DEF IInv
<1>2. /\ pc = "parse" /\ ~aborted /\ state = "kExpectHeaders" /\ IsLine(n) /\ ~Has(LineOf(n), ":")
      /\ state' = "kGotAll" /\ pc' = "request" /\ Input!TakeLine(n)
      /\ script' = script /\ pipelines' = pipelines /\ sent' = sent /\ request' = request
      /\ conn' = conn /\ served' = served /\ answers' = answers /\ aborted' = aborted
  BY DEF EndHeaders, client, output
<1>3. AtHeaders
  BY <1>1, <1>2 DEF Parsing, AtRequestLine, AtEnd
<1>4. PICK j \in 0 .. Len(Now.headers) : Taken = At(Count, j + 1) /\ request = Partly(Now, j)
  BY <1>3 DEF AtHeaders
<1>5. Count \in 0 .. Len(script) - 1 /\ IsGood(Now) /\ Count < Len(script)
  <2>1. Count \in Nat /\ Count < Len(script) /\ IsGood(Now) /\ Len(script) \in Nat
    BY <1>1, <1>3, CountIs, ScriptIs DEF AtHeaders, Buffers
  <2> QED BY <2>1
<1>6. Now \in Requests /\ j + 1 \in 0 .. Len(Now.headers) + 1 /\ ~(j < Len(Now.headers))
  BY <1>1, <1>2, <1>4, <1>5, LineOfHeaders
<1>7. j = Len(Now.headers)
  <2>1. Len(Now.headers) \in Nat
    BY <1>6, LinesAre
  <2> QED BY <1>6, <2>1
<1>8. request' = Expected(Now)
  BY <1>2, <1>4, <1>6, <1>7, AllHeaders
<1>9. Buffers' /\ Taken' = Begin(Count + 1)
  <2>1. j + 1 \in 0 .. Len(script[Count + 1].headers) + 1
    BY <1>6 DEF Now
  <2>2. Buffers' /\ Taken' = At(Count, (j + 1) + 1)
    BY <1>1, <1>2, <1>4, <1>5, <2>1, LineTaken
  <2>3. (j + 1) + 1 = Len(script[Count + 1].headers) + 2
    BY <1>7 DEF Now
  <2>4. At(Count, Len(script[Count + 1].headers) + 2) = Begin(Count + 1)
    BY <1>1, <1>5, RequestEnds DEF Buffers
  <2> QED BY <2>2, <2>3, <2>4
<1>10. /\ Stream' = Stream /\ (\A k : Begin(k)' = Begin(k))
       /\ Count' = Count /\ Now' = Now
  BY <1>2, SameScript DEF Count, Now
<1>11. Types'
  BY <1>1, <1>2 DEF Types
<1>12. ServedInOrder'
  BY <1>1, <1>2, <1>10 DEF ServedInOrder
<1>13. Parsing'
  BY <1>2, <1>5, <1>8, <1>9, <1>10 DEF AtEnd, Parsing
<1>14. Waits' /\ NothingLeft' /\ AnswersKept'
  BY <1>1, <1>2, <1>10 DEF Waits, NothingLeft, AnswersKept, AnswersInOrder, Refused
<1> QED BY <1>9, <1>11, <1>12, <1>13, <1>14 DEF IInv

\* The callback is given the request, its answer is sent, and the next one can come.
LEMMA OnRequestKeeps ==
    ASSUME IInv, NEW reply, OnRequest(reply)
    PROVE  IInv'
<1>1. /\ Buffers /\ Types /\ ServedInOrder /\ Parsing /\ Waits /\ AnswersKept
  BY DEF IInv
<1> DEFINE x == Response(WantsClose(request), reply)
           t == AppendToBuffer(x)
<1>2. /\ pc = "request" /\ ~aborted /\ Sent(request, x, t) /\ Shutdown(x.closeConnection)
      /\ IsAppend(served', served, request)
      /\ state' = "kExpectRequestLine" /\ request' = NewRequest /\ pc' = "idle"
      /\ script' = script /\ pipelines' = pipelines /\ sent' = sent
      /\ buffer' = buffer /\ line' = line /\ aborted' = aborted
  BY DEF OnRequest, Reset, client, IsAppend
<1> HIDE DEF x, t
<1>3. AtEnd
  BY <1>1, <1>2 DEF Types, Parsing, AtRequestLine, AtHeaders
<1>4. /\ Count < Len(script) /\ IsGood(Now) /\ Taken = Begin(Count + 1) /\ request = Expected(Now)
      /\ Count \in Nat /\ Len(script) \in Nat /\ Len(answers) \in Nat
  BY <1>1, <1>3, CountIs, ScriptIs DEF AtEnd, Buffers
<1>5. /\ DOMAIN served = 1 .. Count /\ DOMAIN served' = 1 .. Count + 1 /\ Count' = Count + 1
      /\ served' \in Seq(Range(served')) /\ served'[Count + 1] = request
      /\ \A i \in 1 .. Count : served'[i] = served[i]
  BY <1>1, <1>2, AppendSelf DEF Types, Count
<1>6. request # NewRequest
  <2>1. request.method = Now.method /\ Now.method \in Methods
    BY <1>4, ExpectedIs DEF IsGood
  <2>2. NewRequest.method = "kInvalid" /\ "kInvalid" \notin Methods
    BY DEF NewRequest, Methods
  <2> QED BY <2>1, <2>2
<1>7. /\ AnswersKept' /\ answers' \in Seq(Range(answers'))
      /\ conn' \in {"kConnected", "kDisconnecting"}
      /\ conn' = "kConnected" => conn = "kConnected"
      /\ Len(answers') \in Nat /\ Len(answers) <= Len(answers')
  <2>1. \A i \in DOMAIN served : i \in DOMAIN served' /\ served'[i] = served[i]
    BY <1>4, <1>5
  <2>2. Count + 1 \in DOMAIN served'
    BY <1>4, <1>5
  <2> QED BY <1>1, <1>2, <1>5, <1>6, <2>1, <2>2, AnswerSent
<1>8. /\ Stream' = Stream /\ Written' = Written /\ (\A k : Begin(k)' = Begin(k)) /\ Taken' = Taken
  BY <1>2, SameScript DEF Taken
<1>9. Buffers'
  BY <1>1, <1>2, <1>8 DEF Buffers, Delivered
<1>10. Types'
  <2>1. request'.method = "kInvalid" /\ request'.version = "kUnknown"
    BY <1>2 DEF NewRequest
  <2>2. /\ pipelines' = pipelines /\ pc' = "idle" /\ state' = "kExpectRequestLine" /\ aborted' = aborted
    BY <1>2
  <2>3. pipelines \in BOOLEAN /\ aborted \in BOOLEAN
    BY <1>1 DEF Types
  <2>4. served' \in Seq(Range(served'))
    BY <1>5
  <2>5. answers' \in Seq(Range(answers')) /\ conn' \in {"kConnected", "kDisconnecting"}
    BY <1>7
  <2>6. /\ request'.method \in Methods \cup {"kInvalid"}
        /\ request'.version \in {"kUnknown", "kHttp10", "kHttp20"}
    BY <2>1
  <2>7. /\ pipelines' \in BOOLEAN /\ aborted' \in BOOLEAN
        /\ pc' \in {"idle", "parse", "request"}
        /\ state' \in {"kExpectRequestLine", "kExpectHeaders", "kGotAll"}
        /\ (state' = "kGotAll") = (pc' = "request")
    BY <2>2, <2>3
  <2> QED BY <2>4, <2>5, <2>6, <2>7 DEF Types
<1>11. ServedInOrder'
  <2>1. ASSUME NEW i \in 1 .. Count + 1 PROVE IsGood(script[i]) /\ served'[i] = Expected(script[i])
    <3>1. CASE i = Count + 1
      BY <1>4, <1>5, <3>1 DEF Now
    <3>2. CASE i # Count + 1
      <4>1. i \in 1 .. Count
        BY <1>4, <3>2
      <4> QED BY <1>1, <1>5, <4>1 DEF ServedInOrder
    <3> QED BY <3>1, <3>2
  <2>2. Count + 1 <= Len(script)
    BY <1>4
  <2>3. script' = script
    BY <1>2
  <2> QED BY <1>5, <2>1, <2>2, <2>3 DEF ServedInOrder
<1>12. Parsing'
  BY <1>2, <1>4, <1>5, <1>8 DEF AtRequestLine, Parsing
<1>13. Waits'
  BY <1>1, <1>2, <1>7, StillWaits
<1>14. NothingLeft'
  <2>1. ASSUME ~pipelines, conn' = "kConnected" PROVE NoLine
    <3>1. Len(answers) = Count
      BY <1>1, <1>7, <2>1 DEF AnswersKept
    <3>2. sent <= Begin(Count + 1)
      BY <1>1, <1>4, <2>1, <3>1 DEF Waits
    <3>3. Len(buffer) \in Nat /\ sent \in Nat /\ Begin(Count + 1) \in Nat
      <4>1. Count + 1 \in 0 .. Len(script)
        BY <1>4
      <4> QED BY <1>1, <4>1, BeginGrows, ScriptIs, StreamIs, LenProperties DEF Buffers
    <3>4. sent - Len(buffer) = Begin(Count + 1)
      BY <1>4 DEF Taken
    <3>5. 2 .. Len(buffer) = {}
      BY <3>2, <3>3, <3>4
    <3> QED BY <3>5 DEF NoLine
  <2> QED BY <1>2, <2>1 DEF NothingLeft, NoLine, Input!EndsLine
<1> QED BY <1>7, <1>9, <1>10, <1>11, <1>12, <1>13, <1>14 DEF IInv

\* Nothing happens.
LEMMA StutterKeeps ==
    ASSUME IInv, UNCHANGED vars
    PROVE  IInv'
<1>1. /\ script' = script /\ pipelines' = pipelines /\ sent' = sent /\ pc' = pc
      /\ buffer' = buffer /\ line' = line /\ state' = state /\ request' = request
      /\ conn' = conn /\ served' = served /\ answers' = answers /\ aborted' = aborted
  BY DEF vars, client, context, output
<1>2. /\ Stream' = Stream /\ Written' = Written
      /\ (\A k : Begin(k)' = Begin(k)) /\ (\A k, j : At(k, j)' = At(k, j))
      /\ Count' = Count /\ Now' = Now /\ Taken' = Taken
  BY <1>1, SameScript DEF Count, Now, Taken
<1>3. Buffers'
  BY <1>1, <1>2 DEF IInv, Buffers, Delivered
<1>4. Types' /\ ServedInOrder'
  BY <1>1, <1>2 DEF IInv, Types, ServedInOrder
<1>5. Parsing'
  <2>1. AtRequestLine => AtRequestLine'
    BY <1>1, <1>2 DEF AtRequestLine
  <2>2. AtHeaders => AtHeaders'
    BY <1>1, <1>2 DEF AtHeaders
  <2>3. AtEnd => AtEnd'
    BY <1>1, <1>2 DEF AtEnd
  <2> QED BY <2>1, <2>2, <2>3 DEF IInv, Parsing
<1>6. Waits'
  BY <1>1, <1>2 DEF IInv, Waits
<1>7. NothingLeft'
  BY <1>1 DEF IInv, NothingLeft, NoLine, Input!EndsLine
<1>8. AnswersKept'
  BY <1>1, <1>2 DEF IInv, AnswersKept, AnswersInOrder, Refused
<1> QED BY <1>3, <1>4, <1>5, <1>6, <1>7, <1>8 DEF IInv

\* Every step keeps the invariant.
LEMMA NextKeeps == IInv /\ [Next]_vars => IInv'
<1> SUFFICES ASSUME IInv, [Next]_vars PROVE IInv'
  OBVIOUS
<1>1. CASE \E upTo \in sent + 1 .. MayBeSent : OnMessage(upTo)
  BY <1>1, OnMessageKeeps
<1>2. CASE Parse
  <2>1. CASE LineIncomplete
    BY <2>1, LineIncompleteKeeps
  <2>2. ASSUME NEW n \in 2 .. Len(buffer), ProcessRequestLine(n) PROVE IInv'
    BY <2>2, ProcessRequestLineKeeps
  <2>3. ASSUME NEW n \in 2 .. Len(buffer), RefuseRequestLine(n) PROVE IInv'
    BY <2>3, RefuseRequestLineKeeps
  <2>4. ASSUME NEW n \in 2 .. Len(buffer), AddHeader(n) PROVE IInv'
    BY <2>4, AddHeaderKeeps
  <2>5. ASSUME NEW n \in 2 .. Len(buffer), EndHeaders(n) PROVE IInv'
    BY <2>5, EndHeadersKeeps
  <2> QED BY <1>2, <2>1, <2>2, <2>3, <2>4, <2>5 DEF Parse
<1>3. CASE Serve
  BY <1>3, OnRequestKeeps DEF Serve
<1>4. CASE UNCHANGED vars
  BY <1>4, StutterKeeps
<1> QED BY <1>1, <1>2, <1>3, <1>4 DEF Next

\* Whatever the client writes and however it is cut into pieces: the buffer is what has been
\* delivered and not been taken, what has been taken ends with a line of the next request, and
\* the context holds what the lines up to there say.
THEOREM ParsingInvariant == Spec => []IInv
<1>1. Init => IInv
  BY InitIInv
<1>2. IInv /\ [Next]_vars => IInv'
  BY NextKeeps
<1> QED BY <1>1, <1>2, PTL DEF Spec

-----------------------------------------------------------------------------
(* What follows from it.                                                   *)

\* What the parser makes of a good request shows a handler all of it but the minor version.
LEMMA ExpectedShows ==
    ASSUME NEW r, IsGood(r)
    PROVE  ShowsRequest(Expected(r), r)
<1> DEFINE E == [field \in {<<r.headers[i].field>> : i \in DOMAIN r.headers} |-> LastValue(r, field[1])]
           v == VersionOf(r.version)
           p == <<r.path>>
           q == Expected(r)
<1>1. q = [method |-> r.method, version |-> v, path |-> p, query |-> r.query, headers |-> E]
  BY DEF Expected
<1>2. IF r.version \in Http2 THEN v = "kHttp20" ELSE v \in {"kHttp10", "kHttp11"}
  BY VersionIs DEF IsGood
<1>3. q.method = r.method /\ q.version = v /\ q.path = p /\ q.query = r.query /\ q.headers = E
  <2> HIDE DEF q, E, v, p
  <2> QED BY <1>1
<1> HIDE DEF q, v
<1> QED BY <1>2, <1>3 DEF ShowsRequest, q

\* Wherever the pieces are cut, and however many requests a piece holds, handlers see the client's
\* requests of any HTTP/1.x or 2.x, in order, each once and unmixed with another, with all that they
\* say but their minor version; and none from the first one on whose request line is refused.
THEOREM RequestsParsedAsWhole == Spec => []ParsedAsWhole
<1>1. IInv => ParsedAsWhole
  <2> SUFFICES ASSUME IInv PROVE ParsedAsWhole
    OBVIOUS
  <2>1. TypeOK
    BY DEF IInv, Buffers, Types, TypeOK, Text, Written
  <2>2. Len(served) <= Len(script) /\ \A i \in DOMAIN served : IsGood(script[i]) /\ served[i] = Expected(script[i])
    BY DEF IInv, ServedInOrder, Count
  <2>3. ASSUME NEW i \in DOMAIN served PROVE ShowsRequest(served[i], script[i])
    BY <2>2, ExpectedShows
  <2> QED BY <2>1, <2>2, <2>3 DEF ParsedAsWhole
<1> QED BY <1>1, ParsingInvariant, PTL

\* The answers are those of the requests served, in order, up to a refusal.  One that says that
\* the connection is closed is the last, is followed by the shutdown, and there is no shutdown
\* without it.
THEOREM AnswersStayInOrder == Spec => []AnswersInOrder
<1>1. IInv => AnswersInOrder
  BY DEF IInv, AnswersKept
<1> QED BY <1>1, ParsingInvariant, PTL

\* The line to take next, once it has been delivered, is found in the buffer.
LEMMA LineIsThere ==
    ASSUME Buffers, NEW k \in 0 .. Len(script) - 1,
           NEW j \in 0 .. Len(script[k + 1].headers) + 1,
           Taken = At(k, j), sent >= At(k, j + 1)
    PROVE  \E n \in 2 .. Len(buffer) : IsLine(n) /\ LineOf(n) = LineNo(k, j)
<1> DEFINE l == LineNo(k, j)
           n == Len(l) + 2
<1>1. script \in Scripts /\ buffer \in Seq(Written) /\ sent \in 0 .. Len(Stream) /\ Delivered
  BY DEF Buffers
<1> HIDE DEF l
<1>2. n \in 2 .. Len(buffer) /\ IsLine(n)
  BY <1>1, LineFound DEF l
<1>3. LineOf(n) = l
  BY <1>1, <1>2, LineFound DEF l
<1> QED BY <1>2, <1>3 DEF l

\* Where the parser stands between two messages, and what it waits for.
LEMMA BetweenMessages ==
    ASSUME IInv, pc = "idle"
    PROVE  /\ Count \in Nat /\ Taken \in Nat /\ Begin(Count) <= Taken /\ Taken <= sent
           /\ conn = "kConnected" /\ Count < Len(script) /\ sent >= Begin(Count + 1) => ~NoLine
<1>1. /\ Buffers /\ Types /\ Parsing /\ script \in Scripts /\ sent \in Nat /\ Len(buffer) \in Nat
      /\ Len(buffer) <= sent /\ Count \in Nat /\ Count <= Len(script) /\ Len(script) \in Nat
      /\ Begin(Count) \in Nat
  <2>1. Buffers /\ Types /\ Parsing /\ ServedInOrder
    BY DEF IInv
  <2>2. /\ script \in Scripts /\ sent \in 0 .. Len(Stream) /\ buffer \in Seq(Written) /\ Len(buffer) <= sent
        /\ Count <= Len(script)
    BY <2>1 DEF Buffers, Delivered, ServedInOrder
  <2>3. Count \in Nat /\ Len(script) \in Nat /\ Len(buffer) \in Nat /\ Len(Stream) \in Nat
    BY <2>1, <2>2, CountIs, ScriptIs, StreamIs, LenProperties
  <2>4. Count \in 0 .. Len(script)
    BY <2>2, <2>3
  <2>5. Begin(Count) \in Nat
    BY <2>2, <2>4, BeginGrows
  <2> QED BY <2>1, <2>2, <2>3, <2>5
<1>2. Taken \in Nat /\ Taken <= sent
  BY <1>1 DEF Taken
<1>3. ~AtEnd
  BY <1>1 DEF Types, AtEnd
<1>4. ASSUME NEW j \in 0 .. Len(script[Count + 1].headers) + 1, Count < Len(script), Taken = At(Count, j)
      PROVE  Begin(Count) <= Taken /\ (sent >= Begin(Count + 1) => ~NoLine)
  <2> DEFINE l == LineNo(Count, j)
  <2>1. Count \in 0 .. Len(script) - 1
    BY <1>1, <1>4
  <2>2. /\ Len(l) \in Nat /\ At(Count, j) \in Nat /\ At(Count, j + 1) = At(Count, j) + Len(l) + 2
        /\ At(Count, j + 1) <= Begin(Count + 1) /\ script[Count + 1] \in Requests
    BY <1>1, <2>1, LineStands, RequestStands, ZenonT(60)
  <2> HIDE DEF l
  <2>3. Begin(Count) <= Taken
    <3> DEFINE r == script[Count + 1]
               P == Pieces(r)
               a == Len(UpTo(P, j))
    <3>1. /\ Len(r.headers) \in Nat /\ P \in Seq(Seq(Tokens)) /\ Len(P) = Len(r.headers) + 2
      BY <2>2, PiecesAre
    <3>2. At(Count, j) = Begin(Count) + a
      BY DEF At
    <3>3. j \in 0 .. Len(P)
      BY <3>1
    <3> HIDE DEF P
    <3>4. a \in Nat
      BY <3>1, <3>3, UpToTyped
    <3> HIDE DEF a
    <3> QED BY <1>1, <1>4, <3>2, <3>4
  <2>4. ASSUME sent >= Begin(Count + 1) PROVE ~NoLine
    <3>1. Begin(Count + 1) \in Nat
      <4>1. Count + 1 \in 0 .. Len(script)
        BY <2>1, <1>1
      <4> QED BY <1>1, <4>1, BeginGrows
    <3>2. sent >= At(Count, j + 1)
      BY <1>1, <2>2, <2>4, <3>1
    <3>3. \E n \in 2 .. Len(buffer) : IsLine(n) /\ LineOf(n) = LineNo(Count, j)
      BY <1>1, <1>4, <2>1, <3>2, LineIsThere
    <3> QED BY <3>3 DEF NoLine, IsLine
  <2> QED BY <2>3, <2>4
<1>5. CASE AtRequestLine
  <2>1. Taken = Begin(Count)
    BY <1>5 DEF AtRequestLine
  <2>2. ASSUME Count < Len(script), sent >= Begin(Count + 1) PROVE ~NoLine
    <3>1. Count \in 0 .. Len(script) - 1
      BY <1>1, <2>2
    <3>2. 0 \in 0 .. Len(script[Count + 1].headers) + 1 /\ At(Count, 0) = Begin(Count)
      <4>1. script[Count + 1] \in Requests /\ At(Count, 0) = Begin(Count)
        BY <1>1, <3>1, RequestStands, RequestEnds
      <4>2. Len(script[Count + 1].headers) \in Nat
        BY <4>1, LinesAre
      <4> QED BY <4>1, <4>2
    <3> QED BY <1>4, <2>1, <2>2, <3>2
  <2> QED BY <1>1, <1>2, <2>1, <2>2
<1>6. CASE AtHeaders
  <2>1. PICK j \in 0 .. Len(Now.headers) : Taken = At(Count, j + 1)
    BY <1>6 DEF AtHeaders
  <2>2. Count < Len(script)
    BY <1>6 DEF AtHeaders
  <2>3. j + 1 \in 0 .. Len(script[Count + 1].headers) + 1
    <3>1. Count \in 0 .. Len(script) - 1
      BY <1>1, <2>2
    <3>2. Now \in Requests
      BY <1>1, <3>1, RequestStands DEF Now
    <3>3. Len(Now.headers) \in Nat
      BY <3>2, LinesAre
    <3>4. j + 1 \in 0 .. Len(Now.headers) + 1
      BY <3>3
    <3> QED BY <3>4 DEF Now
  <2>4. Begin(Count) <= Taken /\ (sent >= Begin(Count + 1) => ~NoLine)
    BY <1>4, <2>1, <2>2, <2>3
  <2> QED BY <1>1, <1>2, <2>4
<1> QED BY <1>1, <1>3, <1>5, <1>6 DEF Parsing

\* A request of a client that waits for each answer is answered, or refused, as soon as its last
\* byte has come: nothing complete is left in the buffer (of several at once, each waits for
\* another message).  Only a refused line that stays in the buffer and is parsed again with the
\* next piece makes setMethod() find a method.
THEOREM RequestsAnsweredAtOnce == Spec => []AnsweredAtOnce
<1>1. ASSUME IInv, pc = "idle", ~pipelines, ~aborted, conn = "kConnected",
             NEW n \in DOMAIN script, sent = Len(WrittenUpTo(n))
      PROVE  Len(answers) = n
  <2>1. NoLine /\ Len(answers) = Count
    BY <1>1 DEF IInv, NothingLeft, AnswersKept
  <2>2. /\ script \in Scripts /\ Len(script) \in Nat /\ sent \in Nat
        /\ (Len(answers) < Len(script) => sent <= Begin(Len(answers) + 1)) /\ Count <= Len(script)
    <3>1. Buffers /\ Waits /\ ServedInOrder
      BY <1>1 DEF IInv
    <3>2. script \in Scripts /\ sent \in 0 .. Len(Stream) /\ Count <= Len(script)
      BY <3>1 DEF Buffers, ServedInOrder
    <3>3. Len(script) \in Nat /\ Len(Stream) \in Nat
      BY <3>2, ScriptIs, StreamIs
    <3> QED BY <1>1, <3>1, <3>2, <3>3 DEF Waits
  <2>3. n \in 0 .. Len(script) /\ n \in Nat /\ sent = Begin(n)
    <3>1. script \in Seq(Requests)
      BY <2>2, ScriptsAssumption
    <3>2. DOMAIN script = 1 .. Len(script)
      BY <3>1, LenProperties
    <3> QED BY <1>1, <2>2, <3>2 DEF Begin
  <2>4. /\ Count \in Nat /\ Taken \in Nat /\ Begin(Count) <= Taken /\ Taken <= sent
        /\ Count < Len(script) /\ sent >= Begin(Count + 1) => ~NoLine
    BY <1>1, BetweenMessages
  <2>5. CASE n < Count
    <3>1. Count \in 0 .. Len(script)
      BY <2>2, <2>4
    <3>2. Begin(n) < Begin(Count) /\ Begin(Count) \in Nat
      BY <2>2, <2>3, <2>5, <3>1, BeginGrows
    <3> QED BY <2>2, <2>3, <2>4, <3>2
  <2>6. CASE n = Count + 1
    <3>1. Count < Len(script) /\ sent >= Begin(Count + 1)
      BY <2>2, <2>3, <2>4, <2>6
    <3> QED BY <2>1, <2>4, <3>1
  <2>7. CASE n > Count + 1
    <3>1. Count + 1 \in 0 .. Len(script) /\ Count < Len(script)
      BY <2>2, <2>3, <2>4, <2>7
    <3>2. Begin(Count + 1) < Begin(n) /\ Begin(Count + 1) \in Nat
      BY <2>2, <2>3, <2>7, <3>1, BeginGrows
    <3>3. sent <= Begin(Count + 1)
      BY <2>1, <2>2, <3>1
    <3> QED BY <2>2, <2>3, <3>2, <3>3
  <2>8. n = Count \/ n < Count \/ n = Count + 1 \/ n > Count + 1
    BY <2>3, <2>4
  <2> QED BY <2>1, <2>5, <2>6, <2>7, <2>8
<1>2. ASSUME IInv, aborted
      PROVE  /\ state = "kExpectRequestLine"
             /\ \E n \in 2 .. Len(buffer) : IsLine(n) /\ ~GoodLine(LineOf(n))
  <2>1. Buffers /\ Types /\ AtRequestLine
    BY <1>2 DEF IInv, Parsing, AtHeaders, AtEnd
  <2>2. /\ state = "kExpectRequestLine" /\ Taken = Begin(Count)
        /\ Count < Len(script) /\ ~IsGood(Now) /\ sent >= At(Count, 1)
    BY <1>2, <2>1 DEF AtRequestLine
  <2>3. Count \in 0 .. Len(script) - 1 /\ script \in Scripts
    <3>1. Count \in Nat /\ script \in Scripts /\ Len(script) \in Nat
      BY <2>1, CountIs, ScriptIs DEF Buffers
    <3> QED BY <2>2, <3>1
  <2>4. At(Count, 0) = Begin(Count) /\ Now \in Requests
    BY <2>3, RequestStands, RequestEnds DEF Now
  <2>5. Len(Now.headers) \in Nat /\ LineNo(Count, 0) = RequestLine(Now)
    <3>1. Len(Now.headers) \in Nat /\ LinesOf(Now)[1] = RequestLine(Now)
      BY <2>4, LinesAre
    <3> QED BY <3>1 DEF LineNo, Now
  <2>6. 0 \in 0 .. Len(script[Count + 1].headers) + 1
    BY <2>5 DEF Now
  <2>7. sent >= At(Count, 0 + 1) /\ Taken = At(Count, 0)
    BY <2>2, <2>4
  <2>8. PICK n \in 2 .. Len(buffer) : IsLine(n) /\ LineOf(n) = LineNo(Count, 0)
    BY <2>1, <2>3, <2>6, <2>7, LineIsThere
  <2>9. ~GoodLine(LineOf(n))
    <3> DEFINE l == RequestLine(Now)
    <3>1. LineOf(n) = l
      BY <2>5, <2>8
    <3> HIDE DEF l
    <3>2. ~GoodLine(l)
      BY <2>2, <2>4, FirstLineIs DEF l
    <3> QED BY <3>1, <3>2
  <2> QED BY <2>2, <2>8, <2>9
<1>3. IInv => AnsweredAtOnce
  BY <1>1, <1>2 DEF AnsweredAtOnce
<1> QED BY <1>3, ParsingInvariant, PTL

-----------------------------------------------------------------------------
(* Lengths in decimal digits.                                              *)

\* The digits of n, from g for the number without its last digit; and g has those of the numbers
\* up to n.
DigitsOf(g, n) == IF n < 10 THEN <<Digit(n)>> ELSE Append(g[n \div 10], Digit(n % 10))
Numbers(g, n) == g = [i \in 0 .. n |-> DigitsOf(g, i)]

\* What g holds at i, read off.
LEMMA NumbersOne ==
    ASSUME NEW g, NEW n \in Nat, Numbers(g, n)
    PROVE  \A i \in 0 .. n : g[i] = DigitsOf(g, i)
BY DEF Numbers

\* A number without its last digit is smaller.
LEMMA Shorter ==
    ASSUME NEW n \in Nat, n >= 10
    PROVE  n \div 10 \in Nat /\ n \div 10 < n /\ n \div 10 >= 1
OBVIOUS

\* The digits of n depend on those of the shorter number only.
LEMMA DigitsAlike ==
    ASSUME NEW g, NEW h, NEW n \in Nat, n >= 10 => g[n \div 10] = h[n \div 10]
    PROVE  DigitsOf(g, n) = DigitsOf(h, n)
<1>1. CASE n < 10
  BY <1>1 DEF DigitsOf
<1>2. CASE ~(n < 10)
  BY <1>2 DEF DigitsOf
<1> QED BY <1>1, <1>2

\* There is such a g, up to any number.
LEMMA NumbersExist ==
    ASSUME NEW n \in Nat
    PROVE  \E g : Numbers(g, n)
<1> DEFINE Bad == {k \in Nat : ~\E g : Numbers(g, k)}
<1> SUFFICES ASSUME Bad # {} PROVE FALSE
  OBVIOUS
<1>1. PICK k \in Bad : \A m \in Bad : k <= m
  BY LeastExists
<1>2. \E g : \A i \in 0 .. k - 1 : g[i] = DigitsOf(g, i)
  <2>1. CASE k = 0
    <3>1. 0 .. k - 1 = {}
      BY <2>1
    <3> QED BY <3>1
  <2>2. CASE k > 0
    <3>1. k - 1 \in Nat /\ k - 1 \notin Bad
      BY <1>1, <2>2
    <3>2. PICK g : Numbers(g, k - 1)
      BY <3>1
    <3> QED BY <3>1, <3>2, NumbersOne
  <2> QED BY <1>1, <2>1, <2>2
<1>3. PICK g : \A i \in 0 .. k - 1 : g[i] = DigitsOf(g, i)
  BY <1>2
<1> DEFINE h == [i \in 0 .. k |-> IF i < k THEN g[i] ELSE DigitsOf(g, i)]
<1>4. \A i \in 0 .. k : h[i] = DigitsOf(g, i)
  BY <1>1, <1>3
<1>5. \A i \in 0 .. k : h[i] = DigitsOf(h, i)
  <2> SUFFICES ASSUME NEW i \in 0 .. k PROVE DigitsOf(g, i) = DigitsOf(h, i)
    BY <1>4
  <2>1. ASSUME i >= 10 PROVE g[i \div 10] = h[i \div 10]
    <3>1. i \div 10 \in 0 .. k /\ i \div 10 < k
      BY <2>1, Shorter
    <3> QED BY <3>1
  <2> HIDE DEF h
  <2> QED BY <2>1, DigitsAlike
<1>6. Numbers(h, k)
  <2>1. h = [i \in 0 .. k |-> h[i]]
    OBVIOUS
  <2> HIDE DEF h
  <2> QED BY <1>5, <2>1 DEF Numbers
<1> QED BY <1>1, <1>6

\* Two of them agree.
LEMMA NumbersAlike ==
    ASSUME NEW g, NEW h, NEW n \in Nat, NEW m \in Nat, NEW k \in 0 .. n, k <= m, Numbers(g, n), Numbers(h, m)
    PROVE  g[k] = h[k]
<1> DEFINE Bad == {i \in 0 .. k : g[i] # h[i]}
<1> SUFFICES ASSUME Bad # {} PROVE FALSE
  OBVIOUS
<1>0. Bad \in SUBSET Nat
  OBVIOUS
<1>1. PICK i \in Bad : \A j \in Bad : i <= j
  BY <1>0, LeastExists
<1>2. g[i] = DigitsOf(g, i) /\ h[i] = DigitsOf(h, i)
  <2>1. i \in 0 .. n /\ i \in 0 .. m
    OBVIOUS
  <2> QED BY <2>1, NumbersOne
<1>3. i >= 10 => g[i \div 10] = h[i \div 10]
  <2>1. ASSUME i >= 10 PROVE i \div 10 \in 0 .. k /\ i \div 10 \notin Bad
    BY <1>1, <2>1, Shorter
  <2> QED BY <2>1
<1> QED BY <1>2, <1>3, DigitsAlike

\* So Decimal is the function that its definition describes.
LEMMA DecimalIs == \A n \in Nat : Decimal[n] = DigitsOf(Decimal, n)
<1> DEFINE G(n) == CHOOSE g : Numbers(g, n)
           f == [n \in Nat |-> G(n)[n]]
<1>1. \A n \in Nat : Numbers(G(n), n)
  BY NumbersExist
<1> HIDE DEF G
<1>2. ASSUME NEW n \in Nat PROVE f[n] = DigitsOf(f, n)
  <2>1. f[n] = DigitsOf(G(n), n)
    BY <1>1, NumbersOne
  <2>2. ASSUME n >= 10 PROVE G(n)[n \div 10] = f[n \div 10]
    <3>1. n \div 10 \in Nat /\ n \div 10 \in 0 .. n
      BY <2>2, Shorter
    <3>2. G(n)[n \div 10] = G(n \div 10)[n \div 10]
      BY <1>1, <3>1, NumbersAlike
    <3> QED BY <3>1, <3>2
  <2> HIDE DEF f
  <2> QED BY <2>1, <2>2, DigitsAlike
<1>3. f = [n \in Nat |-> DigitsOf(f, n)]
  <2>1. f = [n \in Nat |-> f[n]]
    OBVIOUS
  <2> HIDE DEF f
  <2> QED BY <1>2, <2>1
<1>4. Decimal = CHOOSE d : d = [n \in Nat |-> DigitsOf(d, n)]
  BY DEF Decimal, DigitsOf
<1> HIDE DEF f
<1>5. Decimal = [n \in Nat |-> DigitsOf(Decimal, n)]
  BY <1>3, <1>4
<1> QED BY <1>5

Numerals == {"0", "1", "2", "3", "4", "5", "6", "7", "8", "9"}

\* The digits are ten tokens.
LEMMA DigitIs ==
    /\ \A d \in 0 .. 9 : Digit(d) \in Numerals
    /\ \A d, e \in 0 .. 9 : Digit(d) = Digit(e) => d = e
    /\ CR \notin Numerals /\ LF \notin Numerals /\ "Content-Length" \notin Numerals
<1> DEFINE t == <<"0", "1", "2", "3", "4", "5", "6", "7", "8", "9">>
<1>1. /\ Digit(0) = "0" /\ Digit(1) = "1" /\ Digit(2) = "2" /\ Digit(3) = "3" /\ Digit(4) = "4"
      /\ Digit(5) = "5" /\ Digit(6) = "6" /\ Digit(7) = "7" /\ Digit(8) = "8" /\ Digit(9) = "9"
  BY DEF Digit
<1>2. \A d \in 0 .. 9 : d = 0 \/ d = 1 \/ d = 2 \/ d = 3 \/ d = 4 \/ d = 5 \/ d = 6 \/ d = 7 \/ d = 8 \/ d = 9
  OBVIOUS
<1>3. \A d \in 0 .. 9 : Digit(d) \in Numerals
  BY <1>1, <1>2 DEF Numerals
<1>4. \A d, e \in 0 .. 9 : Digit(d) = Digit(e) => d = e
  BY <1>1, <1>2
<1> QED BY <1>3, <1>4 DEF Numerals, CR, LF

\* A number is written with one digit or more.
LEMMA DecimalText ==
    ASSUME NEW n \in Nat
    PROVE  Decimal[n] \in Seq(Numerals) /\ Len(Decimal[n]) \in Nat \ {0}
<1> DEFINE Bad == {k \in Nat : ~(Decimal[k] \in Seq(Numerals) /\ Len(Decimal[k]) \in Nat \ {0})}
<1> SUFFICES ASSUME Bad # {} PROVE FALSE
  OBVIOUS
<1>1. PICK k \in Bad : \A m \in Bad : k <= m
  BY LeastExists
<1>2. CASE k < 10
  <2>1. Decimal[k] = <<Digit(k)>>
    BY <1>1, <1>2, DecimalIs DEF DigitsOf
  <2>2. k \in 0 .. 9
    BY <1>1, <1>2
  <2>3. Digit(k) \in Numerals
    BY <2>2, DigitIs
  <2>4. k \in Bad
    BY <1>1
  <2> HIDE DEF Bad
  <2>5. Decimal[k] \in Seq(Numerals) /\ Len(Decimal[k]) = 1
    BY <2>1, <2>3
  <2>6. Len(Decimal[k]) \in Nat \ {0}
    BY <2>5
  <2> QED BY <2>4, <2>5, <2>6 DEF Bad
<1>3. CASE ~(k < 10)
  <2> DEFINE m == k \div 10
             d == Decimal[m]
             e == Digit(k % 10)
  <2>1. m \in Nat /\ m < k
    BY <1>1, <1>3, Shorter
  <2>2. d \in Seq(Numerals) /\ Len(d) \in Nat \ {0}
    BY <1>1, <2>1
  <2>3. Decimal[k] = Append(d, e)
    BY <1>1, <1>3, DecimalIs DEF DigitsOf
  <2>4. e \in Numerals
    BY <1>1, DigitIs
  <2> HIDE DEF d, e
  <2>5. Decimal[k] \in Seq(Numerals) /\ Len(Decimal[k]) = Len(d) + 1
    BY <2>2, <2>3, <2>4, AppendProperties
  <2> QED BY <1>1, <2>2, <2>5
<1> QED BY <1>2, <1>3

\* Different numbers are written differently.
LEMMA DecimalTells ==
    ASSUME NEW n \in Nat, NEW m \in Nat, Decimal[n] = Decimal[m]
    PROVE  n = m
<1> DEFINE Bad == {k \in Nat : \E j \in Nat : Decimal[k] = Decimal[j] /\ k # j}
<1> SUFFICES ASSUME Bad # {} PROVE FALSE
  OBVIOUS
<1>1. PICK k \in Bad : \A i \in Bad : k <= i
  BY LeastExists
<1>2. PICK j \in Nat : Decimal[k] = Decimal[j] /\ k # j
  OBVIOUS
<1>3. ASSUME NEW i \in Nat
      PROVE  /\ i < 10 => Decimal[i] = <<Digit(i)>> /\ Len(Decimal[i]) = 1 /\ Decimal[i][1] = Digit(i)
             /\ i >= 10 => /\ i \div 10 \in Nat /\ i \div 10 < i
                           /\ Len(Decimal[i]) >= 2 /\ Len(Decimal[i]) \in Nat
                           /\ Decimal[i][Len(Decimal[i])] = Digit(i % 10)
                           /\ Decimal[i \div 10] = SubSeq(Decimal[i], 1, Len(Decimal[i]) - 1)
  <2>1. CASE i < 10
    <3>1. Decimal[i] = <<Digit(i)>>
      BY <2>1, DecimalIs DEF DigitsOf
    <3> QED BY <2>1, <3>1
  <2>2. CASE i >= 10
    <3> DEFINE d == Decimal[i \div 10]
               e == Digit(i % 10)
               t == Decimal[i]
    <3>1. i \div 10 \in Nat /\ i \div 10 < i
      BY <2>2, Shorter
    <3>2. d \in Seq(Numerals) /\ Len(d) \in Nat \ {0}
      BY <3>1, DecimalText
    <3>0. ~(i < 10)
      BY <2>2
    <3>3. t = Append(d, e)
      <4>1. Decimal[i] = DigitsOf(Decimal, i)
        BY DecimalIs
      <4> QED BY <3>0, <4>1, Zenon DEF DigitsOf
    <3>4. e \in Numerals
      BY DigitIs
    <3> HIDE DEF d, e, t
    <3>5. t \in Seq(Numerals) /\ Len(t) = Len(d) + 1 /\ t[Len(d) + 1] = e
      BY <3>2, <3>3, <3>4, AppendProperties
    <3>6. SubSeq(t, 1, Len(t) - 1) = d
      <4>1. Len(t) - 1 = Len(d)
        BY <3>2, <3>5
      <4>2. SubSeq(t, 1, Len(d)) = d
        BY <3>2, <3>3, <3>4
      <4> QED BY <4>1, <4>2
    <3>7. Len(t) >= 2 /\ Len(t) \in Nat /\ t[Len(t)] = e
      BY <3>2, <3>5
    <3> QED BY <2>2, <3>1, <3>6, <3>7 DEF d, e, t
  <2> QED BY <2>1, <2>2
<1>4. CASE k < 10
  <2>0. Len(Decimal[k]) = 1 /\ Decimal[k][1] = Digit(k)
    BY <1>3, <1>4
  <2>1. j < 10
    <3>1. ASSUME j >= 10 PROVE FALSE
      <4>1. Len(Decimal[j]) >= 2
        BY <1>3, <3>1
      <4>2. Len(Decimal[j]) = 1
        BY <1>2, <2>0
      <4> QED BY <4>1, <4>2
    <3> QED BY <3>1
  <2>2. Decimal[j][1] = Digit(j)
    BY <1>3, <2>1
  <2>3. Digit(k) = Digit(j)
    BY <1>2, <2>0, <2>2
  <2>4. k \in 0 .. 9 /\ j \in 0 .. 9
    BY <1>4, <2>1
  <2> QED BY <1>2, <2>3, <2>4, DigitIs
<1>5. CASE k >= 10
  <2>0. /\ Len(Decimal[k]) >= 2 /\ Len(Decimal[k]) \in Nat
        /\ Decimal[k][Len(Decimal[k])] = Digit(k % 10)
        /\ Decimal[k \div 10] = SubSeq(Decimal[k], 1, Len(Decimal[k]) - 1)
    BY <1>3, <1>5
  <2>1. j >= 10
    <3>1. ASSUME j < 10 PROVE FALSE
      <4>1. Len(Decimal[j]) = 1
        BY <1>3, <3>1
      <4>2. Len(Decimal[j]) >= 2
        BY <1>2, <2>0
      <4> QED BY <4>1, <4>2
    <3> QED BY <3>1
  <2>2. Digit(k % 10) = Digit(j % 10) /\ Decimal[k \div 10] = Decimal[j \div 10]
    <3>1. /\ Decimal[j][Len(Decimal[j])] = Digit(j % 10)
          /\ Decimal[j \div 10] = SubSeq(Decimal[j], 1, Len(Decimal[j]) - 1)
      BY <1>3, <2>1
    <3> DEFINE x == Decimal[k]
               y == Decimal[j]
    <3>2. x = y
      BY <1>2
    <3> HIDE DEF x, y
    <3>3. x[Len(x)] = Digit(k % 10) /\ Decimal[k \div 10] = SubSeq(x, 1, Len(x) - 1)
      BY <2>0 DEF x
    <3>4. y[Len(y)] = Digit(j % 10) /\ Decimal[j \div 10] = SubSeq(y, 1, Len(y) - 1)
      BY <3>1 DEF y
    <3> QED BY <3>2, <3>3, <3>4, Zenon
  <2>3. k % 10 = j % 10
    <3>1. k % 10 \in 0 .. 9 /\ j % 10 \in 0 .. 9
      BY <1>2
    <3> QED BY <2>2, <3>1, DigitIs
  <2>4. k \div 10 = j \div 10
    <3>1. k \div 10 \in Nat /\ k \div 10 < k /\ j \div 10 \in Nat
      BY <1>2, <1>5, <2>1, Shorter
    <3>2. k \div 10 \notin Bad
      BY <1>1, <3>1
    <3> QED BY <2>2, <3>1, <3>2
  <2> QED BY <1>2, <2>3, <2>4
<1> QED BY <1>1, <1>2, <1>4, <1>5

-----------------------------------------------------------------------------
(* Answers and the client that reads them.                                 *)

ContentLength == "Content-Length"

\* What answers are written with.
Bytes == Tokens \cup Numerals
           \cup {"HTTP/1.1", "404", "Not Found", "400", "Bad Request",
                 ": ", "Connection", "close", "Keep-Alive", ContentLength}

\* u is made of lines, none of them empty.
WholeLines(u) ==
    /\ u \in Seq(Bytes) /\ Len(u) \in Nat /\ Len(u) >= 2
    /\ u[1] # CR /\ u[Len(u) - 1] = CR /\ u[Len(u)] = LF
    /\ \A i \in 1 .. Len(u) : u[i] = CR => i + 1 <= Len(u) /\ (i + 2 <= Len(u) => u[i + 2] # CR)

\* The tokens that the reader looks for are among them, and differ.
LEMMA BytesAre ==
    /\ CR \in Bytes /\ LF \in Bytes /\ ContentLength \in Bytes /\ " " \in Bytes
    /\ CR # LF /\ CR # ContentLength /\ LF # ContentLength
    /\ ReplyWords \subseteq Bytes /\ Numerals \subseteq Bytes /\ Tokens \subseteq Bytes
    /\ \A w \in ReplyWords : w # CR /\ w # LF /\ w # ContentLength
BY Separators DEF Bytes, ReplyWords, CR, LF, ContentLength

\* Two texts in a row, taken apart.
LEMMA TakeApart ==
    ASSUME NEW T, NEW s \in Seq(T), NEW t \in Seq(T), NEW c, IsConcat(c, s, t)
    PROVE  SubSeq(c, 1, Len(s)) = s /\ SubSeq(c, Len(s) + 1, Len(c)) = t
<1>1. /\ c \in Seq(T) /\ Len(c) = Len(s) + Len(t) /\ Len(s) \in Nat /\ Len(t) \in Nat
      /\ \A i \in 1 .. Len(s) : c[i] = s[i]
      /\ \A i \in 1 .. Len(t) : c[Len(s) + i] = t[i]
  BY IsConcatIs
<1>2. Len(s) \in 0 .. Len(c)
  BY <1>1
<1> DEFINE f == SubSeq(c, 1, Len(s))
           g == SubSeq(c, Len(s) + 1, Len(c))
<1>3. f \in Seq(T) /\ Len(f) = Len(s) /\ \A i \in 1 .. Len(s) : f[i] = c[i]
  BY <1>1, <1>2, FirstOf
<1>4. g \in Seq(T) /\ Len(g) = Len(t) /\ \A i \in 1 .. Len(t) : g[i] = c[Len(s) + i]
  <2>1. Len(s) <= Len(c) /\ Len(c) - Len(s) = Len(t) /\ Len(c) \in Nat
    BY <1>1
  <2> QED BY <1>1, <2>1, SliceIs
<1> HIDE DEF f, g
<1>5. f = s
  BY <1>1, <1>3, SeqEqual
<1>6. g = t
  BY <1>1, <1>4, SeqEqual
<1> QED BY <1>5, <1>6 DEF f, g

\* What stands before and after the first place that has the token.
LEMMA FirstToken ==
    ASSUME NEW T, NEW text \in Seq(T), NEW token, NEW k \in 1 .. Len(text), text[k] = token,
           \A i \in 1 .. k - 1 : text[i] # token
    PROVE  /\ Has(text, token) /\ Before(text, token) = SubSeq(text, 1, k - 1)
           /\ After(text, token) = SubSeq(text, k + 1, Len(text))
<1> DEFINE n == Len(text)
<1>1. n \in Nat /\ DOMAIN text = 1 .. n /\ k \in Nat /\ 1 <= k /\ k <= n
  BY LenProperties
<1>2. Has(text, token)
  BY <1>1 DEF Has, ToSet
<1>3. Find(text, token) = k
  <2> DEFINE I == {i \in 1 .. n : text[i] = token}
  <2>1. k \in I /\ \A i \in I : i \in Nat /\ k <= i
    <3>1. k \in I
      BY <1>1
    <3>2. ASSUME NEW i \in I PROVE i \in Nat /\ k <= i
      <4>1. i \in 1 .. n /\ text[i] = token
        OBVIOUS
      <4>2. i \notin 1 .. k - 1
        BY <4>1
      <4> QED BY <1>1, <4>1, <4>2
    <3> QED BY <3>1, <3>2
  <2>2. Find(text, token) = Min(I)
    BY <2>1 DEF Find, SelectInSeq
  <2> HIDE DEF I
  <2>3. Min(I) = k
    <3>1. Min(I) \in I /\ \A i \in I : Min(I) <= i
      BY <2>1 DEF Min
    <3>2. Min(I) \in Nat /\ k <= Min(I) /\ Min(I) <= k
      BY <2>1, <3>1
    <3> QED BY <1>1, <3>2
  <2> QED BY <2>2, <2>3
<1>4. Before(text, token) = SubSeq(text, 1, k - 1)
  BY <1>2, <1>3 DEF Before
<1>5. After(text, token) = SubSeq(text, k + 1, n)
  <2> DEFINE f == SubSeq(text, k, n)
             g == SubSeq(text, k + 1, n)
  <2>1. After(text, token) = Tail(f)
    BY <1>3 DEF After, From
  <2>2. f \in Seq(T) /\ Len(f) = n - k + 1 /\ \A i \in 1 .. n - k + 1 : f[i] = text[k - 1 + i]
    <3>1. k - 1 \in Nat /\ (k - 1) + 1 = k /\ n - (k - 1) = n - k + 1 /\ k - 1 <= n
      BY <1>1
    <3>2. /\ SubSeq(text, (k - 1) + 1, n) \in Seq(T) /\ Len(SubSeq(text, (k - 1) + 1, n)) = n - (k - 1)
          /\ \A i \in 1 .. n - (k - 1) : SubSeq(text, (k - 1) + 1, n)[i] = text[k - 1 + i]
      BY <1>1, <3>1, SliceIs
    <3> QED BY <3>1, <3>2
  <2>3. g \in Seq(T) /\ Len(g) = n - k /\ \A i \in 1 .. n - k : g[i] = text[k + i]
    <3>1. k \in Nat /\ n \in Nat /\ k <= n /\ n <= Len(text)
      BY <1>1
    <3> HIDE DEF n
    <3> QED BY <3>1, SliceIs
  <2> HIDE DEF f, g
  <2>4. f # << >>
    BY <1>1, <2>2, EmptySeq
  <2>5. Tail(f) \in Seq(T) /\ Len(Tail(f)) = n - k /\ \A i \in 1 .. n - k : Tail(f)[i] = f[i + 1]
    <3>1. Tail(f) \in Seq(T) /\ Len(Tail(f)) = Len(f) - 1 /\ \A i \in 1 .. Len(Tail(f)) : Tail(f)[i] = f[i + 1]
      BY <2>2, <2>4, HeadTailProperties
    <3>2. (n - k + 1) - 1 = n - k
      BY <1>1
    <3> QED BY <2>2, <3>1, <3>2
  <2>6. \A i \in 1 .. n - k : Tail(f)[i] = g[i]
    <3> SUFFICES ASSUME NEW i \in 1 .. n - k PROVE f[i + 1] = text[k + i]
      BY <2>3, <2>5
    <3>1. i + 1 \in 1 .. n - k + 1 /\ k - 1 + (i + 1) = k + i
      BY <1>1
    <3> QED BY <2>2, <3>1
  <2>7. Tail(f) = g
    BY <2>3, <2>5, <2>6, SeqEqual
  <2> QED BY <2>1, <2>7 DEF g
<1> QED BY <1>2, <1>4, <1>5

\* A line with its end.
LEMMA LineWhole ==
    ASSUME NEW l \in Seq(Bytes), Len(l) > 0, Free(l, CR), NEW u, IsConcat(u, l, <<CR, LF>>)
    PROVE  WholeLines(u) /\ Len(u) = Len(l) + 2
<1>0. CR \in Bytes /\ LF \in Bytes /\ u = l \o <<CR, LF>>
  BY BytesAre DEF IsConcat
<1>1. /\ Len(l) \in Nat /\ u \in Seq(Bytes) /\ Len(u) = Len(l) + 2
      /\ \A i \in 1 .. Len(l) : u[i] = l[i]
      /\ u[Len(l) + 1] = CR /\ u[Len(l) + 2] = LF
  BY <1>0, PieceIs
<1>2. \A i \in 1 .. Len(l) : u[i] # CR
  BY <1>1, LenProperties DEF Free
<1> DEFINE n == Len(l)
<1> HIDE DEF n
<1>3. n \in Nat /\ n > 0 /\ Len(u) = n + 2 /\ u[n + 1] = CR /\ u[n + 2] = LF /\ \A i \in 1 .. n : u[i] # CR
  BY <1>1, <1>2 DEF n
<1>4. u[1] # CR
  BY <1>3
<1>5. Len(u) >= 2 /\ Len(u) \in Nat /\ Len(u) - 1 = n + 1
  BY <1>3
<1>6. ASSUME NEW i \in 1 .. Len(u), u[i] = CR PROVE i + 1 <= Len(u) /\ (i + 2 <= Len(u) => u[i + 2] # CR)
  <2>1. i = n + 1
    <3>1. i # n + 2
      BY <1>3, <1>6, BytesAre
    <3>2. i \notin 1 .. n
      BY <1>3, <1>6
    <3> QED BY <1>3, <3>1, <3>2
  <2> QED BY <1>3, <2>1
<1> QED BY <1>1, <1>3, <1>4, <1>5, <1>6 DEF WholeLines

\* Lines after lines.
LEMMA LinesJoin ==
    ASSUME NEW u, NEW v, WholeLines(u), WholeLines(v), NEW c, IsConcat(c, u, v)
    PROVE  WholeLines(c)
<1> DEFINE m == Len(u)
           n == Len(v)
<1>1. /\ u \in Seq(Bytes) /\ m \in Nat /\ m >= 2
      /\ u[1] # CR /\ u[m - 1] = CR /\ u[m] = LF
      /\ \A i \in 1 .. m : u[i] = CR => i + 1 <= m /\ (i + 2 <= m => u[i + 2] # CR)
  BY DEF WholeLines
<1>2. /\ v \in Seq(Bytes) /\ n \in Nat /\ n >= 2
      /\ v[1] # CR /\ v[n - 1] = CR /\ v[n] = LF
      /\ \A i \in 1 .. n : v[i] = CR => i + 1 <= n /\ (i + 2 <= n => v[i + 2] # CR)
  BY DEF WholeLines
<1>3. /\ c \in Seq(Bytes) /\ Len(c) = m + n
      /\ \A i \in 1 .. m : c[i] = u[i]
      /\ \A i \in 1 .. n : c[m + i] = v[i]
  BY <1>1, <1>2, IsConcatIs
<1> HIDE DEF m, n
<1>4. c[1] # CR /\ c[m + n - 1] = CR /\ c[m + n] = LF
  <2>1. 1 \in 1 .. m /\ n - 1 \in 1 .. n /\ n \in 1 .. n /\ m + (n - 1) = m + n - 1
    BY <1>1, <1>2
  <2> QED BY <1>1, <1>2, <1>3, <2>1
<1>5. ASSUME NEW i \in 1 .. m + n, c[i] = CR PROVE i + 1 <= m + n /\ (i + 2 <= m + n => c[i + 2] # CR)
  <2>1. CASE i <= m
    <3>1. i \in 1 .. m /\ u[i] = CR
      BY <1>1, <1>3, <1>5, <2>1
    <3>2. i + 1 <= m /\ (i + 2 <= m => u[i + 2] # CR)
      BY <1>1, <3>1
    <3>3. CASE i + 2 <= m
      <4>1. i + 2 \in 1 .. m
        BY <3>1, <3>3
      <4> QED BY <1>1, <1>2, <1>3, <3>2, <3>3, <4>1
    <3>4. CASE ~(i + 2 <= m)
      <4>1. i + 2 = m + 1 /\ 1 \in 1 .. n
        BY <1>1, <1>2, <3>1, <3>2, <3>4
      <4>2. c[i + 2] # CR
        BY <1>2, <1>3, <4>1
      <4> QED BY <1>1, <1>2, <3>2, <4>2
    <3> QED BY <3>3, <3>4
  <2>2. CASE ~(i <= m)
    <3>1. i - m \in 1 .. n /\ m + (i - m) = i
      BY <1>1, <1>2, <2>2
    <3>2. v[i - m] = CR
      BY <1>3, <1>5, <3>1
    <3>3. (i - m) + 1 <= n /\ ((i - m) + 2 <= n => v[(i - m) + 2] # CR)
      BY <1>2, <3>1, <3>2
    <3>4. ASSUME i + 2 <= m + n PROVE c[i + 2] # CR
      <4>1. (i - m) + 2 \in 1 .. n /\ m + ((i - m) + 2) = i + 2
        BY <1>1, <1>2, <3>1, <3>4
      <4>2. c[i + 2] = v[(i - m) + 2]
        BY <1>3, <4>1
      <4> QED BY <3>3, <4>1, <4>2
    <3> QED BY <1>1, <1>2, <3>1, <3>3, <3>4
  <2> QED BY <2>1, <2>2
<1>6. Len(c) \in Nat /\ Len(c) >= 2 /\ m + n = Len(c)
  BY <1>1, <1>2, <1>3
<1>7. \A i \in 1 .. Len(c) : c[i] = CR => i + 1 <= Len(c) /\ (i + 2 <= Len(c) => c[i + 2] # CR)
  <2> SUFFICES ASSUME NEW i \in 1 .. Len(c), c[i] = CR
               PROVE  i + 1 <= Len(c) /\ (i + 2 <= Len(c) => c[i + 2] # CR)
    OBVIOUS
  <2>1. i \in 1 .. m + n
    BY <1>6
  <2>2. i + 1 <= m + n /\ (i + 2 <= m + n => c[i + 2] # CR)
    BY <1>5, <2>1
  <2> QED BY <1>6, <2>2
<1>8. c \in Seq(Bytes) /\ c[1] # CR /\ c[Len(c) - 1] = CR /\ c[Len(c)] = LF
  <2>1. Len(c) = m + n /\ Len(c) - 1 = m + n - 1
    BY <1>1, <1>2, <1>3
  <2>2. c[Len(c) - 1] = CR
    BY <1>4, <2>1
  <2>3. c[Len(c)] = LF
    BY <1>4, <2>1
  <2> QED BY <1>3, <1>4, <2>2, <2>3
<1> QED BY <1>6, <1>7, <1>8 DEF WholeLines

\* The head of an answer ends with the first empty line.
LEMMA HeadEndIs ==
    ASSUME NEW u, WholeLines(u), NEW h, IsConcat(h, u, <<CR, LF>>),
           NEW v \in Seq(Bytes), NEW text, IsConcat(text, h, v)
    PROVE  /\ HeadEnd(text) = Len(h) /\ h \in Seq(Bytes) /\ Len(h) = Len(u) + 2 /\ Len(h) \in Nat
           /\ \A i \in 1 .. Len(u) : h[i] = u[i]
           /\ h[Len(u) + 1] = CR /\ h[Len(u) + 2] = LF
           /\ SubSeq(text, 1, Len(h)) = h /\ SubSeq(text, Len(h) + 1, Len(text)) = v
<1> DEFINE m == Len(u)
<1>1. /\ u \in Seq(Bytes) /\ m \in Nat /\ m >= 2
      /\ u[1] # CR /\ u[m - 1] = CR /\ u[m] = LF
      /\ \A i \in 1 .. m : u[i] = CR => i + 1 <= m /\ (i + 2 <= m => u[i + 2] # CR)
  BY DEF WholeLines
<1>0. CR \in Bytes /\ LF \in Bytes /\ h = u \o <<CR, LF>> /\ u \in Seq(Bytes)
  BY BytesAre DEF IsConcat, WholeLines
<1>2. /\ h \in Seq(Bytes) /\ Len(h) = m + 2
      /\ \A i \in 1 .. m : h[i] = u[i]
      /\ h[m + 1] = CR /\ h[m + 2] = LF
  BY <1>0, PieceIs
<1>3. /\ text \in Seq(Bytes) /\ Len(text) = Len(h) + Len(v) /\ Len(h) \in Nat /\ Len(v) \in Nat
      /\ \A i \in 1 .. Len(h) : text[i] = h[i]
  BY <1>2, IsConcatIs
<1>4. SubSeq(text, 1, Len(h)) = h /\ SubSeq(text, Len(h) + 1, Len(text)) = v
  BY <1>2, TakeApart
<1> HIDE DEF m
<1> DEFINE e == m + 2
<1>5. \A i \in 1 .. m : text[i] = u[i]
  <2> SUFFICES ASSUME NEW i \in 1 .. m PROVE text[i] = u[i]
    OBVIOUS
  <2>1. i \in 1 .. Len(h)
    BY <1>1, <1>2
  <2> QED BY <1>2, <1>3, <2>1
<1>6. text[m + 1] = CR /\ text[m + 2] = LF
  <2>1. m + 1 \in 1 .. Len(h) /\ m + 2 \in 1 .. Len(h)
    BY <1>1, <1>2
  <2> QED BY <1>2, <1>3, <2>1
<1>7. e \in 4 .. Len(text) /\ EndsHead(text, e)
  <2>1. m - 1 \in 1 .. m /\ m \in 1 .. m /\ e - 3 = m - 1 /\ e - 2 = m /\ e - 1 = m + 1 /\ e = m + 2
    BY <1>1
  <2>2. text[e - 3] = CR /\ text[e - 2] = LF
    BY <1>1, <1>5, <2>1
  <2>3. e \in 4 .. Len(text)
    BY <1>1, <1>2, <1>3
  <2> QED BY <1>6, <2>1, <2>2, <2>3 DEF EndsHead
<1>8. ASSUME NEW n \in 4 .. Len(text), EndsHead(text, n) PROVE n >= e
  <2> SUFFICES ASSUME n < e PROVE FALSE
    BY <1>1
  <2>1. n - 3 \in 1 .. m /\ n - 1 \in 1 .. m /\ (n - 3) + 2 = n - 1 /\ n - 1 <= m
    BY <1>1
  <2>2. text[n - 3] = CR /\ text[n - 1] = CR
    BY <1>8 DEF EndsHead
  <2>3. u[n - 3] = CR /\ u[n - 1] = CR
    BY <1>5, <2>1, <2>2
  <2> QED BY <1>1, <2>1, <2>3
<1>9. HeadEnd(text) = e
  <2> DEFINE Ends(n) == EndsHead(text, n) /\ \A k \in 4 .. n - 1 : ~EndsHead(text, k)
  <2>1. Ends(e)
    <3> SUFFICES ASSUME NEW k \in 4 .. e - 1, EndsHead(text, k) PROVE FALSE
      BY <1>7
    <3>1. k \in 4 .. Len(text) /\ k < e
      BY <1>1, <1>7
    <3> QED BY <1>8, <3>1, <1>1
  <2>2. ASSUME NEW n \in 4 .. Len(text), Ends(n) PROVE n = e
    <3>1. n >= e
      BY <1>8, <2>2
    <3>2. ~(n > e)
      <4> SUFFICES ASSUME n > e PROVE FALSE
        OBVIOUS
      <4>1. e \in 4 .. n - 1
        BY <1>1, <1>7
      <4> QED BY <1>7, <2>2, <4>1
    <3> QED BY <1>1, <3>1, <3>2
  <2>3. HeadEnd(text) = CHOOSE n \in 4 .. Len(text) : Ends(n)
    BY DEF HeadEnd
  <2> HIDE DEF Ends
  <2> QED BY <1>7, <2>1, <2>2, <2>3
<1> QED BY <1>1, <1>2, <1>3, <1>4, <1>9 DEF m

\* A text of two tokens.
LEMMA TwoTokens ==
    ASSUME NEW T, NEW x \in T, NEW y \in T
    PROVE  /\ <<x, y>> \in Seq(T) /\ Len(<<x, y>>) = 2 /\ <<x, y>>[1] = x /\ <<x, y>>[2] = y
           /\ \A token : Free(<<x, y>>, token) <=> x # token /\ y # token
<1> DEFINE s == <<x, y>>
<1>1. s \in Seq(T) /\ Len(s) = 2 /\ s[1] = x /\ s[2] = y
  OBVIOUS
<1> HIDE DEF s
<1>2. DOMAIN s = 1 .. 2
  BY <1>1, LenProperties
<1>3. \A token : Free(s, token) <=> x # token /\ y # token
  <2>1. \A i \in 1 .. 2 : i = 1 \/ i = 2
    OBVIOUS
  <2>2. 1 \in 1 .. 2 /\ 2 \in 1 .. 2
    OBVIOUS
  <2> QED BY <1>1, <1>2, <2>1, <2>2 DEF Free
<1> QED BY <1>1, <1>3 DEF s

\* The text a line of a header makes.
LEMMA FieldIs ==
    ASSUME NEW f \in Bytes, f # CR, NEW v \in Seq(Bytes), Free(v, CR), NEW u, u = Field(f, v)
    PROVE  /\ WholeLines(u) /\ Len(v) \in Nat /\ Len(u) = Len(v) + 4
           /\ u[1] = f /\ (\A i \in 1 .. Len(v) : u[2 + i] = v[i]) /\ u[Len(v) + 3] = CR
           /\ f # ContentLength /\ Free(v, ContentLength) => Free(u, ContentLength)
<1> DEFINE name == <<f, ": ">>
           l == name \o v
<1>1. ": " \in Bytes /\ ": " # CR /\ ": " # ContentLength /\ CR \in Bytes /\ LF \in Bytes
  BY BytesAre DEF Bytes, CR, ContentLength
<1>0. name \in Seq(Bytes) /\ Len(name) = 2 /\ name[1] = f
  BY <1>1, TwoTokens
<1>2. Free(name, CR) /\ (f # ContentLength => Free(name, ContentLength))
  BY <1>1, TwoTokens
<1>3. /\ l \in Seq(Bytes) /\ Len(l) = 2 + Len(v) /\ Len(v) \in Nat
      /\ l[1] = name[1] /\ \A i \in 1 .. Len(v) : l[2 + i] = v[i]
  <2>1. IsConcat(l, name, v)
    BY DEF IsConcat
  <2> HIDE DEF name, l
  <2>2. /\ l \in Seq(Bytes) /\ Len(l) = Len(name) + Len(v) /\ Len(v) \in Nat
        /\ (\A i \in 1 .. Len(name) : l[i] = name[i]) /\ \A i \in 1 .. Len(v) : l[Len(name) + i] = v[i]
    <3>1. name \in Seq(Bytes) /\ v \in Seq(Bytes)
      BY <1>0
    <3> QED BY <2>1, <3>1, IsConcatIs
  <2>3. 1 \in 1 .. Len(name)
    BY <1>0
  <2> QED BY <1>0, <2>2, <2>3
<1>4. Free(l, CR) /\ (f # ContentLength /\ Free(v, ContentLength) => Free(l, ContentLength))
  <2> HIDE DEF name
  <2> QED BY <1>0, <1>2, FreeConcat
<1>5. IsConcat(u, l, <<CR, LF>>) /\ u = l \o <<CR, LF>>
  BY DEF Field, IsConcat
<1> HIDE DEF l
<1>6. l[1] = f
  BY <1>0, <1>3
<1> HIDE DEF name
<1>7. WholeLines(u) /\ Len(u) = Len(l) + 2
  <2>1. Len(l) > 0
    BY <1>3
  <2> QED BY <1>3, <1>4, <1>5, <2>1, LineWhole
<1>8. (\A i \in 1 .. Len(l) : u[i] = l[i]) /\ u[Len(l) + 1] = CR
  <2>1. l \in Seq(Bytes) /\ CR \in Bytes /\ LF \in Bytes /\ u = l \o <<CR, LF>>
    BY <1>1, <1>3, <1>5
  <2> QED BY <2>1, PieceIs
<1>9. u[1] = f /\ (\A i \in 1 .. Len(v) : u[2 + i] = v[i]) /\ u[Len(v) + 3] = CR
  <2>1. 1 \in 1 .. Len(l) /\ Len(l) + 1 = Len(v) + 3
    BY <1>3
  <2>2. ASSUME NEW i \in 1 .. Len(v) PROVE u[2 + i] = v[i]
    <3>1. 2 + i \in 1 .. Len(l)
      BY <1>3
    <3> QED BY <1>3, <1>8, <3>1
  <2> QED BY <1>6, <1>8, <2>1, <2>2
<1>10. f # ContentLength /\ Free(v, ContentLength) => Free(u, ContentLength)
  <2>1. <<CR, LF>> \in Seq(Bytes) /\ Free(<<CR, LF>>, ContentLength)
    BY BytesAre, TwoTokens
  <2> DEFINE e == <<CR, LF>>
  <2>2. l \in Seq(Bytes) /\ u = l \o e
    BY <1>3, <1>5
  <2> HIDE DEF e
  <2>3. e \in Seq(Bytes) /\ Free(e, ContentLength)
    BY <2>1 DEF e
  <2> QED BY <1>4, <2>2, <2>3, FreeConcat
<1> QED BY <1>3, <1>7, <1>9, <1>10

\* u has the length d, in digits, after its a first tokens.
Tells(u, a, d) ==
    /\ a \in Nat /\ d \in Seq(Numerals) /\ u \in Seq(Bytes)
    /\ Len(d) \in Nat /\ Len(u) \in Nat /\ a + 3 + Len(d) <= Len(u)
    /\ \A i \in 1 .. a : u[i] # ContentLength
    /\ u[a + 1] = ContentLength
    /\ \A i \in 1 .. Len(d) : u[a + 2 + i] = d[i]
    /\ u[a + 3 + Len(d)] = CR

\* The header that tells the length does.
LEMMA LengthLine ==
    ASSUME NEW d \in Seq(Numerals), NEW u, u = Field(ContentLength, d)
    PROVE  WholeLines(u) /\ Tells(u, 0, d)
<1>1. d \in Seq(Bytes) /\ Free(d, CR)
  <2>1. \A i \in DOMAIN d : d[i] \in Numerals
    BY LenProperties, ElementOfSeq
  <2>2. d \in Seq(Bytes)
    BY BytesAre, SeqMonotonic
  <2> QED BY <2>1, <2>2 DEF Free, Numerals, CR
<1>2. /\ WholeLines(u) /\ Len(d) \in Nat /\ Len(u) = Len(d) + 4
      /\ u[1] = ContentLength /\ (\A i \in 1 .. Len(d) : u[2 + i] = d[i]) /\ u[Len(d) + 3] = CR
  <2>1. ContentLength \in Bytes /\ ContentLength # CR
    BY BytesAre
  <2> QED BY <1>1, <2>1, FieldIs
<1>3. Tells(u, 0, d)
  <2>1. u \in Seq(Bytes)
    BY <1>2 DEF WholeLines
  <2>2. 0 + 3 + Len(d) = Len(d) + 3 /\ 0 + 3 + Len(d) <= Len(u) /\ Len(u) \in Nat /\ 1 .. 0 = {}
    BY <1>2
  <2>3. \A i \in 1 .. Len(d) : 0 + 2 + i = 2 + i
    BY <1>2
  <2>4. \A i \in 1 .. Len(d) : u[0 + 2 + i] = d[i]
    BY <1>2, <2>3
  <2> QED BY <1>2, <2>1, <2>2, <2>4 DEF Tells
<1> QED BY <1>2, <1>3

\* It does wherever the line comes, after none that has one.
LEMMA TellsAfter ==
    ASSUME NEW s \in Seq(Bytes), Free(s, ContentLength), NEW u, NEW d, Tells(u, 0, d), NEW c, IsConcat(c, s, u)
    PROVE  Tells(c, Len(s), d)
<1> DEFINE a == Len(s)
<1>1. /\ d \in Seq(Numerals) /\ u \in Seq(Bytes) /\ Len(d) \in Nat /\ Len(u) \in Nat
      /\ 0 + 3 + Len(d) <= Len(u) /\ u[0 + 1] = ContentLength
      /\ (\A i \in 1 .. Len(d) : u[0 + 2 + i] = d[i]) /\ u[0 + 3 + Len(d)] = CR
  BY DEF Tells
<1>2. /\ c \in Seq(Bytes) /\ Len(c) = a + Len(u) /\ a \in Nat
      /\ (\A i \in 1 .. a : c[i] = s[i]) /\ \A i \in 1 .. Len(u) : c[a + i] = u[i]
  BY <1>1, IsConcatIs
<1>3. \A i \in 1 .. a : c[i] # ContentLength
  BY <1>2, LenProperties DEF Free
<1> HIDE DEF a
<1>4. Len(c) \in Nat /\ a + 3 + Len(d) <= Len(c)
  BY <1>1, <1>2
<1>5. c[a + 1] = ContentLength
  <2>1. 1 \in 1 .. Len(u) /\ 0 + 1 = 1
    BY <1>1
  <2> QED BY <1>1, <1>2, <2>1
<1>6. ASSUME NEW i \in 1 .. Len(d) PROVE c[a + 2 + i] = d[i]
  <2>1. 2 + i \in 1 .. Len(u) /\ a + (2 + i) = a + 2 + i /\ 0 + 2 + i = 2 + i
    BY <1>1, <1>2
  <2> QED BY <1>1, <1>2, <2>1
<1>7. c[a + 3 + Len(d)] = CR
  <2>1. 3 + Len(d) \in 1 .. Len(u) /\ a + (3 + Len(d)) = a + 3 + Len(d) /\ 0 + 3 + Len(d) = 3 + Len(d)
    BY <1>1, <1>2
  <2> QED BY <1>1, <1>2, <2>1
<1> QED BY <1>1, <1>2, <1>3, <1>4, <1>5, <1>6, <1>7 DEF Tells, a

\* It does whatever comes next.
LEMMA TellsBefore ==
    ASSUME NEW u, NEW a, NEW d, Tells(u, a, d), NEW t \in Seq(Bytes), NEW c, IsConcat(c, u, t)
    PROVE  Tells(c, a, d)
<1>1. /\ a \in Nat /\ d \in Seq(Numerals) /\ u \in Seq(Bytes) /\ Len(d) \in Nat /\ Len(u) \in Nat
      /\ a + 3 + Len(d) <= Len(u) /\ u[a + 1] = ContentLength
      /\ (\A i \in 1 .. a : u[i] # ContentLength)
      /\ (\A i \in 1 .. Len(d) : u[a + 2 + i] = d[i]) /\ u[a + 3 + Len(d)] = CR
  BY DEF Tells
<1>2. /\ c \in Seq(Bytes) /\ Len(c) = Len(u) + Len(t) /\ Len(t) \in Nat
      /\ \A i \in 1 .. Len(u) : c[i] = u[i]
  BY <1>1, IsConcatIs
<1>3. Len(c) \in Nat /\ a + 3 + Len(d) <= Len(c)
  BY <1>1, <1>2
<1>4. ASSUME NEW i \in 1 .. a PROVE c[i] # ContentLength
  <2>1. i \in 1 .. Len(u)
    BY <1>1
  <2> QED BY <1>1, <1>2, <2>1
<1>5. c[a + 1] = ContentLength /\ c[a + 3 + Len(d)] = CR
  <2>1. a + 1 \in 1 .. Len(u) /\ a + 3 + Len(d) \in 1 .. Len(u)
    BY <1>1
  <2> QED BY <1>1, <1>2, <2>1
<1>6. ASSUME NEW i \in 1 .. Len(d) PROVE c[a + 2 + i] = d[i]
  <2>1. a + 2 + i \in 1 .. Len(u)
    BY <1>1
  <2> QED BY <1>1, <1>2, <2>1
<1> QED BY <1>1, <1>2, <1>3, <1>4, <1>5, <1>6 DEF Tells

\* A client that looks for the length finds it.
LEMMA LengthFound ==
    ASSUME NEW h, NEW a, NEW d, Tells(h, a, d)
    PROVE  Has(h, ContentLength) /\ LengthTold(h) = d
<1> DEFINE n == Len(h)
           k == Len(d)
<1>1. /\ a \in Nat /\ d \in Seq(Numerals) /\ h \in Seq(Bytes) /\ k \in Nat /\ n \in Nat
      /\ a + 3 + k <= n /\ h[a + 1] = ContentLength
      /\ (\A i \in 1 .. a : h[i] # ContentLength)
      /\ (\A i \in 1 .. k : h[a + 2 + i] = d[i]) /\ h[a + 3 + k] = CR
  BY DEF Tells
<1> DEFINE f == SubSeq(h, a + 2, n)
           g == SubSeq(h, a + 3, n)
<1>2. Has(h, ContentLength) /\ After(h, ContentLength) = f
  <2> DEFINE j == a + 1
  <2>1. j \in 1 .. Len(h) /\ j - 1 = a /\ j + 1 = a + 2
    BY <1>1
  <2>2. h \in Seq(Bytes) /\ h[j] = ContentLength /\ \A i \in 1 .. j - 1 : h[i] # ContentLength
    BY <1>1, <2>1
  <2> HIDE DEF j
  <2>3. Has(h, ContentLength) /\ After(h, ContentLength) = SubSeq(h, j + 1, Len(h))
    BY <2>1, <2>2, FirstToken
  <2> QED BY <2>1, <2>3
<1>3. f \in Seq(Bytes) /\ Len(f) = n - (a + 1) /\ \A i \in 1 .. n - (a + 1) : f[i] = h[(a + 1) + i]
  <2> DEFINE b == a + 1
             s == SubSeq(h, b + 1, n)
  <2>1. b \in Nat /\ b <= n /\ n <= Len(h) /\ b + 1 = a + 2 /\ n \in Nat /\ h \in Seq(Bytes)
    BY <1>1
  <2> HIDE DEF b, n
  <2>2. s \in Seq(Bytes) /\ Len(s) = n - b /\ \A i \in 1 .. n - b : s[i] = h[b + i]
    BY <2>1, SliceIs
  <2>3. f = s
    BY <2>1
  <2> HIDE DEF s, f
  <2> QED BY <2>2, <2>3 DEF b
<1>4. g \in Seq(Bytes) /\ Len(g) = n - (a + 2) /\ \A i \in 1 .. n - (a + 2) : g[i] = h[(a + 2) + i]
  <2>1. a + 2 \in Nat /\ a + 2 <= n /\ n <= Len(h) /\ (a + 2) + 1 = a + 3
    BY <1>1
  <2> HIDE DEF n
  <2> QED BY <1>1, <2>1, SliceIs
<1> HIDE DEF f, g
<1>5. Tail(f) = g
  <2>1. f # << >>
    BY <1>1, <1>3, EmptySeq
  <2>2. Tail(f) \in Seq(Bytes) /\ Len(Tail(f)) = Len(f) - 1 /\ \A i \in 1 .. Len(Tail(f)) : Tail(f)[i] = f[i + 1]
    BY <1>3, <2>1, HeadTailProperties
  <2>3. (n - (a + 1)) - 1 = n - (a + 2)
    BY <1>1
  <2>4. ASSUME NEW i \in 1 .. n - (a + 2) PROVE f[i + 1] = g[i]
    <3>1. i + 1 \in 1 .. n - (a + 1) /\ (a + 1) + (i + 1) = (a + 2) + i
      BY <1>1
    <3> QED BY <1>3, <1>4, <3>1
  <2> QED BY <1>3, <1>4, <2>2, <2>3, <2>4, SeqEqual
<1>6. Before(g, CR) = d
  <2>1. \A i \in 1 .. k : g[i] = d[i]
    <3> SUFFICES ASSUME NEW i \in 1 .. k PROVE g[i] = d[i]
      OBVIOUS
    <3>1. i \in 1 .. n - (a + 2)
      BY <1>1
    <3> QED BY <1>1, <1>4, <3>1
  <2>2. k + 1 \in 1 .. Len(g) /\ g[k + 1] = CR
    <3>1. k + 1 \in 1 .. n - (a + 2) /\ (a + 2) + (k + 1) = a + 3 + k
      BY <1>1
    <3> QED BY <1>1, <1>4, <3>1
  <2>3. \A i \in 1 .. (k + 1) - 1 : g[i] # CR
    <3> SUFFICES ASSUME NEW i \in 1 .. (k + 1) - 1 PROVE g[i] # CR
      OBVIOUS
    <3>1. i \in 1 .. k
      BY <1>1
    <3>2. d[i] \in Numerals
      BY <1>1, <3>1, ElementOfSeq
    <3> QED BY <2>1, <3>1, <3>2 DEF Numerals, CR
  <2>4. Before(g, CR) = SubSeq(g, 1, k)
    <3> DEFINE j == k + 1
    <3>1. j - 1 = k
      BY <1>1
    <3>2. g \in Seq(Bytes) /\ j \in 1 .. Len(g) /\ g[j] = CR /\ \A i \in 1 .. j - 1 : g[i] # CR
      BY <1>4, <2>2, <2>3
    <3> HIDE DEF j, k
    <3>3. Before(g, CR) = SubSeq(g, 1, j - 1)
      BY <3>2, FirstToken
    <3> QED BY <3>1, <3>3
  <2>5. SubSeq(g, 1, k) \in Seq(Bytes) /\ Len(SubSeq(g, 1, k)) = k /\ \A i \in 1 .. k : SubSeq(g, 1, k)[i] = g[i]
    <3>1. k \in 0 .. Len(g)
      BY <1>1, <2>2
    <3> HIDE DEF k
    <3> QED BY <1>4, <3>1, FirstOf
  <2> DEFINE b == SubSeq(g, 1, k)
  <2>6. d \in Seq(Bytes)
    BY <1>1, BytesAre, SeqMonotonic
  <2>7. b = d
    <3>1. b \in Seq(Bytes) /\ Len(b) = Len(d) /\ \A i \in 1 .. Len(b) : b[i] = d[i]
      BY <2>1, <2>5
    <3> HIDE DEF b
    <3> QED BY <2>6, <3>1, SeqEqual
  <2> QED BY <2>4, <2>7
<1> QED BY <1>2, <1>5, <1>6 DEF LengthTold, ContentLength

\* A slice that is the whole sequence.
LEMMA SliceWhole ==
    ASSUME NEW T, NEW s \in Seq(T)
    PROVE  SubSeq(s, 1, Len(s)) = s
<1> DEFINE y == SubSeq(s, 1, Len(s))
<1>1. Len(s) \in 0 .. Len(s)
  BY LenProperties
<1>2. y \in Seq(T) /\ Len(y) = Len(s) /\ \A i \in 1 .. Len(s) : y[i] = s[i]
  BY <1>1, FirstOf
<1> HIDE DEF y
<1>3. y = s
  BY <1>2, SeqEqual
<1> QED BY <1>3 DEF y

\* A text of lines, or none, that does not tell a length.
Quiet(u) == u \in Seq(Bytes) /\ (u = << >> \/ WholeLines(u)) /\ Free(u, ContentLength)

\* Such texts in a row are one.
LEMMA QuietJoin ==
    ASSUME NEW u, NEW v, Quiet(u), Quiet(v), NEW c, IsConcat(c, u, v)
    PROVE  Quiet(c)
<1>1. u \in Seq(Bytes) /\ v \in Seq(Bytes)
  BY DEF Quiet
<1>2. c \in Seq(Bytes)
  BY <1>1, IsConcatIs
<1>3. Free(c, ContentLength)
  <2>1. Free(u, ContentLength) /\ Free(v, ContentLength)
    BY DEF Quiet
  <2> QED BY <1>1, <2>1, FreeConcat DEF IsConcat
<1>4. c = << >> \/ WholeLines(c)
  <2>1. CASE u = << >>
    <3>1. c = v
      BY <1>1, <2>1, ConcatEmptySeq DEF IsConcat
    <3> QED BY <3>1 DEF Quiet
  <2>2. CASE v = << >>
    <3>1. c = u
      BY <1>1, <2>2, ConcatEmptySeq DEF IsConcat
    <3> QED BY <3>1 DEF Quiet
  <2>3. CASE u # << >> /\ v # << >>
    <3>1. WholeLines(u) /\ WholeLines(v)
      BY <2>3 DEF Quiet
    <3> QED BY <3>1, LinesJoin
  <2> QED BY <2>1, <2>2, <2>3
<1> QED BY <1>2, <1>3, <1>4 DEF Quiet

\* However many there are.
LEMMA QuietAll ==
    ASSUME NEW s \in Seq(Seq(Bytes)), \A i \in 1 .. Len(s) : Quiet(s[i])
    PROVE  Quiet(FlattenSeq(s))
<1> DEFINE Bad == {k \in 0 .. Len(s) : ~Quiet(UpTo(s, k))}
<1>0. Len(s) \in Nat
  BY LenProperties
<1>1. Bad = {}
  <2> SUFFICES ASSUME Bad # {} PROVE FALSE
    OBVIOUS
  <2>1. Bad \in SUBSET Nat
    BY <1>0
  <2>2. PICK k \in Bad : \A m \in Bad : k <= m
    BY <2>1, LeastExists
  <2>3. CASE k = 0
    <3>1. << >> \in Seq(Bytes)
      BY EmptySeq
    <3>2. Quiet(<< >>)
      BY <3>1, FreeEmpty DEF Quiet
    <3> QED BY <2>2, <2>3, <3>2, UpToNone
  <2>4. CASE k # 0
    <3>1. /\ k - 1 \in 0 .. Len(s) /\ k - 1 \in 0 .. Len(s) - 1 /\ k \in 1 .. Len(s)
          /\ ~(k <= k - 1) /\ (k - 1) + 1 = k
      BY <1>0, <2>2, <2>4
    <3>2. Quiet(UpTo(s, k - 1))
      BY <2>2, <3>1
    <3>3. UpTo(s, k) = UpTo(s, k - 1) \o s[k]
      BY <3>1, UpToNext
    <3>4. Quiet(s[k]) /\ IsConcat(UpTo(s, k), UpTo(s, k - 1), s[k])
      BY <3>1, <3>3 DEF IsConcat
    <3>5. Quiet(UpTo(s, k))
      BY <3>2, <3>4, QuietJoin
    <3>6. ~Quiet(UpTo(s, k))
      BY <2>2
    <3> QED BY <3>5, <3>6
  <2> QED BY <2>3, <2>4
<1>2. Quiet(UpTo(s, Len(s)))
  BY <1>0, <1>1
<1>3. SubSeq(s, 1, Len(s)) = s
  BY SliceWhole
<1> QED BY <1>2, <1>3 DEF UpTo

\* A finite set is put in some order.
LEMMA SomeOrder ==
    ASSUME NEW S, IsFiniteSet(S)
    PROVE  SetToSeq(S) \in Seq(S)
<1>1. Cardinality(S) \in Nat /\ ExistsBijection(1 .. Cardinality(S), S)
  BY FS_CardinalityType
<1> DEFINE n == Cardinality(S)
<1>2. \E f \in [1 .. n -> S] : IsInjective(f)
  BY <1>1 DEF ExistsBijection, Bijection, Injection
<1>3. SetToSeq(S) \in [1 .. n -> S]
  BY <1>2 DEF SetToSeq
<1> HIDE DEF n
<1>4. n \in Nat
  BY <1>1 DEF n
<1> QED BY <1>3, <1>4

\* In whatever order the lines of the set are written.
LEMMA QuietSet ==
    ASSUME NEW n \in Nat, NEW S, NEW g, DOMAIN g = 1 .. n, \A i \in 1 .. n : Quiet(g[i]),
           \A u : u \in S <=> \E i \in 1 .. n : u = g[i]
    PROVE  Quiet(FlattenSeq(SetToSeq(S)))
<1>1. IsFiniteSet(1 .. n)
  BY FS_Interval
<1> DEFINE f == [i \in 1 .. n |-> g[i]]
<1>2. f \in Surjection(1 .. n, S)
  <2>1. f \in [1 .. n -> S]
    OBVIOUS
  <2>2. \A u \in S : \E i \in 1 .. n : f[i] = u
    OBVIOUS
  <2> QED BY <2>1, <2>2 DEF Surjection
<1>3. IsFiniteSet(S)
  BY <1>1, <1>2, FS_Surjection
<1> DEFINE s == SetToSeq(S)
<1>4. s \in Seq(S)
  BY <1>3, SomeOrder
<1> HIDE DEF s
<1>5. S \subseteq Seq(Bytes) /\ \A u \in S : Quiet(u)
  BY DEF Quiet
<1>6. s \in Seq(Seq(Bytes))
  BY <1>4, <1>5, SeqMonotonic
<1>7. \A i \in 1 .. Len(s) : Quiet(s[i])
  BY <1>4, <1>5, ElementOfSeq
<1>8. Quiet(FlattenSeq(s))
  BY <1>6, <1>7, QuietAll
<1> QED BY <1>8 DEF s

\* Lines stay lines when such a text comes after them.
LEMMA WholeJoin ==
    ASSUME NEW u, WholeLines(u), NEW v, Quiet(v), NEW c, IsConcat(c, u, v)
    PROVE  WholeLines(c)
<1>1. CASE v = << >>
  <2>1. u \in Seq(Bytes)
    BY DEF WholeLines
  <2>2. c = u
    BY <1>1, <2>1, ConcatEmptySeq DEF IsConcat
  <2> QED BY <2>2
<1>2. CASE v # << >>
  <2>1. WholeLines(v)
    BY <1>2 DEF Quiet
  <2> QED BY <2>1, LinesJoin
<1> QED BY <1>1, <1>2

\* A set of indices has a greatest one.
LEMMA GreatestExists ==
    ASSUME NEW n \in Nat, NEW S \in SUBSET (1 .. n), S # {}
    PROVE  Max(S) \in S
<1> DEFINE B == {k \in Nat : \A i \in S : i <= k}
<1>1. n \in B
  OBVIOUS
<1>2. PICK m \in B : \A k \in B : m <= k
  BY <1>1, LeastExists
<1>3. m \in S
  <2> SUFFICES ASSUME m \notin S PROVE FALSE
    OBVIOUS
  <2>1. PICK i \in S : TRUE
    OBVIOUS
  <2>2. m \in Nat /\ (\A j \in S : j \in Nat /\ j >= 1 /\ j <= m /\ j # m)
    BY <1>2
  <2>3. m - 1 \in Nat
    BY <2>1, <2>2
  <2>4. \A j \in S : j <= m - 1
    BY <2>2
  <2>5. m - 1 \in B
    BY <2>3, <2>4
  <2>6. m <= m - 1
    BY <1>2, <2>5
  <2> QED BY <2>2, <2>6
<1>4. S \subseteq Nat /\ \A i \in S : i <= m
  BY <1>2
<1>5. Max(S) = m
  BY <1>3, <1>4, GreatestIs
<1> QED BY <1>3, <1>5

\* Words of a callback, put in a row.
LEMMA WordsAre ==
    ASSUME NEW v \in Seq(ReplyWords)
    PROVE  v \in Seq(Bytes) /\ Free(v, CR) /\ Free(v, ContentLength)
<1>1. \A i \in DOMAIN v : v[i] \in ReplyWords
  BY LenProperties, ElementOfSeq
<1>2. v \in Seq(Bytes)
  BY BytesAre, SeqMonotonic
<1> QED BY <1>1, <1>2, BytesAre DEF Free

\* What a callback leaves.
LEMMA ReplyIs ==
    ASSUME NEW reply \in Replies \cup {defaultHttpCallback}
    PROVE  /\ \A i \in 1 .. 2 : /\ reply.status[i] \in Bytes
                                /\ reply.status[i] # CR /\ reply.status[i] # ContentLength
           /\ reply.headers \in Seq([field : ReplyWords, value : Seq(ReplyWords)])
           /\ reply.body \in Seq(Bytes)
<1>1. CASE reply \in Replies
  <2>1. /\ reply.status \in ReplyWords \X ReplyWords /\ reply.body \in Seq(Tokens)
        /\ reply.headers \in Seq([field : ReplyWords, value : Seq(ReplyWords)])
    BY <1>1, RepliesAssumption DEF ReplyType
  <2>2. reply.status[1] \in ReplyWords /\ reply.status[2] \in ReplyWords
    BY <2>1
  <2>3. reply.body \in Seq(Bytes)
    BY <2>1, BytesAre, SeqMonotonic
  <2>4. \A i \in 1 .. 2 : i = 1 \/ i = 2
    OBVIOUS
  <2>5. \A i \in 1 .. 2 : reply.status[i] \in ReplyWords
    BY <2>2, <2>4
  <2> QED BY <2>1, <2>3, <2>5, BytesAre
<1>2. CASE reply = defaultHttpCallback
  <2>1. reply.status = <<"404", "Not Found">> /\ reply.headers = << >> /\ reply.body = << >>
    BY <1>2 DEF defaultHttpCallback
  <2>2. reply.status[1] = "404" /\ reply.status[2] = "Not Found"
    <3> DEFINE s == <<"404", "Not Found">>
    <3>1. s[1] = "404" /\ s[2] = "Not Found"
      OBVIOUS
    <3>2. reply.status = s
      BY <2>1
    <3> HIDE DEF s
    <3> QED BY <3>1, <3>2
  <2>3. \A i \in 1 .. 2 : i = 1 \/ i = 2
    OBVIOUS
  <2>4. \A i \in 1 .. 2 : reply.status[i] \in {"404", "Not Found"}
    BY <2>2, <2>3
  <2>5. /\ {"404", "Not Found"} \subseteq Bytes
        /\ \A w \in {"404", "Not Found"} : w # CR /\ w # ContentLength
    BY DEF Bytes, CR, ContentLength
  <2>6. /\ reply.headers \in Seq([field : ReplyWords, value : Seq(ReplyWords)])
        /\ reply.body \in Seq(Bytes)
    BY <2>1, EmptySeq
  <2> QED BY <2>4, <2>5, <2>6
<1> QED BY <1>1, <1>2

\* The headers that a callback adds are lines that do not tell a length.
LEMMA FieldsAre ==
    ASSUME NEW reply \in Replies \cup {defaultHttpCallback}, NEW close
    PROVE  Quiet(Fields(Response(close, reply)))
<1> DEFINE hs == reply.headers
           n == Len(hs)
           D == {hs[i].field : i \in DOMAIN hs}
           h == [field \in D |-> LastOf(hs, field)]
           r == Response(close, reply)
           S == {Field(f, h[f]) : f \in D}
           g == [i \in 1 .. n |-> Field(hs[i].field, h[hs[i].field])]
<1>1. /\ n \in Nat /\ DOMAIN hs = 1 .. n
      /\ \A i \in 1 .. n : hs[i].field \in ReplyWords /\ hs[i].value \in Seq(ReplyWords)
  <2>1. hs \in Seq([field : ReplyWords, value : Seq(ReplyWords)])
    BY ReplyIs
  <2> HIDE DEF hs
  <2>2. n \in Nat /\ DOMAIN hs = 1 .. n /\ \A i \in 1 .. n : hs[i] \in [field : ReplyWords, value : Seq(ReplyWords)]
    BY <2>1, LenProperties
  <2> QED BY <2>2
<1>2. r.headers = h /\ DOMAIN r.headers = D
  BY DEF Response
<1>3. Fields(r) = FlattenSeq(SetToSeq(S))
  <2>1. {Field(f, r.headers[f]) : f \in DOMAIN r.headers} = S
    <3> HIDE DEF r, h, D
    <3> QED BY <1>2
  <2> QED BY <2>1 DEF Fields
<1> HIDE DEF hs
<1>4. ASSUME NEW f \in D PROVE Quiet(Field(f, h[f]))
  <2> DEFINE I == {i \in DOMAIN hs : hs[i].field = f}
  <2>1. I \in SUBSET (1 .. n) /\ I # {}
    BY <1>1, <1>4
  <2>2. Max(I) \in I
    <3> HIDE DEF I
    <3> QED BY <1>1, <2>1, GreatestExists
  <2>3. h[f] = hs[Max(I)].value
    BY <1>4 DEF LastOf
  <2>4. Max(I) \in 1 .. n
    BY <2>1, <2>2
  <2> HIDE DEF I
  <2>5. f \in ReplyWords /\ h[f] \in Seq(ReplyWords)
    <3>1. f \in ReplyWords
      BY <1>1, <1>4
    <3> HIDE DEF h
    <3> QED BY <1>1, <2>3, <2>4, <3>1
  <2> DEFINE v == h[f]
             u == Field(f, v)
  <2>6. v \in Seq(Bytes) /\ Free(v, CR) /\ Free(v, ContentLength)
    BY <2>5, WordsAre
  <2>7. f \in Bytes /\ f # CR /\ f # ContentLength
    BY <2>5, BytesAre
  <2> HIDE DEF v, h
  <2>8. WholeLines(u) /\ Free(u, ContentLength)
    BY <2>6, <2>7, FieldIs
  <2> QED BY <2>8 DEF Quiet, WholeLines, v
<1>5. DOMAIN g = 1 .. n /\ \A i \in 1 .. n : g[i] = Field(hs[i].field, h[hs[i].field])
  OBVIOUS
<1>6. \A i \in 1 .. n : hs[i].field \in D
  BY <1>1
<1> HIDE DEF h, g
<1>7. \A i \in 1 .. n : Quiet(g[i])
  BY <1>4, <1>5, <1>6
<1>8. \A u : u \in S <=> \E i \in 1 .. n : u = g[i]
  <2>1. ASSUME NEW u \in S PROVE \E i \in 1 .. n : u = g[i]
    <3>1. PICK f \in D : u = Field(f, h[f])
      OBVIOUS
    <3>2. PICK i \in 1 .. n : f = hs[i].field
      BY <1>1
    <3> QED BY <1>5, <3>1, <3>2
  <2>2. ASSUME NEW i \in 1 .. n PROVE g[i] \in S
    BY <1>5, <1>6
  <2> HIDE DEF S
  <2> QED BY <2>1, <2>2
<1> HIDE DEF S, r
<1>9. Quiet(FlattenSeq(SetToSeq(S)))
  BY <1>1, <1>5, <1>7, <1>8, QuietSet
<1> QED BY <1>3, <1>9 DEF r

\* A text of five tokens.
LEMMA FiveTokens ==
    ASSUME NEW T, NEW v \in T, NEW x \in T, NEW a \in T, NEW b \in T
    PROVE  /\ <<v, x, a, x, b>> \in Seq(T) /\ Len(<<v, x, a, x, b>>) = 5
           /\ \A token : Free(<<v, x, a, x, b>>, token) <=> v # token /\ x # token /\ a # token /\ b # token
<1> DEFINE s == <<v, x, a, x, b>>
<1>1. s \in Seq(T) /\ Len(s) = 5 /\ s[1] = v /\ s[2] = x /\ s[3] = a /\ s[4] = x /\ s[5] = b
  OBVIOUS
<1> HIDE DEF s
<1>2. DOMAIN s = 1 .. 5
  BY <1>1, LenProperties
<1>3. ASSUME NEW token PROVE Free(s, token) <=> v # token /\ x # token /\ a # token /\ b # token
  <2>1. \A i \in 1 .. 5 : i = 1 \/ i = 2 \/ i = 3 \/ i = 4 \/ i = 5
    OBVIOUS
  <2>2. 1 \in 1 .. 5 /\ 2 \in 1 .. 5 /\ 3 \in 1 .. 5 /\ 5 \in 1 .. 5
    OBVIOUS
  <2> QED BY <1>1, <1>2, <2>1, <2>2 DEF Free
<1> QED BY <1>1, <1>3 DEF s

\* The status line is a line that does not tell a length.
LEMMA StatusIs ==
    ASSUME NEW r, \A i \in 1 .. 2 : r.status[i] \in Bytes /\ r.status[i] # CR /\ r.status[i] # ContentLength
    PROVE  WholeLines(StatusLine(r)) /\ Quiet(StatusLine(r))
<1> DEFINE a == r.status[1]
           b == r.status[2]
           v == "HTTP/1.1"
           x == " "
           l == <<v, x, a, x, b>>
           d == <<CR, LF>>
           u == StatusLine(r)
<1>1. /\ a \in Bytes /\ a # CR /\ a # ContentLength /\ b \in Bytes /\ b # CR /\ b # ContentLength
  <2>1. 1 \in 1 .. 2 /\ 2 \in 1 .. 2
    OBVIOUS
  <2> QED BY <2>1
<1>2. u = l \o d
  BY DEF StatusLine
<1> HIDE DEF a, b, u
<1>3. /\ v \in Bytes /\ v # CR /\ v # ContentLength
      /\ x \in Bytes /\ x # CR /\ x # ContentLength
  BY BytesAre DEF Bytes, CR, ContentLength
<1> HIDE DEF v, x
<1>4. l \in Seq(Bytes) /\ Len(l) = 5
  BY <1>1, <1>3, FiveTokens
<1>5. Free(l, CR) /\ Free(l, ContentLength)
  <2>1. \A token : Free(l, token) <=> v # token /\ x # token /\ a # token /\ b # token
    BY <1>1, <1>3, FiveTokens
  <2> HIDE DEF l
  <2> QED BY <1>1, <1>3, <2>1
<1>6. d \in Seq(Bytes) /\ Free(d, ContentLength)
  BY BytesAre, TwoTokens
<1> HIDE DEF l
<1>7. WholeLines(u)
  <2>1. Len(l) > 0 /\ IsConcat(u, l, <<CR, LF>>)
    BY <1>2, <1>4 DEF IsConcat
  <2> QED BY <1>4, <1>5, <2>1, LineWhole
<1> HIDE DEF d
<1>8. Free(u, ContentLength)
  BY <1>2, <1>4, <1>5, <1>6, FreeConcat
<1> QED BY <1>7, <1>8 DEF Quiet, WholeLines, u

-----------------------------------------------------------------------------
(* What onMessage and appendToBuffer write.                                *)

\* t is an answer with that body: lines, an empty line and the body.  The lines tell its length,
\* unless the connection is closed after it.
Readable(t, body, closes) ==
    \E u, h : /\ WholeLines(u) /\ IsConcat(h, u, <<CR, LF>>)
              /\ body \in Seq(Bytes) /\ IsConcat(t, h, body)
              /\ closes => Free(u, ContentLength)
              /\ ~closes => \E a : Tells(u, a, Decimal[Len(body)])

\* Such an answer is a text.
LEMMA ReadableText ==
    ASSUME NEW t, NEW body, NEW closes, Readable(t, body, closes)
    PROVE  t \in Seq(Bytes)
<1>1. PICK u, h : WholeLines(u) /\ IsConcat(h, u, <<CR, LF>>) /\ body \in Seq(Bytes) /\ IsConcat(t, h, body)
  BY DEF Readable
<1>2. h \in Seq(Bytes)
  <2>1. u \in Seq(Bytes) /\ CR \in Bytes /\ LF \in Bytes /\ h = u \o <<CR, LF>>
    BY <1>1, BytesAre DEF WholeLines, IsConcat
  <2> QED BY <2>1, PieceIs
<1>3. body \in Seq(Bytes) /\ IsConcat(t, h, body)
  BY <1>1
<1> QED BY <1>2, <1>3, IsConcatIs

\* What onMessage writes to a request line that it refuses is such an answer.
LEMMA RefusalReads ==
    Readable(StatusLine(BadRequest) \o <<CR, LF>>, BadRequest.body, BadRequest.closeConnection)
<1> DEFINE u == StatusLine(BadRequest)
           h == u \o <<CR, LF>>
<1>1. /\ BadRequest.status = <<"400", "Bad Request">> /\ BadRequest.body = << >>
      /\ BadRequest.closeConnection = TRUE
  BY DEF BadRequest
<1>2. \A i \in 1 .. 2 : /\ BadRequest.status[i] \in Bytes
                        /\ BadRequest.status[i] # CR /\ BadRequest.status[i] # ContentLength
  <2> DEFINE s == <<"400", "Bad Request">>
  <2>1. s[1] = "400" /\ s[2] = "Bad Request"
    OBVIOUS
  <2>2. BadRequest.status = s
    BY <1>1
  <2> HIDE DEF s
  <2>3. \A i \in 1 .. 2 : i = 1 \/ i = 2
    OBVIOUS
  <2>4. \A i \in 1 .. 2 : BadRequest.status[i] \in {"400", "Bad Request"}
    BY <2>1, <2>2, <2>3
  <2>5. /\ {"400", "Bad Request"} \subseteq Bytes
        /\ \A w \in {"400", "Bad Request"} : w # CR /\ w # ContentLength
    BY DEF Bytes, CR, ContentLength
  <2> QED BY <2>4, <2>5
<1>3. WholeLines(u) /\ Quiet(u)
  BY <1>2, StatusIs
<1>4. h \in Seq(Bytes)
  <2>1. u \in Seq(Bytes) /\ CR \in Bytes /\ LF \in Bytes
    BY <1>3, BytesAre DEF Quiet
  <2> HIDE DEF u
  <2> QED BY <2>1, PieceIs
<1>5. << >> \in Seq(Bytes) /\ h = h \o << >>
  <2> HIDE DEF h
  <2> QED BY <1>4, ConcatEmptySeq, EmptySeq
<1>6. IsConcat(h, u, <<CR, LF>>) /\ IsConcat(h, h, << >>)
  BY <1>5 DEF IsConcat
<1>7. Free(u, ContentLength)
  BY <1>3 DEF Quiet
<1> HIDE DEF u, h
<1>8. Readable(h, << >>, TRUE)
  BY <1>3, <1>5, <1>6, <1>7 DEF Readable
<1> QED BY <1>1, <1>8 DEF h, u

\* What tells the client when the answer ends: the close, or the length.
EndTold(r) ==
    IF r.closeConnection THEN Field("Connection", <<"close">>)
    ELSE Field(ContentLength, Decimal[Len(r.body)]) \o Field("Connection", <<"Keep-Alive">>)

\* A line of the connection header does not tell a length.
LEMMA ConnectionLine ==
    ASSUME NEW w \in {"close", "Keep-Alive"}
    PROVE  WholeLines(Field("Connection", <<w>>)) /\ Quiet(Field("Connection", <<w>>))
<1> DEFINE f == "Connection"
           v == <<w>>
           u == Field(f, v)
<1>1. f \in Bytes /\ f # CR /\ f # ContentLength /\ w \in Bytes /\ w # CR /\ w # ContentLength
  BY DEF Bytes, CR, ContentLength
<1>2. v \in Seq(Bytes) /\ Free(v, CR) /\ Free(v, ContentLength)
  BY <1>1, OneToken
<1> HIDE DEF f, v
<1>3. WholeLines(u) /\ Free(u, ContentLength)
  BY <1>1, <1>2, FieldIs
<1>4. Quiet(u)
  BY <1>3 DEF Quiet, WholeLines
<1> QED BY <1>3, <1>4 DEF u, f, v

\* The lines that tell when the answer ends.
LEMMA EndToldIs ==
    ASSUME NEW r, Len(r.body) \in Nat
    PROVE  /\ WholeLines(EndTold(r))
           /\ r.closeConnection => Quiet(EndTold(r))
           /\ ~r.closeConnection => Tells(EndTold(r), 0, Decimal[Len(r.body)])
<1>1. CASE r.closeConnection
  <2>1. EndTold(r) = Field("Connection", <<"close">>)
    BY <1>1 DEF EndTold
  <2> QED BY <1>1, <2>1, ConnectionLine
<1>2. CASE ~r.closeConnection
  <2> DEFINE d == Decimal[Len(r.body)]
             a == Field(ContentLength, d)
             b == Field("Connection", <<"Keep-Alive">>)
             c == EndTold(r)
  <2>1. IsConcat(c, a, b)
    BY <1>2 DEF EndTold, IsConcat
  <2>2. d \in Seq(Numerals)
    BY DecimalText
  <2>3. WholeLines(b) /\ Quiet(b)
    BY ConnectionLine
  <2> HIDE DEF d, b, c
  <2>4. WholeLines(a) /\ Tells(a, 0, d)
    BY <2>2, LengthLine
  <2> HIDE DEF a
  <2>5. WholeLines(c)
    BY <2>1, <2>3, <2>4, WholeJoin
  <2>6. Tells(c, 0, d)
    <3>1. b \in Seq(Bytes)
      BY <2>3 DEF Quiet
    <3> QED BY <2>1, <2>4, <3>1, TellsBefore
  <2> QED BY <1>2, <2>5, <2>6 DEF c, d
<1> QED BY <1>1, <1>2

\* What appendToBuffer writes is such an answer, whatever the callback decides.
LEMMA ResponseReads ==
    ASSUME NEW reply \in Replies \cup {defaultHttpCallback}, NEW close, NEW x, x = Response(close, reply)
    PROVE  Readable(AppendToBuffer(x), x.body, x.closeConnection)
<1> DEFINE s == StatusLine(x)
           c == EndTold(x)
           f == Fields(x)
           v == s \o c
           u == v \o f
           h == u \o <<CR, LF>>
           b == x.body
           t == AppendToBuffer(x)
           d == Decimal[Len(b)]
           closes == x.closeConnection
<1>1. x.status = reply.status /\ b = reply.body
  BY DEF Response
<1>2. /\ b \in Seq(Bytes) /\ Len(b) \in Nat
      /\ WholeLines(s) /\ Quiet(s)
  <2>1. \A i \in 1 .. 2 : x.status[i] \in Bytes /\ x.status[i] # CR /\ x.status[i] # ContentLength
    BY <1>1, ReplyIs
  <2>2. reply.body \in Seq(Bytes)
    BY ReplyIs
  <2> QED BY <1>1, <2>1, <2>2, StatusIs, LenProperties
<1>3. Quiet(f)
  BY FieldsAre
<1>4. WholeLines(c) /\ (closes => Quiet(c)) /\ (~closes => Tells(c, 0, d))
  BY <1>2, EndToldIs
<1>5. t = h \o b
  BY DEF AppendToBuffer, EndTold, ContentLength
<1>6. /\ IsConcat(v, s, c) /\ IsConcat(u, v, f) /\ IsConcat(h, u, <<CR, LF>>) /\ IsConcat(t, h, b)
  BY <1>5 DEF IsConcat
<1> HIDE DEF s, c, f, v, u, h, b, t, d, closes
<1>7. WholeLines(v)
  BY <1>2, <1>4, <1>6, LinesJoin
<1>8. WholeLines(u)
  BY <1>3, <1>6, <1>7, WholeJoin
<1>9. ASSUME closes PROVE Free(u, ContentLength)
  <2>1. Quiet(v)
    BY <1>2, <1>4, <1>6, <1>9, QuietJoin
  <2>2. Quiet(u)
    BY <1>3, <1>6, <2>1, QuietJoin
  <2> QED BY <2>2 DEF Quiet
<1>10. ASSUME ~closes PROVE \E a : Tells(u, a, d)
  <2>1. s \in Seq(Bytes) /\ Free(s, ContentLength) /\ f \in Seq(Bytes)
    BY <1>2, <1>3 DEF Quiet
  <2>2. Tells(v, Len(s), d)
    BY <1>4, <1>6, <1>10, <2>1, TellsAfter
  <2>3. Tells(u, Len(s), d)
    BY <1>6, <2>1, <2>2, TellsBefore
  <2> QED BY <2>3
<1>11. Readable(t, b, closes)
  BY <1>2, <1>6, <1>8, <1>9, <1>10 DEF Readable, d
<1> QED BY <1>11 DEF t, b, closes

\* A client finds the body of the answer that begins a text, and no other.
LEMMA BodyIsRead ==
    ASSUME NEW t, NEW body, NEW closes, Readable(t, body, closes),
           NEW rest \in Seq(Bytes), closes => rest = << >>, NEW text, IsConcat(text, t, rest),
           NEW m, m = "HEAD" => body = << >>
    PROVE  BodyRead(text, m) = body
<1>1. PICK u, h : /\ WholeLines(u) /\ IsConcat(h, u, <<CR, LF>>)
                  /\ body \in Seq(Bytes) /\ IsConcat(t, h, body)
                  /\ closes => Free(u, ContentLength)
                  /\ ~closes => \E a : Tells(u, a, Decimal[Len(body)])
  BY DEF Readable
<1> DEFINE v == body \o rest
           e == <<CR, LF>>
<1>0. e \in Seq(Bytes) /\ Free(e, ContentLength)
  BY BytesAre, TwoTokens
<1>2. u \in Seq(Bytes) /\ h \in Seq(Bytes)
  <2>1. u \in Seq(Bytes)
    BY <1>1 DEF WholeLines
  <2>2. IsConcat(h, u, e)
    BY <1>1
  <2> HIDE DEF e
  <2> QED BY <1>0, <2>1, <2>2, IsConcatIs
<1>3. v \in Seq(Bytes) /\ IsConcat(text, h, v) /\ IsConcat(v, body, rest)
  <2>1. v \in Seq(Bytes)
    BY <1>1, ConcatProperties
  <2>2. (h \o body) \o rest = h \o (body \o rest)
    <3>1. body \in Seq(Bytes)
      BY <1>1
    <3> QED BY <1>2, <3>1, ConcatAssociative
  <2>3. t = h \o body /\ text = t \o rest
    BY <1>1 DEF IsConcat
  <2> QED BY <2>1, <2>2, <2>3 DEF IsConcat
<1> HIDE DEF v
<1>4. HeadEnd(text) = Len(h) /\ SubSeq(text, 1, Len(h)) = h /\ SubSeq(text, Len(h) + 1, Len(text)) = v
  <2>1. WholeLines(u) /\ IsConcat(h, u, <<CR, LF>>)
    BY <1>1
  <2> QED BY <1>3, <2>1, HeadEndIs
<1>5. BodyRead(text, m) =
          IF m = "HEAD" THEN << >>
          ELSE IF ~Has(h, ContentLength) THEN v
          ELSE SubSeq(v, 1, CHOOSE n \in 0 .. Len(v) : Decimal[n] = LengthTold(h))
  <2> DEFINE head == SubSeq(text, 1, HeadEnd(text))
             after == SubSeq(text, HeadEnd(text) + 1, Len(text))
  <2>1. head = h /\ after = v
    BY <1>4
  <2>2. BodyRead(text, m) =
            IF m = "HEAD" THEN << >>
            ELSE IF ~Has(head, ContentLength) THEN after
            ELSE SubSeq(after, 1, CHOOSE n \in 0 .. Len(after) : Decimal[n] = LengthTold(head))
    BY DEF BodyRead, ContentLength
  <2> HIDE DEF head, after
  <2> QED BY <2>1, <2>2, Zenon
<1>6. CASE m = "HEAD"
  BY <1>5, <1>6
<1>7. CASE m # "HEAD" /\ closes
  <2>1. Free(u, ContentLength)
    BY <1>1, <1>7
  <2>2. h = u \o e
    BY <1>1 DEF IsConcat
  <2> HIDE DEF e
  <2>3. Free(h, ContentLength)
    BY <1>0, <1>2, <2>1, <2>2, FreeConcat
  <2>4. ~Has(h, ContentLength)
    BY <2>3, HasNot
  <2>5. v = body
    <3>1. rest = << >>
      BY <1>7
    <3> QED BY <1>1, <1>3, <3>1, ConcatEmptySeq DEF IsConcat
  <2> QED BY <1>5, <1>7, <2>4, <2>5
<1>8. CASE m # "HEAD" /\ ~closes
  <2> DEFINE k == Len(body)
             d == Decimal[k]
  <2>0. k \in Nat
    BY <1>1, LenProperties
  <2>1. PICK a : Tells(u, a, d)
    BY <1>1, <1>8
  <2>2. Tells(h, a, d)
    <3>1. IsConcat(h, u, e)
      BY <1>1
    <3> HIDE DEF e, d
    <3> QED BY <1>0, <2>1, <3>1, TellsBefore
  <2> HIDE DEF d
  <2>3. Has(h, ContentLength) /\ LengthTold(h) = d
    BY <2>2, LengthFound
  <2>4. Len(v) \in Nat /\ k \in 0 .. Len(v) /\ SubSeq(v, 1, k) = body
    <3>1. Len(v) = Len(body) + Len(rest) /\ Len(rest) \in Nat
      BY <1>1, <1>3, IsConcatIs
    <3>2. SubSeq(v, 1, Len(body)) = body
      BY <1>1, <1>3, TakeApart
    <3> QED BY <2>0, <3>1, <3>2
  <2> HIDE DEF k
  <2>5. (CHOOSE n \in 0 .. Len(v) : Decimal[n] = d) = k
    <3>1. Decimal[k] = d
      BY DEF d
    <3>2. ASSUME NEW n \in 0 .. Len(v), Decimal[n] = d PROVE n = k
      <4>1. n \in Nat /\ Decimal[n] = Decimal[k]
        BY <2>4, <3>1, <3>2
      <4> QED BY <2>0, <4>1, DecimalTells
    <3> QED BY <2>4, <3>1, <3>2
  <2> QED BY <1>5, <1>8, <2>3, <2>4, <2>5
<1> QED BY <1>6, <1>7, <1>8

-----------------------------------------------------------------------------
(* What is written on the connection.                                      *)

\* What is written is the answers, one after the other, and a client can read each.
Texts == [i \in DOMAIN answers |-> TextSent(answers[i])]
AnswersWritten ==
    /\ \A i \in DOMAIN answers :
          Readable(TextSent(answers[i]), answers[i].response.body, answers[i].response.closeConnection)
    /\ written = FlattenSeq(Texts)

\* The texts of the answers are a sequence of texts.
LEMMA TextsAre ==
    ASSUME Types, AnswersWritten
    PROVE  /\ Len(answers) \in Nat /\ DOMAIN answers = 1 .. Len(answers)
           /\ Texts \in Seq(Seq(Bytes)) /\ Len(Texts) = Len(answers)
           /\ \A i \in 1 .. Len(answers) : Texts[i] = TextSent(answers[i])
           /\ written = UpTo(Texts, Len(answers))
<1> DEFINE n == Len(answers)
<1>1. n \in Nat /\ DOMAIN answers = 1 .. n
  BY CountIs
<1>2. \A i \in 1 .. n : Texts[i] = TextSent(answers[i])
  BY <1>1 DEF Texts
<1>3. ASSUME NEW i \in 1 .. n PROVE TextSent(answers[i]) \in Seq(Bytes)
  <2>1. Readable(TextSent(answers[i]), answers[i].response.body, answers[i].response.closeConnection)
    BY <1>1 DEF AnswersWritten
  <2> QED BY <2>1, ReadableText
<1>4. Texts = [i \in 1 .. n |-> Texts[i]]
  BY <1>1 DEF Texts
<1> HIDE DEF n
<1>5. \A i \in 1 .. n : Texts[i] \in Seq(Bytes)
  BY <1>2, <1>3
<1>6. Texts \in Seq(Seq(Bytes)) /\ Len(Texts) = n
  BY <1>1, <1>4, <1>5, MapIs
<1>7. UpTo(Texts, n) = FlattenSeq(Texts)
  <2>1. SubSeq(Texts, 1, n) = Texts
    BY <1>6, SliceWhole
  <2> QED BY <2>1 DEF UpTo
<1> QED BY <1>1, <1>2, <1>6, <1>7 DEF n, AnswersWritten

\* One more answer, or none when the connection is shutting down.
LEMMA AnswerWritten ==
    ASSUME Types, AnswersWritten, NEW r, NEW response, NEW text, Sent(r, response, text),
           TextSent([request |-> r, response |-> response]) = text,
           Readable(text, response.body, response.closeConnection)
    PROVE  AnswersWritten'
<1> DEFINE n == Len(answers)
           a == [request |-> r, response |-> response]
<1>1. CASE conn = "kConnected"
  <2>1. written' = written \o text /\ IsAppend(answers', answers, a)
    BY <1>1 DEF Sent, IsAppend
  <2>2. a.response.body = response.body /\ a.response.closeConnection = response.closeConnection
    OBVIOUS
  <2>3. TextSent(a) = text
    OBVIOUS
  <2> HIDE DEF a
  <2>4. /\ n \in Nat /\ DOMAIN answers = 1 .. n /\ DOMAIN answers' = 1 .. n + 1
        /\ \A i \in 1 .. n : answers'[i] = answers[i]
        /\ answers'[n + 1] = a
        /\ answers' \in Seq(Range(answers')) /\ Len(answers') = n + 1
    <3>1. answers \in Seq(Range(answers))
      BY DEF Types
    <3> QED BY <2>1, <3>1, AppendSelf
  <2> HIDE DEF n
  <2>5. ASSUME NEW i \in 1 .. n + 1
        PROVE  Readable(TextSent(answers'[i]), answers'[i].response.body, answers'[i].response.closeConnection)
    <3>1. CASE i = n + 1
      BY <2>2, <2>3, <2>4, <3>1
    <3>2. CASE i # n + 1
      <4>1. i \in 1 .. n
        BY <2>4, <3>2
      <4>2. Readable(TextSent(answers[i]), answers[i].response.body, answers[i].response.closeConnection)
        BY <2>4, <4>1 DEF AnswersWritten
      <4>3. answers'[i] = answers[i]
        BY <2>4, <4>1
      <4> QED BY <4>2, <4>3
    <3> QED BY <3>1, <3>2
  <2> DEFINE s == Texts
             z == Texts'
             T == Seq(Bytes)
  <2>6. s \in Seq(T) /\ Len(s) = n /\ (\A i \in 1 .. n : s[i] = TextSent(answers[i])) /\ written = UpTo(s, n)
    BY TextsAre DEF n
  <2>7. z = [i \in 1 .. n + 1 |-> z[i]] /\ \A i \in 1 .. n + 1 : z[i] = TextSent(answers'[i])
    BY <2>4 DEF Texts
  <2>8. text \in T
    BY ReadableText
  <2> HIDE DEF s, z, T
  <2>9. (\A i \in 1 .. n : z[i] = s[i]) /\ z[n + 1] = text
    <3>1. \A i \in 1 .. n : i \in 1 .. n + 1
      BY <2>4
    <3>2. n + 1 \in 1 .. n + 1
      BY <2>4
    <3> QED BY <2>3, <2>4, <2>6, <2>7, <3>1, <3>2
  <2>10. z \in Seq(T) /\ Len(z) = n + 1
    <3>1. \A i \in 1 .. n : s[i] \in T
      BY <2>6, ElementOfSeq
    <3>2. ASSUME NEW i \in 1 .. n + 1 PROVE z[i] \in T
      <4>1. i \in 1 .. n \/ i = n + 1
        BY <2>4
      <4> QED BY <2>8, <2>9, <3>1, <4>1
    <3>3. n + 1 \in Nat
      BY <2>4
    <3> QED BY <2>7, <3>2, <3>3, MapIs
  <2>11. SubSeq(z, 1, n) = s
    <3>1. n \in 0 .. Len(z)
      BY <2>4, <2>10
    <3>2. /\ SubSeq(z, 1, n) \in Seq(T) /\ Len(SubSeq(z, 1, n)) = n
          /\ \A i \in 1 .. n : SubSeq(z, 1, n)[i] = z[i]
      BY <2>10, <3>1, FirstOf
    <3> QED BY <2>6, <2>9, <3>2, SeqEqual
  <2>12. SubSeq(s, 1, n) = s
    BY <2>6, SliceWhole
  <2>13. UpTo(z, n) = UpTo(s, n)
    BY <2>11, <2>12 DEF UpTo
  <2>14. UpTo(z, n + 1) = UpTo(z, n) \o z[n + 1]
    <3>1. n \in 0 .. Len(z) - 1
      BY <2>4, <2>10
    <3> QED BY <2>10, <3>1, UpToNext DEF T
  <2>15. FlattenSeq(z) = UpTo(z, n + 1)
    <3>1. SubSeq(z, 1, n + 1) = z
      BY <2>10, SliceWhole
    <3> QED BY <3>1 DEF UpTo
  <2>16. written' = FlattenSeq(z)
    BY <2>1, <2>6, <2>9, <2>13, <2>14, <2>15
  <2> QED BY <2>4, <2>5, <2>16 DEF AnswersWritten, z
<1>2. CASE conn # "kConnected"
  <2>1. written' = written /\ answers' = answers
    BY <1>2 DEF Sent
  <2>2. Texts' = Texts
    BY <2>1 DEF Texts
  <2> QED BY <2>1, <2>2 DEF AnswersWritten
<1> QED BY <1>1, <1>2

\* Nothing is written.
LEMMA NothingWritten ==
    ASSUME AnswersWritten, written' = written, answers' = answers
    PROVE  AnswersWritten'
<1>1. Texts' = Texts
  BY DEF Texts
<1> QED BY <1>1 DEF AnswersWritten

\* Every step keeps what is written readable.
LEMMA NextWritten == IInv /\ AnswersWritten /\ [Next]_vars => AnswersWritten'
<1> SUFFICES ASSUME IInv, AnswersWritten, [Next]_vars PROVE AnswersWritten'
  OBVIOUS
<1>0. Types
  BY DEF IInv
<1>1. ASSUME NEW upTo, OnMessage(upTo) PROVE AnswersWritten'
  BY <1>1, NothingWritten DEF OnMessage, output
<1>2. CASE LineIncomplete
  BY <1>2, NothingWritten DEF LineIncomplete, output
<1>3. ASSUME NEW n, ProcessRequestLine(n) PROVE AnswersWritten'
  BY <1>3, NothingWritten DEF ProcessRequestLine, output
<1>4. ASSUME NEW n, RefuseRequestLine(n) PROVE AnswersWritten'
  <2> DEFINE r == NewRequest
             x == BadRequest
             t == StatusLine(BadRequest) \o <<CR, LF>>
  <2>1. IF aborted' THEN UNCHANGED <<conn, written, answers>> ELSE Sent(r, x, t) /\ Shutdown(TRUE)
    BY <1>4 DEF RefuseRequestLine
  <2>2. CASE aborted'
    BY <2>1, <2>2, NothingWritten
  <2>3. CASE ~aborted'
    <3>1. Sent(r, x, t)
      BY <2>1, <2>3
    <3>2. Readable(t, x.body, x.closeConnection)
      BY RefusalReads
    <3>3. TextSent([request |-> r, response |-> x]) = t
      BY DEF TextSent, Refused
    <3> HIDE DEF r, x, t
    <3> QED BY <1>0, <3>1, <3>2, <3>3, AnswerWritten
  <2> QED BY <2>2, <2>3
<1>5. ASSUME NEW n, AddHeader(n) PROVE AnswersWritten'
  BY <1>5, NothingWritten DEF AddHeader, output
<1>6. ASSUME NEW n, EndHeaders(n) PROVE AnswersWritten'
  BY <1>6, NothingWritten DEF EndHeaders, output
<1>7. ASSUME NEW reply \in Replies \cup {defaultHttpCallback}, OnRequest(reply) PROVE AnswersWritten'
  <2> DEFINE r == request
             x == Response(WantsClose(request), reply)
             t == AppendToBuffer(x)
  <2>1. Sent(r, x, t) /\ pc = "request"
    BY <1>7 DEF OnRequest
  <2>2. Readable(t, x.body, x.closeConnection)
    <3> HIDE DEF t
    <3> QED BY ResponseReads DEF t
  <2>3. r # NewRequest
    <3>1. AtEnd
      BY <2>1 DEF IInv, Types, Parsing, AtRequestLine, AtHeaders
    <3>2. request = Expected(Now) /\ IsGood(Now)
      BY <3>1 DEF AtEnd
    <3>3. request.method = Now.method /\ Now.method \in Methods
      BY <3>2, ExpectedIs DEF IsGood
    <3>4. NewRequest.method = "kInvalid" /\ "kInvalid" \notin Methods
      BY DEF NewRequest, Methods
    <3> QED BY <3>3, <3>4
  <2>4. TextSent([request |-> r, response |-> x]) = t
    <3> HIDE DEF r, x
    <3> QED BY <2>3 DEF TextSent, Refused
  <2> HIDE DEF r, x, t
  <2> QED BY <1>0, <2>1, <2>2, <2>4, AnswerWritten
<1>8. CASE UNCHANGED vars
  BY <1>8, NothingWritten DEF vars, output
<1> QED BY <1>1, <1>2, <1>3, <1>4, <1>5, <1>6, <1>7, <1>8 DEF Next, Parse, Serve

\* What the client has not read of what is written begins with the answer.
LEMMA WrittenFromIs ==
    ASSUME Types, AnswersWritten, NEW i \in DOMAIN answers
    PROVE  \E rest \in Seq(Bytes) : /\ IsConcat(WrittenFrom(i), TextSent(answers[i]), rest)
                                    /\ i = Len(answers) => rest = << >>
<1> DEFINE n == Len(answers)
           s == Texts
           T == Seq(Bytes)
           f == [j \in 1 .. i - 1 |-> TextSent(answers[j])]
           a == UpTo(s, i - 1)
           t == TextSent(answers[i])
<1>1. /\ n \in Nat /\ DOMAIN answers = 1 .. n /\ s \in Seq(T) /\ Len(s) = n
      /\ (\A j \in 1 .. n : s[j] = TextSent(answers[j])) /\ written = UpTo(s, n)
  BY TextsAre
<1> HIDE DEF n, s, T
<1>2. i \in 1 .. n /\ i - 1 \in 0 .. n /\ i - 1 \in 0 .. n - 1 /\ (i - 1) + 1 = i /\ i \in 0 .. n /\ n \in i .. n
  BY <1>1
<1>3. SubSeq(s, 1, i - 1) = f
  <2> DEFINE y == SubSeq(s, 1, i - 1)
  <2>1. y \in Seq(T) /\ Len(y) = i - 1 /\ \A j \in 1 .. i - 1 : y[j] = s[j]
    BY <1>1, <1>2, FirstOf
  <2>2. \A j \in 1 .. i - 1 : j \in 1 .. n
    BY <1>1, <1>2
  <2> HIDE DEF y
  <2>3. y = [j \in 1 .. i - 1 |-> y[j]]
    BY <2>1, LenProperties
  <2>4. \A j \in 1 .. i - 1 : y[j] = TextSent(answers[j])
    BY <1>1, <2>1, <2>2
  <2>5. y = f
    BY <2>3, <2>4
  <2> QED BY <2>5 DEF y
<1>4. FlattenSeq(f) = a
  BY <1>3 DEF UpTo
<1>5. WrittenFrom(i) = SubSeq(written, Len(a) + 1, Len(written))
  <2> HIDE DEF a
  <2> QED BY <1>4 DEF WrittenFrom
<1>6. a \in Seq(Bytes) /\ s[i] = t /\ t \in Seq(Bytes)
  <2>1. a \in Seq(Bytes)
    BY <1>1, <1>2, UpToTyped DEF T
  <2>2. s[i] \in T
    BY <1>1, <1>2, ElementOfSeq
  <2> QED BY <1>1, <1>2, <2>1, <2>2 DEF T
<1>7. UpTo(s, i) = a \o t
  <2>1. UpTo(s, (i - 1) + 1) = UpTo(s, i - 1) \o s[(i - 1) + 1]
    BY <1>1, <1>2, UpToNext DEF T
  <2> QED BY <1>2, <1>6, <2>1
<1> HIDE DEF a, t
<1>8. \E rest \in Seq(Bytes) : written = UpTo(s, i) \o rest /\ (i = n => rest = << >>)
  <2>1. CASE i = n
    <3>1. UpTo(s, i) \in Seq(Bytes)
      BY <1>1, <1>2, UpToTyped DEF T
    <3>2. UpTo(s, i) = UpTo(s, i) \o << >> /\ << >> \in Seq(Bytes)
      BY <3>1, ConcatEmptySeq, EmptySeq
    <3> QED BY <1>1, <2>1, <3>2
  <2>2. CASE i # n
    <3>1. \E rest \in Seq(Bytes) : UpTo(s, n) = UpTo(s, i) \o rest
      <4>1. s \in Seq(Seq(Bytes)) /\ i \in 0 .. Len(s) /\ n \in i .. Len(s)
        BY <1>1, <1>2 DEF T
      <4> QED BY <4>1, UpToBegins
    <3> QED BY <1>1, <2>2, <3>1
  <2> QED BY <2>1, <2>2
<1>9. PICK rest \in Seq(Bytes) : written = UpTo(s, i) \o rest /\ (i = n => rest = << >>)
  BY <1>8
<1> DEFINE v == t \o rest
<1>10. v \in Seq(Bytes) /\ IsConcat(written, a, v)
  <2>1. v \in Seq(Bytes)
    BY <1>6, ConcatProperties
  <2>2. (a \o t) \o rest = a \o (t \o rest)
    BY <1>6, ConcatAssociative
  <2> QED BY <1>7, <1>9, <2>1, <2>2 DEF IsConcat
<1> HIDE DEF v
<1>11. SubSeq(written, Len(a) + 1, Len(written)) = v
  BY <1>6, <1>10, TakeApart
<1>12. IsConcat(WrittenFrom(i), t, rest)
  BY <1>5, <1>11 DEF IsConcat, v
<1> QED BY <1>9, <1>12 DEF n, t

\* A client that reads what is written finds each answer in it, with its body and no other, whatever
\* the callbacks decide; but an answer to HEAD may have a body, and puts it out of step.
THEOREM AnswersAreRead == Spec => []AnswersRead
<1>1. Init => AnswersWritten
  <2> SUFFICES ASSUME Init PROVE AnswersWritten
    OBVIOUS
  <2>1. answers = << >> /\ written = << >>
    BY DEF Init
  <2>2. DOMAIN answers = {} /\ Texts = << >>
    BY <2>1 DEF Texts
  <2>3. FlattenSeq(<< >>) = << >>
    <3>1. UpTo(<< >>, 0) = << >> /\ SubSeq(<< >>, 1, 0) = << >>
      BY UpToNone, SubSeqEmpty
    <3> QED BY <3>1 DEF UpTo
  <2> QED BY <2>1, <2>2, <2>3 DEF AnswersWritten
<1>2. IInv /\ AnswersWritten /\ [Next]_vars => AnswersWritten'
  BY NextWritten
<1>3. IInv /\ AnswersWritten => AnswersRead
  <2> SUFFICES ASSUME IInv, AnswersWritten, NEW i \in DOMAIN answers,
                      \A j \in 1 .. i : answers[j].request.method = "HEAD" => answers[j].response.body = << >>
               PROVE  BodyRead(WrittenFrom(i), answers[i].request.method) = answers[i].response.body
    BY DEF AnswersRead
  <2> DEFINE t == TextSent(answers[i])
             b == answers[i].response.body
             c == answers[i].response.closeConnection
             m == answers[i].request.method
             w == WrittenFrom(i)
  <2>1. Types /\ AnswersInOrder
    BY DEF IInv, AnswersKept
  <2>2. i \in 1 .. i
    BY <2>1, CountIs
  <2>3. m = "HEAD" => b = << >>
    BY <2>2
  <2>4. Readable(t, b, c)
    BY DEF AnswersWritten
  <2>5. c => i = Len(answers)
    BY <2>1 DEF AnswersInOrder
  <2>6. PICK rest \in Seq(Bytes) : IsConcat(w, t, rest) /\ (i = Len(answers) => rest = << >>)
    BY <2>1, WrittenFromIs
  <2> HIDE DEF t, b, c, m, w
  <2>7. c => rest = << >>
    BY <2>5, <2>6
  <2>8. BodyRead(w, m) = b
    BY <2>3, <2>4, <2>6, <2>7, BodyIsRead
  <2> QED BY <2>8 DEF w, m, b
<1> QED BY <1>1, <1>2, <1>3, ParsingInvariant, PTL DEF Spec
=============================================================================
