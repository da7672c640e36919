---------------------------- MODULE BufferProofs ----------------------------
(***************************************************************************)
(* For arrays, strings and integers of any size: the indices of a buffer   *)
(* stay as the class comment draws them, no assertion of makeSpace fails,  *)
(* and every call acts on the readable bytes as on a queue.                *)
(*                                                                         *)
(* The lemmas say, operation by operation, what becomes of the indices and *)
(* of the readable bytes; the theorems put them together.                  *)
(***************************************************************************)
EXTENDS Buffer, SequenceTheorems, TLAPS

LEMMA Sizes == kCheapPrepend \in Nat /\ kInitialSize \in Nat /\ 0 \in Byte
BY BufferAssumption DEF Byte

\* Slices and concatenations, index by index.
LEMMA SliceIs ==
  ASSUME NEW S, NEW s \in Seq(S), NEW r \in Nat, NEW w \in Nat, r <= w, w <= Len(s)
  PROVE  /\ SubSeq(s, r + 1, w) \in Seq(S)
         /\ Len(SubSeq(s, r + 1, w)) = w - r
         /\ \A i \in 1 .. w - r : SubSeq(s, r + 1, w)[i] = s[r + i]
OBVIOUS

LEMMA ConcatIs ==
  ASSUME NEW S, NEW s \in Seq(S), NEW t \in Seq(S)
  PROVE  /\ s \o t \in Seq(S)
         /\ Len(s \o t) = Len(s) + Len(t)
         /\ \A i \in 1 .. Len(s) : (s \o t)[i] = s[i]
         /\ \A i \in 1 .. Len(t) : (s \o t)[Len(s) + i] = t[i]
OBVIOUS

\* Readable bytes, index by index.
LEMMA ReadableIs ==
  ASSUME NEW b, IsBuffer(b)
  PROVE  /\ Readable(b) \in Seq(Byte)
         /\ Len(Readable(b)) = b.writer - b.reader
         /\ \A i \in 1 .. b.writer - b.reader : Readable(b)[i] = b.bytes[b.reader + i]
<1>0. /\ b.reader \in Nat /\ b.writer \in Nat /\ b.bytes \in Seq(Byte)
      /\ b.reader <= b.writer /\ b.writer <= Len(b.bytes)
  BY DEF IsBuffer
<1> QED  BY <1>0, SliceIs, SMTT(30) DEF Readable

\* Two buffers have the same readable bytes if they agree index by index.
LEMMA SameReadable ==
  ASSUME NEW b, NEW c, IsBuffer(b), IsBuffer(c),
         c.writer - c.reader = b.writer - b.reader,
         \A i \in 1 .. b.writer - b.reader : c.bytes[c.reader + i] = b.bytes[b.reader + i]
  PROVE  Readable(c) = Readable(b)
<1>1. /\ Readable(b) \in Seq(Byte) /\ Len(Readable(b)) = b.writer - b.reader
      /\ \A i \in 1 .. b.writer - b.reader : Readable(b)[i] = b.bytes[b.reader + i]
  BY ReadableIs
<1>2. /\ Readable(c) \in Seq(Byte) /\ Len(Readable(c)) = c.writer - c.reader
      /\ \A i \in 1 .. c.writer - c.reader : Readable(c)[i] = c.bytes[c.reader + i]
  BY ReadableIs
<1>3. /\ Len(Readable(c)) = Len(Readable(b))
      /\ \A i \in 1 .. Len(Readable(c)) : Readable(c)[i] = Readable(b)[i]
  BY <1>1, <1>2
<1> QED  BY <1>1, <1>2, <1>3, SeqEqual

\* Copying keeps the size and changes what it covers.
LEMMA CopyToIs ==
  ASSUME NEW bytes \in Seq(Byte), NEW at \in Nat, NEW data \in Seq(Byte)
  PROVE  /\ CopyTo(bytes, at, data) \in Seq(Byte)
         /\ Len(CopyTo(bytes, at, data)) = Len(bytes)
         /\ \A i \in 1 .. Len(bytes) : CopyTo(bytes, at, data)[i] =
              IF i - at \in 1 .. Len(data) THEN data[i - at] ELSE bytes[i]
<1>1. DOMAIN bytes = 1 .. Len(bytes) /\ Len(bytes) \in Nat
  BY LenProperties
<1>2. \A i \in 1 .. Len(bytes) :
        (IF i - at \in 1 .. Len(data) THEN data[i - at] ELSE bytes[i]) \in Byte
  BY ElementOfSeq
<1>3. CopyTo(bytes, at, data) = [i \in 1 .. Len(bytes) |->
         IF i - at \in 1 .. Len(data) THEN data[i - at] ELSE bytes[i]]
  BY <1>1 DEF CopyTo
<1> QED  BY <1>1, <1>2, <1>3

\* Growing the array.
LEMMA ResizeIs ==
  ASSUME NEW b, IsBuffer(b), NEW len \in Nat, WritableBytes(b) < len
  PROVE  /\ IsBuffer(Resize(b, len))
         /\ Readable(Resize(b, len)) = Readable(b)
         /\ WritableBytes(Resize(b, len)) = len
         /\ Resize(b, len).reader = b.reader
<1> DEFINE n == b.writer + len - Len(b.bytes)
           c == Resize(b, len)
<1>1. /\ b \in [bytes : Seq(Byte), reader : Nat, writer : Nat]
      /\ b.reader <= b.writer /\ b.writer <= Len(b.bytes) /\ kCheapPrepend <= Len(b.bytes)
  BY DEF IsBuffer
<1>2. n \in Nat
  BY <1>1 DEF WritableBytes
<1>3. Zeros(n) \in Seq(Byte) /\ Len(Zeros(n)) = n
  BY <1>2, Sizes DEF Zeros
<1>4. /\ b.bytes \o Zeros(n) \in Seq(Byte)
      /\ Len(b.bytes \o Zeros(n)) = Len(b.bytes) + n
      /\ \A i \in 1 .. Len(b.bytes) : (b.bytes \o Zeros(n))[i] = b.bytes[i]
  <2>1. b.bytes \in Seq(Byte)
    BY <1>1
  <2> DEFINE zeros == Zeros(n)
  <2>2. zeros \in Seq(Byte) /\ Len(zeros) = n
    BY <1>3
  <2> HIDE DEF zeros, n
  <2>3. /\ b.bytes \o zeros \in Seq(Byte)
        /\ Len(b.bytes \o zeros) = Len(b.bytes) + n
        /\ \A i \in 1 .. Len(b.bytes) : (b.bytes \o zeros)[i] = b.bytes[i]
    BY <2>1, <2>2, ConcatIs, ZenonT(60)
  <2> QED  BY <2>3 DEF zeros
<1>5. c = [b EXCEPT !.bytes = b.bytes \o Zeros(n)]
  BY DEF Resize
<1>6. c.bytes = b.bytes \o Zeros(n) /\ c.reader = b.reader /\ c.writer = b.writer
      /\ c \in [bytes : Seq(Byte), reader : Nat, writer : Nat]
  BY <1>1, <1>4, <1>5
<1>7. IsBuffer(c)
  <2>1. b.writer <= Len(b.bytes) + n
    BY <1>1, <1>2
  <2> QED  BY <1>1, <1>2, <1>4, <1>6, <2>1, Sizes DEF IsBuffer
<1>8. Readable(c) = Readable(b)
  <2>1. \A i \in 1 .. b.writer - b.reader : c.bytes[c.reader + i] = b.bytes[b.reader + i]
    BY <1>1, <1>4, <1>6
  <2> QED  BY <1>6, <1>7, <2>1, SameReadable
<1> QED  BY <1>1, <1>2, <1>4, <1>6, <1>7, <1>8 DEF WritableBytes

\* Moving the data towards the front, which the code does only if there is room in front.
LEMMA MoveToFrontIs ==
  ASSUME NEW b, IsBuffer(b), kCheapPrepend < b.reader
  PROVE  /\ IsBuffer(MoveToFront(b))
         /\ Readable(MoveToFront(b)) = Readable(b)
         /\ WritableBytes(MoveToFront(b)) = WritableBytes(b) + b.reader - kCheapPrepend
         /\ MoveToFront(b).reader = kCheapPrepend
<1> DEFINE c == MoveToFront(b)
           data == Readable(b)
           k == kCheapPrepend
<1>1. /\ b.reader \in Nat /\ b.writer \in Nat /\ b.bytes \in Seq(Byte) /\ k \in Nat
      /\ b.reader <= b.writer /\ b.writer <= Len(b.bytes) /\ k < b.reader
  BY Sizes DEF IsBuffer
<1>2. /\ data \in Seq(Byte) /\ Len(data) = b.writer - b.reader
      /\ \A i \in 1 .. b.writer - b.reader : data[i] = b.bytes[b.reader + i]
  BY ReadableIs
<1>3. c = [bytes |-> CopyTo(b.bytes, k, data), reader |-> k,
           writer |-> k + (b.writer - b.reader)]
  BY DEF MoveToFront, ReadableBytes
<1> HIDE DEF c, data, k
<1>4. /\ c.bytes = CopyTo(b.bytes, k, data) /\ c.reader = k
      /\ c.writer = k + (b.writer - b.reader)
  BY <1>3
<1>5. /\ c.bytes \in Seq(Byte) /\ Len(c.bytes) = Len(b.bytes)
      /\ \A i \in 1 .. Len(b.bytes) : c.bytes[i] =
           IF i - k \in 1 .. Len(data) THEN data[i - k] ELSE b.bytes[i]
  BY <1>1, <1>2, <1>4, CopyToIs
<1>6. c.writer \in Nat /\ c.reader <= c.writer /\ c.writer <= Len(c.bytes) /\ k <= Len(c.bytes)
  BY <1>1, <1>4, <1>5
<1>7. IsBuffer(c)
  BY <1>1, <1>3, <1>4, <1>5, <1>6 DEF IsBuffer, k
<1>8. ASSUME NEW i \in 1 .. b.writer - b.reader
      PROVE  c.bytes[c.reader + i] = b.bytes[b.reader + i]
  <2> DEFINE j == k + i
  <2>1. j \in 1 .. Len(b.bytes) /\ j - k = i /\ i \in 1 .. Len(data)
    BY <1>1, <1>2
  <2>2. j = c.reader + i
    BY <1>4
  <2> HIDE DEF j
  <2>3. c.bytes[j] = data[i]
    BY <1>5, <2>1
  <2> QED  BY <1>2, <2>2, <2>3
<1>9. Readable(c) = Readable(b)
  <2>1. c.writer - c.reader = b.writer - b.reader
    BY <1>1, <1>4
  <2> QED  BY <1>7, <1>8, <2>1, SameReadable
<1>10. WritableBytes(c) = WritableBytes(b) + b.reader - k
  <2>1. WritableBytes(c) = Len(b.bytes) - (k + (b.writer - b.reader))
    BY <1>4, <1>5 DEF WritableBytes
  <2>2. WritableBytes(b) = Len(b.bytes) - b.writer
    BY DEF WritableBytes
  <2>3. Len(b.bytes) \in Nat
    BY <1>1
  <2> QED  BY <1>1, <2>1, <2>2, <2>3
<1> QED  BY <1>4, <1>7, <1>9, <1>10, Zenon DEF c, k

\* ensureWritableBytes(): its assertions and those of makeSpace() hold, and only room is made.
LEMMA EnsureWritableIs ==
  ASSUME NEW b, IsBuffer(b), NEW len \in Nat
  PROVE  /\ IsBuffer(EnsureWritable(b, len))
         /\ Readable(EnsureWritable(b, len)) = Readable(b)
         /\ len <= WritableBytes(EnsureWritable(b, len))
         /\ RoomAsserted(b, len)
         /\ EnsureWritable(b, len).reader \in {b.reader, kCheapPrepend}
<1>1. /\ b.reader \in Nat /\ b.writer \in Nat /\ b.bytes \in Seq(Byte)
      /\ b.reader <= b.writer /\ b.writer <= Len(b.bytes)
  BY DEF IsBuffer
<1>2. WritableBytes(b) \in Nat
  BY <1>1 DEF WritableBytes
<1>3. CASE ~(WritableBytes(b) < len)
  BY <1>1, <1>2, <1>3 DEF EnsureWritable, RoomAsserted
<1>4. CASE WritableBytes(b) < len /\ NeedsResize(b, len)
  BY <1>1, <1>2, <1>4, ResizeIs DEF EnsureWritable, MakeSpace, RoomAsserted
<1>5. CASE WritableBytes(b) < len /\ ~NeedsResize(b, len)
  <2>1. kCheapPrepend < b.reader /\ len <= WritableBytes(b) + b.reader - kCheapPrepend
    BY <1>1, <1>2, <1>5, Sizes DEF NeedsResize, PrependableBytes
  <2>2. EnsureWritable(b, len) = MoveToFront(b)
    BY <1>5 DEF EnsureWritable, MakeSpace
  <2> QED  BY <1>5, <2>1, <2>2, MoveToFrontIs DEF RoomAsserted
<1> QED  BY <1>3, <1>4, <1>5

\* Copying data to beginWrite() and hasWritten().
LEMMA WriteIs ==
  ASSUME NEW b, IsBuffer(b), NEW data \in Seq(Byte), Len(data) <= WritableBytes(b)
  PROVE  /\ IsBuffer(Write(b, data))
         /\ Readable(Write(b, data)) = Readable(b) \o data
         /\ Write(b, data).reader = b.reader
<1> DEFINE c == Write(b, data)
           d == Readable(b) \o data
           n == b.writer - b.reader
<1>1. /\ b \in [bytes : Seq(Byte), reader : Nat, writer : Nat]
      /\ b.reader <= b.writer /\ b.writer <= Len(b.bytes) /\ kCheapPrepend <= Len(b.bytes)
  BY DEF IsBuffer
<1>2. /\ b.reader \in Nat /\ b.writer \in Nat /\ b.bytes \in Seq(Byte)
      /\ Len(data) \in Nat /\ b.writer + Len(data) <= Len(b.bytes) /\ n \in Nat
  BY <1>1 DEF WritableBytes
<1>3. c = [b EXCEPT !.bytes = CopyTo(b.bytes, b.writer, data), !.writer = b.writer + Len(data)]
  BY DEF Write
<1> HIDE DEF c
<1>4. /\ CopyTo(b.bytes, b.writer, data) \in Seq(Byte)
      /\ Len(CopyTo(b.bytes, b.writer, data)) = Len(b.bytes)
      /\ \A i \in 1 .. Len(b.bytes) : CopyTo(b.bytes, b.writer, data)[i] =
           IF i - b.writer \in 1 .. Len(data) THEN data[i - b.writer] ELSE b.bytes[i]
  BY <1>2, CopyToIs
<1>5. /\ c \in [bytes : Seq(Byte), reader : Nat, writer : Nat]
      /\ c.bytes = CopyTo(b.bytes, b.writer, data) /\ c.reader = b.reader
      /\ c.writer = b.writer + Len(data)
  <2> DEFINE copied == CopyTo(b.bytes, b.writer, data)
             end == b.writer + Len(data)
  <2>1. copied \in Seq(Byte) /\ end \in Nat
    BY <1>2, <1>4
  <2>2. c = [b EXCEPT !.bytes = copied, !.writer = end]
    BY <1>3
  <2> HIDE DEF copied, end
  <2>3. /\ c \in [bytes : Seq(Byte), reader : Nat, writer : Nat]
        /\ c.bytes = copied /\ c.reader = b.reader /\ c.writer = end
    BY <1>1, <2>1, <2>2
  <2> QED  BY <2>3 DEF copied, end
<1>6. IsBuffer(c)
  <2>1. c.reader <= c.writer /\ c.writer <= Len(c.bytes) /\ kCheapPrepend <= Len(c.bytes)
    BY <1>1, <1>2, <1>4, <1>5
  <2> QED  BY <1>5, <2>1 DEF IsBuffer
<1>7. /\ Readable(b) \in Seq(Byte) /\ Len(Readable(b)) = n
      /\ \A i \in 1 .. n : Readable(b)[i] = b.bytes[b.reader + i]
  BY ReadableIs
<1>8. /\ Readable(c) \in Seq(Byte) /\ Len(Readable(c)) = n + Len(data)
      /\ \A i \in 1 .. n + Len(data) : Readable(c)[i] = c.bytes[b.reader + i]
  <2>1. /\ Readable(c) \in Seq(Byte) /\ Len(Readable(c)) = c.writer - c.reader
        /\ \A i \in 1 .. c.writer - c.reader : Readable(c)[i] = c.bytes[c.reader + i]
    BY <1>6, ReadableIs
  <2>2. c.writer - c.reader = n + Len(data)
    BY <1>2, <1>5
  <2> HIDE DEF n
  <2> QED  BY <1>5, <2>1, <2>2
<1>9. /\ d \in Seq(Byte) /\ Len(d) = n + Len(data)
      /\ \A i \in 1 .. n : d[i] = Readable(b)[i]
      /\ \A i \in 1 .. Len(data) : d[n + i] = data[i]
  <2> DEFINE q == Readable(b)
  <2>0. Len(q) = n
    BY <1>7
  <2>1. q \in Seq(Byte) /\ data \in Seq(Byte)
    BY <1>7
  <2> HIDE DEF q, n, d
  <2>2. /\ q \o data \in Seq(Byte) /\ Len(q \o data) = Len(q) + Len(data)
        /\ \A i \in 1 .. Len(q) : (q \o data)[i] = q[i]
        /\ \A i \in 1 .. Len(data) : (q \o data)[Len(q) + i] = data[i]
    BY <2>1, ConcatIs
  <2>3. /\ q \o data \in Seq(Byte) /\ Len(q \o data) = n + Len(data)
        /\ \A i \in 1 .. n : (q \o data)[i] = q[i]
        /\ \A i \in 1 .. Len(data) : (q \o data)[n + i] = data[i]
    BY <2>0, <2>1, <2>2, Zenon
  <2> QED  BY <2>3 DEF q, d
<1>10. ASSUME NEW i \in 1 .. n + Len(data)
       PROVE  Readable(c)[i] = d[i]
  <2> DEFINE j == b.reader + i
             m == i - n
  <2>1. j \in 1 .. Len(b.bytes)
    BY <1>2
  <2>2. Readable(c)[i] = IF j - b.writer \in 1 .. Len(data) THEN data[j - b.writer] ELSE b.bytes[j]
    <3> HIDE DEF n
    <3>1. Readable(c)[i] = c.bytes[j]
      BY <1>8
    <3> HIDE DEF j
    <3> QED  BY <1>4, <1>5, <2>1, <3>1
  <2>3. j - b.writer = m
    BY <1>2
  <2>4. CASE i \in 1 .. n
    <3>1. m \notin 1 .. Len(data)
      BY <1>2, <2>4
    <3>2. Readable(c)[i] = b.bytes[j]
      <4> HIDE DEF j, m
      <4> QED  BY <2>2, <2>3, <3>1
    <3> HIDE DEF n
    <3> QED  BY <1>7, <1>9, <2>4, <3>2
  <2>5. CASE i \notin 1 .. n
    <3>1. m \in 1 .. Len(data) /\ n + m = i
      <4> HIDE DEF n
      <4> QED  BY <1>2, <2>5
    <3>2. Readable(c)[i] = data[m]
      <4> HIDE DEF j, m, n
      <4> QED  BY <2>2, <2>3, <3>1
    <3> HIDE DEF m, n, d
    <3> QED  BY <1>9, <3>1, <3>2
  <2> QED  BY <2>4, <2>5
<1>11. Readable(c) = d
  <2> HIDE DEF n, d
  <2> QED  BY <1>8, <1>9, <1>10, SeqEqual
<1> QED  BY <1>5, <1>6, <1>11 DEF c

\* append() adds at the end, whatever room had to be made.
LEMMA AppendedIs ==
  ASSUME NEW b, IsBuffer(b), NEW data \in Seq(Byte)
  PROVE  /\ IsBuffer(Appended(b, data))
         /\ Readable(Appended(b, data)) = Readable(b) \o data
         /\ RoomAsserted(b, Len(data))
         /\ Appended(b, data).reader \in {b.reader, kCheapPrepend}
<1> DEFINE c == EnsureWritable(b, Len(data))
<1>1. Len(data) \in Nat
  OBVIOUS
<1>2. /\ IsBuffer(c) /\ Readable(c) = Readable(b) /\ Len(data) <= WritableBytes(c)
      /\ RoomAsserted(b, Len(data)) /\ c.reader \in {b.reader, kCheapPrepend}
  BY <1>1, EnsureWritableIs
<1>3. Appended(b, data) = Write(c, data)
  BY DEF Appended
<1> HIDE DEF c
<1>4. /\ IsBuffer(Write(c, data)) /\ Readable(Write(c, data)) = Readable(c) \o data
      /\ Write(c, data).reader = c.reader
  BY <1>2, WriteIs
<1> QED  BY <1>2, <1>3, <1>4

\* retrieve() drops the first bytes; what is left is the same whether or not it is nothing.
LEMMA RetrievedIs ==
  ASSUME NEW b, IsBuffer(b), NEW len \in Nat, len <= ReadableBytes(b)
  PROVE  /\ IsBuffer(Retrieved(b, len))
         /\ Readable(Retrieved(b, len)) = SubSeq(Readable(b), len + 1, Len(Readable(b)))
         /\ SubSeq(b.bytes, b.reader + 1, b.reader + len) = SubSeq(Readable(b), 1, len)
         /\ Retrieved(b, len).reader >= b.reader \/ Retrieved(b, len).reader = kCheapPrepend
<1> DEFINE c == Retrieved(b, len)
           n == b.writer - b.reader
           q == Readable(b)
<1>1. /\ b \in [bytes : Seq(Byte), reader : Nat, writer : Nat] /\ n \in Nat /\ len <= n
      /\ b.reader <= b.writer /\ b.writer <= Len(b.bytes) /\ kCheapPrepend <= Len(b.bytes)
  BY DEF IsBuffer, ReadableBytes
<1>2. /\ q \in Seq(Byte) /\ Len(q) = n
      /\ \A i \in 1 .. n : q[i] = b.bytes[b.reader + i]
  BY ReadableIs
<1>3. SubSeq(b.bytes, b.reader + 1, b.reader + len) = SubSeq(q, 1, len)
  <2> DEFINE m == b.reader + len
             s == SubSeq(b.bytes, b.reader + 1, m)
             t == SubSeq(q, 0 + 1, len)
  <2>1. m \in Nat /\ m - b.reader = len /\ b.reader <= m /\ m <= Len(b.bytes)
        /\ b.reader \in Nat /\ b.bytes \in Seq(Byte)
    BY <1>1
  <2> HIDE DEF m
  <2>2. s \in Seq(Byte) /\ Len(s) = m - b.reader
        /\ \A i \in 1 .. m - b.reader : s[i] = b.bytes[b.reader + i]
    BY <2>1, SliceIs, SMTT(30)
  <2>3. t \in Seq(Byte) /\ Len(t) = len - 0 /\ \A i \in 1 .. len - 0 : t[i] = q[0 + i]
    <3> HIDE DEF q, n
    <3> QED  BY <1>1, <1>2, SliceIs
  <2>4. Len(t) = len /\ \A i \in 1 .. len : t[i] = q[i]
    BY <2>3
  <2>5. \A i \in 1 .. len : s[i] = t[i]
    <3> SUFFICES ASSUME NEW i \in 1 .. len
                 PROVE  s[i] = t[i]
      OBVIOUS
    <3>1. i \in 1 .. n /\ i \in 1 .. m - b.reader
      BY <1>1, <2>1
    <3> HIDE DEF q, n, s, t
    <3>2. s[i] = b.bytes[b.reader + i] /\ q[i] = b.bytes[b.reader + i] /\ t[i] = q[i]
      BY <1>2, <2>2, <2>4, <3>1
    <3> QED  BY <3>2
  <2>6. s = t
    <3> HIDE DEF s, t
    <3> QED  BY <2>1, <2>2, <2>3, <2>4, <2>5, SeqEqual
  <2>7. t = SubSeq(q, 1, len)
    <3> HIDE DEF q
    <3> QED  OBVIOUS
  <2> QED  BY <2>6, <2>7 DEF m
<1>4. CASE len < n
  <2>1. c = [b EXCEPT !.reader = b.reader + len]
    BY <1>4 DEF Retrieved, ReadableBytes
  <2>2. c.bytes = b.bytes /\ c.reader = b.reader + len /\ c.writer = b.writer
        /\ c \in [bytes : Seq(Byte), reader : Nat, writer : Nat]
    BY <1>1, <2>1
  <2> HIDE DEF c
  <2>3. IsBuffer(c)
    BY <1>1, <1>4, <2>2 DEF IsBuffer
  <2> DEFINE s == Readable(c)
             t == SubSeq(q, len + 1, n)
  <2>4. s \in Seq(Byte) /\ Len(s) = n - len
        /\ \A i \in 1 .. n - len : s[i] = b.bytes[b.reader + len + i]
    <3>1. c.writer - c.reader = n - len
      BY <1>1, <2>2
    <3> QED  BY <2>2, <2>3, <3>1, ReadableIs
  <2>5. t \in Seq(Byte) /\ Len(t) = n - len /\ \A i \in 1 .. n - len : t[i] = q[len + i]
    <3> HIDE DEF q, n
    <3> QED  BY <1>1, <1>2, SliceIs
  <2>6. ASSUME NEW i \in 1 .. n - len
        PROVE  s[i] = t[i]
    <3> DEFINE j == len + i
    <3>1. j \in 1 .. n /\ b.reader + j = b.reader + len + i
      BY <1>1
    <3>2. t[i] = q[j]
      BY <2>5
    <3> HIDE DEF j, n
    <3>3. q[j] = b.bytes[b.reader + j]
      BY <1>2, <3>1
    <3> QED  BY <2>4, <3>1, <3>2, <3>3
  <2>7. s = t
    <3> HIDE DEF s, t, n
    <3> QED  BY <2>4, <2>5, <2>6, SeqEqual
  <2>8. c.reader >= b.reader
    BY <1>1, <2>2
  <2> QED  BY <1>2, <1>3, <2>3, <2>7, <2>8 DEF c
<1>5. CASE len = n
  <2>1. c = [b EXCEPT !.reader = kCheapPrepend, !.writer = kCheapPrepend]
    BY <1>1, <1>5 DEF Retrieved, ReadableBytes, AllRetrieved
  <2>2. c.bytes = b.bytes /\ c.reader = kCheapPrepend /\ c.writer = kCheapPrepend
        /\ c \in [bytes : Seq(Byte), reader : Nat, writer : Nat]
    BY <1>1, <2>1, Sizes
  <2> HIDE DEF c
  <2>3. IsBuffer(c)
    BY <1>1, <2>2, Sizes DEF IsBuffer
  <2>4. Readable(c) \in Seq(Byte) /\ Len(Readable(c)) = 0
    BY <2>2, <2>3, ReadableIs, Sizes
  <2>5. Readable(c) = << >>
    BY <2>4
  <2>6. SubSeq(q, len + 1, Len(q)) = << >>
    <3> HIDE DEF q, n
    <3>1. len + 1 \in Int /\ Len(q) \in Int /\ Len(q) < len + 1
      BY <1>1, <1>2, <1>5
    <3> QED  BY <3>1, SubSeqEmpty
  <2> QED  BY <1>3, <2>2, <2>3, <2>5, <2>6 DEF c
<1> QED  BY <1>1, <1>4, <1>5

\* unwrite() drops the last bytes.
LEMMA UnwrittenIs ==
  ASSUME NEW b, IsBuffer(b), NEW len \in Nat, len <= ReadableBytes(b)
  PROVE  /\ IsBuffer(Unwritten(b, len))
         /\ Readable(Unwritten(b, len)) = SubSeq(Readable(b), 1, Len(Readable(b)) - len)
         /\ Unwritten(b, len).reader = b.reader
<1> DEFINE c == Unwritten(b, len)
           n == b.writer - b.reader
           m == b.writer - len
           q == Readable(b)
           t == SubSeq(q, 0 + 1, n - len)
<1>1. /\ b \in [bytes : Seq(Byte), reader : Nat, writer : Nat] /\ n \in Nat
      /\ n - len \in Nat /\ n - len <= n /\ m \in Nat /\ b.reader <= m /\ m <= b.writer
      /\ b.reader <= b.writer /\ b.writer <= Len(b.bytes) /\ kCheapPrepend <= Len(b.bytes)
  BY DEF IsBuffer, ReadableBytes
<1>2. c = [b EXCEPT !.writer = m]
  BY DEF Unwritten
<1>3. /\ c \in [bytes : Seq(Byte), reader : Nat, writer : Nat]
      /\ c.bytes = b.bytes /\ c.reader = b.reader /\ c.writer = m
  <2> HIDE DEF c, m
  <2> QED  BY <1>1, <1>2
<1>4. IsBuffer(c)
  <2>1. c.reader <= c.writer /\ c.writer <= Len(c.bytes) /\ kCheapPrepend <= Len(c.bytes)
    <3> HIDE DEF c
    <3> QED  BY <1>1, <1>3
  <2> QED  BY <1>3, <2>1 DEF IsBuffer
<1>5. /\ q \in Seq(Byte) /\ Len(q) = n
      /\ \A i \in 1 .. n : q[i] = b.bytes[b.reader + i]
  BY ReadableIs
<1>6. /\ Readable(c) \in Seq(Byte) /\ Len(Readable(c)) = n - len
      /\ \A i \in 1 .. n - len : Readable(c)[i] = b.bytes[b.reader + i]
  <2>1. c.writer - c.reader = n - len
    <3> HIDE DEF c
    <3> QED  BY <1>1, <1>3
  <2> HIDE DEF c
  <2> QED  BY <1>3, <1>4, <2>1, ReadableIs
<1>7. t \in Seq(Byte) /\ Len(t) = n - len - 0 /\ \A i \in 1 .. n - len - 0 : t[i] = q[0 + i]
  <2> HIDE DEF q, n
  <2> QED  BY <1>1, <1>5, SliceIs
<1>8. Len(t) = n - len /\ \A i \in 1 .. n - len : t[i] = q[i]
  <2> HIDE DEF q, n
  <2> QED  BY <1>1, <1>7
<1>9. Readable(c) = t
  <2> HIDE DEF c, n, q, t
  <2>1. \A i \in 1 .. n - len : i \in 1 .. n
    BY <1>1
  <2>2. \A i \in 1 .. n - len : Readable(c)[i] = t[i]
    BY <1>5, <1>6, <1>8, <2>1
  <2> QED  BY <1>6, <1>7, <1>8, <2>2, SeqEqual
<1>10. t = SubSeq(q, 1, n - len)
  <2> HIDE DEF q, n
  <2> QED  OBVIOUS
<1> QED  BY <1>3, <1>4, <1>5, <1>9, <1>10

\* prepend() adds in front, into the room before the reader.
LEMMA PrependedIs ==
  ASSUME NEW b, IsBuffer(b), NEW data \in Seq(Byte), Len(data) <= PrependableBytes(b)
  PROVE  /\ IsBuffer(Prepended(b, data))
         /\ Readable(Prepended(b, data)) = data \o Readable(b)
<1> DEFINE c == Prepended(b, data)
           k == Len(data)
           r == b.reader - k
           n == b.writer - b.reader
           q == Readable(b)
           d == data \o q
           copied == CopyTo(b.bytes, r, data)
<1>1. /\ b \in [bytes : Seq(Byte), reader : Nat, writer : Nat] /\ n \in Nat
      /\ k \in Nat /\ r \in Nat /\ b.reader = r + k /\ b.writer = r + k + n
      /\ b.bytes \in Seq(Byte) /\ r + k + n <= Len(b.bytes) /\ kCheapPrepend <= Len(b.bytes)
  BY DEF IsBuffer, PrependableBytes
<1>2. /\ copied \in Seq(Byte) /\ Len(copied) = Len(b.bytes)
      /\ \A i \in 1 .. Len(b.bytes) : copied[i] =
           IF i - r \in 1 .. k THEN data[i - r] ELSE b.bytes[i]
  <2>1. r \in Nat /\ b.bytes \in Seq(Byte) /\ data \in Seq(Byte)
    BY <1>1
  <2> HIDE DEF r
  <2> QED  BY <2>1, CopyToIs
<1>3. c = [b EXCEPT !.bytes = copied, !.reader = r]
  BY DEF Prepended
<1>4. /\ c \in [bytes : Seq(Byte), reader : Nat, writer : Nat]
      /\ c.bytes = copied /\ c.reader = r /\ c.writer = b.writer
  <2> HIDE DEF c, copied, r
  <2> QED  BY <1>1, <1>2, <1>3
<1> HIDE DEF c, copied, k, r, n, q
<1>5. c.writer = r + k + n /\ c.writer - c.reader = k + n
  BY <1>1, <1>4
<1>6. IsBuffer(c)
  <2>1. c.reader <= c.writer /\ c.writer <= Len(c.bytes) /\ kCheapPrepend <= Len(c.bytes)
    BY <1>1, <1>2, <1>4, <1>5
  <2> QED  BY <1>4, <2>1 DEF IsBuffer
<1>7. /\ q \in Seq(Byte) /\ Len(q) = n
      /\ \A i \in 1 .. n : q[i] = b.bytes[b.reader + i]
  BY ReadableIs DEF n, q
<1>8. /\ Readable(c) \in Seq(Byte) /\ Len(Readable(c)) = k + n
      /\ \A i \in 1 .. k + n : Readable(c)[i] = copied[r + i]
  BY <1>4, <1>5, <1>6, ReadableIs
<1>9. /\ d \in Seq(Byte) /\ Len(d) = Len(data) + Len(q)
      /\ \A i \in 1 .. Len(data) : d[i] = data[i]
      /\ \A i \in 1 .. Len(q) : d[Len(data) + i] = q[i]
  <2>1. q \in Seq(Byte) /\ data \in Seq(Byte)
    BY <1>7
  <2> QED  BY <2>1, ConcatIs
<1> HIDE DEF d
<1>10. ASSUME NEW i \in 1 .. k + n
       PROVE  Readable(c)[i] = d[i]
  <2> DEFINE j == r + i
             m == i - k
  <2>1. j \in 1 .. Len(b.bytes) /\ j - r = i
    BY <1>1
  <2>2. Readable(c)[i] = IF i \in 1 .. k THEN data[i] ELSE b.bytes[j]
    <3>1. Readable(c)[i] = copied[j]
      BY <1>8
    <3> HIDE DEF j
    <3> QED  BY <1>2, <2>1, <3>1
  <2>3. CASE i \in 1 .. k
    <3>1. Readable(c)[i] = data[i]
      BY <2>2, <2>3
    <3> QED  BY <1>9, <2>3, <3>1 DEF k
  <2>4. CASE i \notin 1 .. k
    <3>1. m \in 1 .. n /\ k + m = i /\ b.reader + m = j
      BY <1>1, <2>4
    <3> HIDE DEF j, m
    <3>2. q[m] = b.bytes[j]
      BY <1>7, <3>1
    <3>3. d[k + m] = q[m]
      BY <1>7, <1>9, <3>1 DEF k
    <3> QED  BY <2>2, <2>4, <3>1, <3>2, <3>3
  <2> QED  BY <2>3, <2>4
<1>11. Len(d) = k + n
  BY <1>7, <1>9 DEF k
<1>12. Readable(c) = d
  BY <1>8, <1>9, <1>10, <1>11, SeqEqual
<1> QED  BY <1>6, <1>12 DEF c, d, q

\* A buffer that has just been made.
LEMMA NewBufferIs ==
  ASSUME NEW size \in Nat
  PROVE  /\ IsBuffer(NewBuffer(size))
         /\ Readable(NewBuffer(size)) = << >>
         /\ NewBuffer(size).reader = kCheapPrepend
<1> DEFINE c == NewBuffer(size)
           zeros == Zeros(kCheapPrepend + size)
<1>1. zeros \in Seq(Byte) /\ Len(zeros) = kCheapPrepend + size
  BY Sizes DEF Zeros
<1>2. c = [bytes |-> zeros, reader |-> kCheapPrepend, writer |-> kCheapPrepend]
  BY DEF NewBuffer
<1> HIDE DEF c, zeros
<1>3. IsBuffer(c)
  BY <1>1, <1>2, Sizes DEF IsBuffer
<1>4. Readable(c) \in Seq(Byte) /\ Len(Readable(c)) = 0
  <2>1. c.writer - c.reader = 0
    BY <1>2, Sizes
  <2> QED  BY <1>3, <2>1, ReadableIs
<1>5. Readable(c) = << >>
  BY <1>4
<1> QED  BY <1>2, <1>3, <1>5 DEF c

\* The bytes that readv() splits between the array and the stack arrive in order.
LEMMA ReceivedIs ==
  ASSUME NEW b, IsBuffer(b), NEW data \in Seq(Byte)
  PROVE  /\ IsBuffer(Received(b, data))
         /\ Readable(Received(b, data)) = Readable(b) \o data
         /\ Received(b, data).reader \in {b.reader, kCheapPrepend}
         /\ Len(data) > WritableBytes(b) =>
              RoomAsserted(Write(b, SubSeq(data, 1, WritableBytes(b))),
                           Len(data) - WritableBytes(b))
<1> DEFINE w == WritableBytes(b)
           head == SubSeq(data, 1, w)
           rest == SubSeq(data, w + 1, Len(data))
           full == Write(b, head)
<1>1. w \in Nat /\ Len(data) \in Nat
  BY DEF WritableBytes, IsBuffer
<1> HIDE DEF w
<1>2. CASE Len(data) <= w
  BY <1>1, <1>2, WriteIs DEF Received, w
<1>3. CASE Len(data) > w
  <2>1. /\ head \in Seq(Byte) /\ Len(head) = w
        /\ rest \in Seq(Byte) /\ Len(rest) = Len(data) - w
        /\ head \o rest = data
    <3>1. head \in Seq(Byte) /\ Len(head) = w
      BY <1>1, <1>3
    <3>2. rest \in Seq(Byte) /\ Len(rest) = Len(data) - w
      BY <1>1, <1>3, SliceIs
    <3>3. head \o rest = SubSeq(data, 1, Len(data))
      <4>1. 1 \in 1 .. Len(data) + 1 /\ w \in 1 - 1 .. Len(data) /\ Len(data) \in w .. Len(data)
        BY <1>1, <1>3
      <4> QED  BY <4>1, ConcatAdjacentSubSeq
    <3>4. SubSeq(data, 1, Len(data)) = data
      BY SubSeqFull
    <3> QED  BY <3>1, <3>2, <3>3, <3>4
  <2> HIDE DEF head, rest
  <2>2. IsBuffer(full) /\ Readable(full) = Readable(b) \o head /\ full.reader = b.reader
    <3>1. Len(head) <= WritableBytes(b)
      BY <1>1, <2>1 DEF w
    <3> QED  BY <2>1, <3>1, WriteIs
  <2>3. Received(b, data) = Appended(full, rest)
    BY <1>1, <1>3 DEF Received, w, head, rest
  <2> HIDE DEF full
  <2>4. /\ IsBuffer(Appended(full, rest)) /\ Readable(Appended(full, rest)) = Readable(full) \o rest
        /\ RoomAsserted(full, Len(rest)) /\ Appended(full, rest).reader \in {full.reader, kCheapPrepend}
    BY <2>1, <2>2, AppendedIs
  <2>5. (Readable(b) \o head) \o rest = Readable(b) \o (head \o rest)
    <3>1. Readable(b) \in Seq(Byte) /\ head \in Seq(Byte) /\ rest \in Seq(Byte)
      BY <2>1, ReadableIs
    <3> DEFINE q == Readable(b)
    <3> HIDE DEF q
    <3>2. (q \o head) \o rest = q \o (head \o rest)
      BY <3>1, ConcatAssociative DEF q
    <3> QED  BY <3>2 DEF q
  <2>6. RoomAsserted(full, Len(data) - w)
    BY <2>1, <2>4
  <2> QED  BY <2>1, <2>2, <2>3, <2>4, <2>5, <2>6 DEF full, head, w
<1> QED  BY <1>1, <1>2, <1>3

\* shrink(): the buffer that takes the place of this one has the same readable bytes.
LEMMA ShrunkIs ==
  ASSUME NEW b, IsBuffer(b), NEW reserve \in Nat
  PROVE  LET other == EnsureWritable(NewBuffer(kInitialSize), ReadableBytes(b) + reserve)
         IN  /\ IsBuffer(Appended(other, Readable(b)))
             /\ Readable(Appended(other, Readable(b))) = Readable(b)
             /\ Appended(other, Readable(b)).reader = kCheapPrepend
             /\ RoomAsserted(NewBuffer(kInitialSize), ReadableBytes(b) + reserve)
             /\ RoomAsserted(other, ReadableBytes(b))
<1> DEFINE new == NewBuffer(kInitialSize)
           room == ReadableBytes(b) + reserve
           other == EnsureWritable(new, room)
           q == Readable(b)
<1>1. room \in Nat /\ q \in Seq(Byte) /\ Len(q) = ReadableBytes(b)
  BY ReadableIs DEF IsBuffer, ReadableBytes
<1>2. IsBuffer(new) /\ Readable(new) = << >> /\ new.reader = kCheapPrepend
  BY NewBufferIs, Sizes
<1> HIDE DEF new, room, q
<1>3. /\ IsBuffer(other) /\ Readable(other) = << >> /\ other.reader = kCheapPrepend
      /\ RoomAsserted(new, room)
  BY <1>1, <1>2, EnsureWritableIs
<1> HIDE DEF other
<1>4. /\ IsBuffer(Appended(other, q)) /\ Readable(Appended(other, q)) = << >> \o q
      /\ RoomAsserted(other, Len(q)) /\ Appended(other, q).reader = kCheapPrepend
  BY <1>1, <1>3, AppendedIs
<1>5. << >> \o q = q
  BY <1>1
<1> QED  BY <1>1, <1>3, <1>4, <1>5 DEF other, new, room, q

-----------------------------------------------------------------------------
(* The calls, one by one, on a buffer that is well formed.                 *)

\* What calls add are strings of bytes, and an integer in memory, swapped, is in network order.
LEMMA StringsAreBytes == \A data \in Data : data \in Seq(Byte)
BY BufferAssumption DEF Byte

LEMMA IntegersAreBytes ==
  ASSUME NEW w \in Widths, NEW x \in Ints(w)
  PROVE  /\ InMemory(x, w) \in [1 .. w -> Byte]
         /\ Swapped(InMemory(x, w)) \in Seq(Byte)
         /\ Swapped(InMemory(x, w)) = Q!NetworkBytes(x, w)
         /\ w \in Nat
<1>1. w \in Nat /\ Base \in Nat \ {0} /\ Base^w \in Int
  BY BufferAssumption
<1>2. x \in Int
  BY <1>1 DEF Ints
<1>3. \A i \in 1 .. w : i - 1 \in Nat /\ Base^(i - 1) \in Int
  BY <1>1
<1>4. \A i \in 1 .. w : (x % Base^w) \div Base^(i - 1) % Base \in Byte
  BY <1>1, <1>2, <1>3 DEF Byte
<1>5. InMemory(x, w) \in [1 .. w -> Byte] /\ Len(InMemory(x, w)) = w
  BY <1>1, <1>4 DEF InMemory
<1>6. Swapped(InMemory(x, w)) = [i \in 1 .. w |-> InMemory(x, w)[w + 1 - i]]
  BY <1>5 DEF Swapped
<1>7. \A i \in 1 .. w : w + 1 - i \in 1 .. w /\ w + 1 - i - 1 = w - i
  BY <1>1
<1>8. \A i \in 1 .. w : InMemory(x, w)[w + 1 - i] = (x % Base^w) \div Base^(w - i) % Base
  <2> SUFFICES ASSUME NEW i \in 1 .. w
               PROVE  InMemory(x, w)[w + 1 - i] = (x % Base^w) \div Base^(w - i) % Base
    OBVIOUS
  <2> DEFINE j == w + 1 - i
  <2>1. j \in 1 .. w /\ j - 1 = w - i
    BY <1>1
  <2> HIDE DEF j
  <2>2. InMemory(x, w)[j] = (x % Base^w) \div Base^(j - 1) % Base
    BY <2>1, Zenon DEF InMemory
  <2>3. InMemory(x, w)[j] = (x % Base^w) \div Base^(w - i) % Base
    BY <2>1, <2>2
  <2> QED  BY <2>3 DEF j
<1>9. Swapped(InMemory(x, w)) \in Seq(Byte)
  BY <1>1, <1>5, <1>6, <1>7
<1> QED  BY <1>1, <1>5, <1>6, <1>8, <1>9 DEF Q!NetworkBytes

LEMMA AppendStep ==
  ASSUME IsBuffer(buf), NEW data \in Seq(Byte), AppendData(data)
  PROVE  /\ IsBuffer(buf') /\ aborted' = FALSE /\ Q!PutBack(data)
         /\ buf'.reader \in {buf.reader, kCheapPrepend}
<1>1. /\ IsBuffer(Appended(buf, data)) /\ Readable(Appended(buf, data)) = Readable(buf) \o data
      /\ RoomAsserted(buf, Len(data)) /\ Appended(buf, data).reader \in {buf.reader, kCheapPrepend}
  BY AppendedIs
<1>2. buf' = Appended(buf, data) /\ out' = << >> /\ aborted' = FALSE
  BY <1>1 DEF AppendData, MakesRoom
<1> QED  BY <1>1, <1>2 DEF Q!PutBack

LEMMA EnsureWritableStep ==
  ASSUME IsBuffer(buf), NEW len \in Nat, EnsureWritableBytes(len)
  PROVE  /\ IsBuffer(buf') /\ aborted' = FALSE /\ Q!Keep
         /\ buf'.reader \in {buf.reader, kCheapPrepend}
<1>1. /\ IsBuffer(EnsureWritable(buf, len)) /\ Readable(EnsureWritable(buf, len)) = Readable(buf)
      /\ RoomAsserted(buf, len) /\ EnsureWritable(buf, len).reader \in {buf.reader, kCheapPrepend}
  BY EnsureWritableIs
<1>2. buf' = EnsureWritable(buf, len) /\ out' = << >> /\ aborted' = FALSE
  BY <1>1 DEF EnsureWritableBytes, MakesRoom
<1> QED  BY <1>1, <1>2 DEF Q!Keep

LEMMA HasWrittenStep ==
  ASSUME IsBuffer(buf), NEW data \in Seq(Byte), HasWritten(data)
  PROVE  /\ IsBuffer(buf') /\ aborted' = aborted /\ Q!PutBack(data)
         /\ buf'.reader = buf.reader
BY WriteIs DEF HasWritten, Returns, Q!PutBack

LEMMA UnwriteStep ==
  ASSUME IsBuffer(buf), NEW len \in Nat, Unwrite(len)
  PROVE  /\ IsBuffer(buf') /\ aborted' = aborted /\ Q!TakeBack(len)
         /\ buf'.reader = buf.reader
<1>1. len <= Len(Readable(buf))
  BY ReadableIs DEF Unwrite, ReadableBytes
<1> QED  BY <1>1, UnwrittenIs DEF Unwrite, Returns, Q!TakeBack, Q!First

LEMMA RetrieveStep ==
  ASSUME IsBuffer(buf), NEW len \in Nat, Retrieve(len)
  PROVE  /\ IsBuffer(buf') /\ aborted' = aborted /\ Q!TakeFront(len)
         /\ buf'.reader >= buf.reader \/ buf'.reader = kCheapPrepend
<1>1. len <= Len(Readable(buf))
  BY ReadableIs DEF Retrieve, ReadableBytes
<1> QED  BY <1>1, RetrievedIs DEF Retrieve, Returns, Q!TakeFront, Q!First, Q!After

LEMMA PrependStep ==
  ASSUME IsBuffer(buf), NEW data \in Seq(Byte), Prepend(data)
  PROVE  IsBuffer(buf') /\ aborted' = aborted /\ Q!PutFront(data)
BY PrependedIs DEF Prepend, Returns, Q!PutFront

LEMMA ReadFdStep ==
  ASSUME IsBuffer(buf), NEW data \in Seq(Byte), ReadFd(data)
  PROVE  /\ IsBuffer(buf') /\ aborted' = FALSE /\ Q!PutBack(data)
         /\ buf'.reader \in {buf.reader, kCheapPrepend}
<1>1. Len(data) \in Nat /\ WritableBytes(buf) \in Nat
  BY DEF IsBuffer, WritableBytes
<1>2. buf' = Received(buf, data) /\ out' = << >>
  BY DEF ReadFd
<1>3. aborted' = FALSE
  <2>1. Len(data) - WritableBytes(buf) > 0 => Len(data) > WritableBytes(buf)
    BY <1>1
  <2> QED  BY <2>1, ReceivedIs DEF ReadFd
<1> QED  BY <1>2, <1>3, ReceivedIs DEF Q!PutBack

LEMMA ShrinkStep ==
  ASSUME IsBuffer(buf), NEW len \in Nat, Shrink(len)
  PROVE  /\ IsBuffer(buf') /\ aborted' = FALSE /\ Q!Keep
         /\ buf'.reader = kCheapPrepend
BY ShrunkIs DEF Shrink, Q!Keep

\* findCRLF() looks at the readable bytes only, and finds the first line end among them.
LEMMA RetrieveLineStep ==
  ASSUME IsBuffer(buf), NEW n \in Nat, RetrieveLine(n)
  PROVE  Q!TakeLine(n + 2) /\ n + 2 \in Nat /\ Retrieve(n + 2)
<1> DEFINE q == Readable(buf)
           r == buf.reader
           l == buf.writer - r
<1>1. /\ q \in Seq(Byte) /\ Len(q) = l /\ \A i \in 1 .. l : q[i] = buf.bytes[r + i]
  BY ReadableIs
<1>2. r \in Nat /\ l \in Nat
  BY DEF IsBuffer
<1>3. IsFindCRLF(buf, n) /\ Retrieve(n + 2)
  BY DEF RetrieveLine
<1> HIDE DEF q, l
<1>4. ASSUME NEW m \in Int
      PROVE  (m \in 2 .. l /\ q[m - 1] = CR /\ q[m] = LF) <=> m - 2 \in CRLFs(buf)
  <2>1. m - 2 \in CRLFs(buf) <=> /\ m - 2 \in 0 .. l - 2
                                 /\ buf.bytes[r + (m - 2) + 1] = CR
                                 /\ buf.bytes[r + (m - 2) + 2] = LF
    BY DEF CRLFs, ReadableBytes, l
  <2>2. r + (m - 2) + 1 = r + (m - 1) /\ r + (m - 2) + 2 = r + m
    BY <1>2
  <2>3. m - 2 \in 0 .. l - 2 <=> m \in 2 .. l
    BY <1>2
  <2>4. ASSUME m \in 2 .. l
        PROVE  q[m] = buf.bytes[r + m] /\ q[m - 1] = buf.bytes[r + (m - 1)]
    <3> DEFINE k == m - 1
    <3>1. k \in 1 .. l /\ m \in 1 .. l
      BY <1>2, <2>4
    <3> HIDE DEF k
    <3>2. q[m] = buf.bytes[r + m] /\ q[k] = buf.bytes[r + k]
      BY <1>1, <3>1
    <3> QED  BY <3>2 DEF k
  <2> QED  BY <2>1, <2>2, <2>3, <2>4
<1>5. ASSUME NEW m \in Int
      PROVE  Q!EndsLine(m) <=> m - 2 \in CRLFs(buf)
  BY <1>1, <1>4 DEF Q!EndsLine, q
<1>6. n + 2 \in Int /\ n + 2 - 2 = n
  OBVIOUS
<1>7. Q!EndsLine(n + 2)
  BY <1>3, <1>5, <1>6 DEF IsFindCRLF
<1>8. \A m \in 2 .. n + 2 - 1 : ~Q!EndsLine(m)
  <2> SUFFICES ASSUME NEW m \in 2 .. n + 2 - 1, Q!EndsLine(m)
               PROVE  FALSE
    OBVIOUS
  <2>1. m - 2 \in CRLFs(buf)
    BY <1>5
  <2>2. n <= m - 2
    BY <1>3, <2>1 DEF IsFindCRLF
  <2> QED  BY <2>2
<1>9. Q!TakeFront(n + 2)
  BY <1>3, RetrieveStep
<1> QED  BY <1>3, <1>7, <1>8, <1>9 DEF Q!TakeLine

\* An integer that is read is the one whose bytes come first.
LEMMA ReadIntStep ==
  ASSUME IsBuffer(buf), NEW w \in Widths, NEW x \in Ints(w), ReadInt(x, w)
  PROVE  /\ IsBuffer(buf') /\ aborted' = aborted /\ Q!TakeInt(x, w)
         /\ buf'.reader >= buf.reader \/ buf'.reader = kCheapPrepend
<1> DEFINE q == Readable(buf)
           s == SubSeq(buf.bytes, buf.reader + 1, buf.reader + w)
<1>1. w \in Nat /\ w <= ReadableBytes(buf) /\ q \in Seq(Byte) /\ Len(q) = ReadableBytes(buf)
  BY IntegersAreBytes, ReadableIs DEF ReadInt, ReadableBytes
<1>2. s \in Seq(Byte) /\ Len(s) = w
  <2> DEFINE m == buf.reader + w
  <2>1. /\ buf.bytes \in Seq(Byte) /\ buf.reader \in Nat /\ m \in Nat
        /\ buf.reader <= m /\ m <= Len(buf.bytes) /\ m - buf.reader = w
    BY <1>1 DEF IsBuffer, ReadableBytes
  <2> HIDE DEF m
  <2>2. /\ SubSeq(buf.bytes, buf.reader + 1, m) \in Seq(Byte)
        /\ Len(SubSeq(buf.bytes, buf.reader + 1, m)) = m - buf.reader
    BY <2>1, SliceIs
  <2> QED  BY <2>1, <2>2 DEF m
<1>3. s = SubSeq(q, 1, w)
  BY <1>1, RetrievedIs
<1>4. InMemory(x, w) = Swapped(s)
  BY DEF ReadInt, IsPeekInt
<1> HIDE DEF s
<1>5. Swapped(Swapped(s)) = s
  <2>1. /\ Swapped(s) = [i \in 1 .. w |-> s[w + 1 - i]] /\ Len(Swapped(s)) = w
    BY <1>1, <1>2 DEF Swapped
  <2>2. Swapped(Swapped(s)) = [i \in 1 .. w |-> Swapped(s)[w + 1 - i]]
    BY <1>1, <2>1 DEF Swapped
  <2>3. ASSUME NEW i \in 1 .. w
        PROVE  Swapped(s)[w + 1 - i] = s[i]
    <3> DEFINE j == w + 1 - i
    <3>1. j \in 1 .. w /\ w + 1 - j = i
      BY <1>1
    <3> HIDE DEF j
    <3>2. Swapped(s)[j] = s[w + 1 - j]
      BY <2>1, <3>1
    <3> QED  BY <3>1, <3>2 DEF j
  <2>4. Swapped(Swapped(s)) = [i \in 1 .. w |-> s[i]]
    BY <2>2, <2>3
  <2> QED  BY <1>1, <1>2, <2>4
<1>6. Q!NetworkBytes(x, w) = SubSeq(q, 1, w)
  BY <1>3, <1>4, <1>5, IntegersAreBytes
<1>7. /\ IsBuffer(Retrieved(buf, w))
      /\ Readable(Retrieved(buf, w)) = SubSeq(q, w + 1, Len(q))
      /\ Retrieved(buf, w).reader >= buf.reader \/ Retrieved(buf, w).reader = kCheapPrepend
  BY <1>1, RetrievedIs
<1>8. buf' = Retrieved(buf, w) /\ out' = << x >> /\ aborted' = aborted
  BY DEF ReadInt, Returns
<1> QED  BY <1>1, <1>6, <1>7, <1>8 DEF Q!TakeInt, Q!First, Q!After

-----------------------------------------------------------------------------
(* The theorems.                                                           *)

\* The inductive invariant.
IInv == TypeOK /\ NeverAborts

LEMMA InitIInv == Init => IInv /\ Q!Init
<1> SUFFICES ASSUME Init PROVE IInv /\ Q!Init
  OBVIOUS
<1>1. PICK size \in InitialSizes : buf = NewBuffer(size)
  BY DEF Init
<1>2. size \in Nat
  BY BufferAssumption
<1>3. IsBuffer(buf) /\ Readable(buf) = << >>
  BY <1>1, <1>2, NewBufferIs
<1> QED  BY <1>3 DEF Init, IInv, TypeOK, NeverAborts, Q!Init

\* What every step does: it keeps the buffer well formed, it is a step of the queue, and it
\* leaves the room in front alone unless it prepends.
LEMMA StepLemma ==
  ASSUME IInv, [Next]_vars
  PROVE  /\ IInv'
         /\ [Q!Next]_<<Readable(buf), out>>
         /\ \/ \E data \in Data : Prepend(data)
            \/ \E w \in Widths : \E x \in Ints(w) : PrependInt(x, w)
            \/ buf'.reader >= buf.reader
            \/ buf'.reader >= kCheapPrepend
<1> DEFINE Good == IsBuffer(buf') /\ aborted' = FALSE
           Room == buf'.reader >= buf.reader \/ buf'.reader >= kCheapPrepend
           Puts == \/ \E data \in Data : Prepend(data)
                   \/ \E w \in Widths : \E x \in Ints(w) : PrependInt(x, w)
<1>1. /\ IsBuffer(buf) /\ aborted = FALSE /\ kCheapPrepend \in Nat /\ buf.reader \in Nat
      /\ Len(Readable(buf)) \in Nat
  BY Sizes, ReadableIs DEF IInv, TypeOK, NeverAborts, IsBuffer
<1>2. Good => IInv'
  BY DEF IInv, TypeOK, NeverAborts
<1>3. ASSUME buf'.reader \in {buf.reader, kCheapPrepend}
      PROVE  Room
  BY <1>1, <1>3
<1>4. ASSUME buf'.reader = kCheapPrepend
      PROVE  Room
  BY <1>1, <1>4
<1>5. ASSUME NEW data \in Data, AppendData(data) \/ HasWritten(data) \/ ReadFd(data)
      PROVE  Good /\ Q!Next /\ Room
  <2>1. data \in Seq(Byte)
    BY StringsAreBytes
  <2>2. Good /\ Q!PutBack(data) /\ buf'.reader \in {buf.reader, kCheapPrepend}
    BY <1>1, <1>5, <2>1, AppendStep, HasWrittenStep, ReadFdStep
  <2> QED  BY <1>3, <2>2 DEF Q!Next
<1>6. ASSUME NEW data \in Data, Prepend(data)
      PROVE  Good /\ Q!Next /\ Puts
  BY <1>1, <1>6, StringsAreBytes, PrependStep DEF Q!Next
<1>7. ASSUME NEW len \in 0 .. MaxSize, EnsureWritableBytes(len) \/ Shrink(len)
      PROVE  Good /\ Q!Next /\ Room
  <2>1. Good /\ Q!Keep /\ buf'.reader \in {buf.reader, kCheapPrepend}
    <3>1. len \in Nat
      OBVIOUS
    <3>2. ASSUME EnsureWritableBytes(len)
          PROVE  Good /\ Q!Keep /\ buf'.reader \in {buf.reader, kCheapPrepend}
      BY <1>1, <3>1, <3>2, EnsureWritableStep
    <3>3. ASSUME Shrink(len)
          PROVE  Good /\ Q!Keep /\ buf'.reader \in {buf.reader, kCheapPrepend}
      BY <1>1, <3>1, <3>3, ShrinkStep
    <3> QED  BY <1>7, <3>2, <3>3
  <2> QED  BY <1>3, <2>1 DEF Q!Next
<1>8. ASSUME NEW len \in 0 .. MaxSize, Unwrite(len)
      PROVE  Good /\ Q!Next /\ Room
  <2>1. Good /\ Q!TakeBack(len) /\ buf'.reader = buf.reader
    BY <1>1, <1>8, UnwriteStep
  <2>2. len \in 0 .. Len(Readable(buf))
    BY <1>1, <2>1 DEF Q!TakeBack
  <2> QED  BY <1>1, <2>1, <2>2 DEF Q!Next
<1>9. ASSUME NEW len \in Nat, Retrieve(len)
      PROVE  Good /\ Q!Next /\ Room
  <2>1. /\ Good /\ Q!TakeFront(len)
        /\ buf'.reader >= buf.reader \/ buf'.reader = kCheapPrepend
    BY <1>1, <1>9, RetrieveStep
  <2>2. len \in 0 .. Len(Readable(buf))
    BY <1>1, <2>1 DEF Q!TakeFront
  <2> QED  BY <1>4, <2>1, <2>2 DEF Q!Next
<1>10. ASSUME NEW len \in 0 .. MaxSize, RetrieveLine(len)
       PROVE  Good /\ Q!Next /\ Room
  <2>1. len \in Nat
    OBVIOUS
  <2>2. len + 2 \in Nat /\ Retrieve(len + 2)
    BY <1>1, <1>10, <2>1, RetrieveLineStep
  <2> HIDE DEF Good, Room
  <2> QED  BY <1>9, <2>2
<1>11. ASSUME NEW w \in Widths, NEW x \in Ints(w), AppendInt(x, w)
       PROVE  Good /\ Q!Next /\ Room
  <2>1. Good /\ Q!PutBack(Q!NetworkBytes(x, w)) /\ buf'.reader \in {buf.reader, kCheapPrepend}
    BY <1>1, <1>11, IntegersAreBytes, AppendStep DEF AppendInt
  <2>2. x \in Q!Ints(w)
    BY DEF Ints, Q!Ints
  <2> QED  BY <1>3, <2>1, <2>2 DEF Q!Next
<1>12. ASSUME NEW w \in Widths, NEW x \in Ints(w), PrependInt(x, w)
       PROVE  Good /\ Q!Next /\ Puts
  <2>1. Good /\ Q!PutFront(Q!NetworkBytes(x, w))
    BY <1>1, <1>12, IntegersAreBytes, PrependStep DEF PrependInt
  <2>2. x \in Q!Ints(w)
    BY DEF Ints, Q!Ints
  <2> QED  BY <1>12, <2>1, <2>2 DEF Q!Next
<1>13. ASSUME NEW w \in Widths, NEW x \in Ints(w), ReadInt(x, w)
       PROVE  Good /\ Q!Next /\ Room
  <2>1. /\ Good /\ Q!TakeInt(x, w)
        /\ buf'.reader >= buf.reader \/ buf'.reader = kCheapPrepend
    BY <1>1, <1>13, ReadIntStep
  <2>2. x \in Q!Ints(w)
    BY DEF Ints, Q!Ints
  <2> QED  BY <1>4, <2>1, <2>2 DEF Q!Next
<1>14. ASSUME ReadFdNothing
       PROVE  Good /\ Q!Next /\ Room
  <2>1. buf' = buf /\ out' = << >> /\ aborted' = aborted
    BY <1>14 DEF ReadFdNothing, Returns
  <2> QED  BY <1>1, <2>1 DEF Q!Next, Q!Keep
<1>15. ASSUME UNCHANGED vars
       PROVE  Good /\ UNCHANGED <<Readable(buf), out>> /\ Room
  <2>1. buf' = buf /\ out' = out /\ aborted' = aborted
    BY <1>15 DEF vars
  <2> QED  BY <1>1, <2>1
<1>16. ASSUME Next
       PROVE  Good /\ Q!Next /\ (Puts \/ Room)
  <2> HIDE DEF Good, Room, Puts
  <2>1. \A len \in 0 .. MaxSize : len \in Nat
    OBVIOUS
  <2> QED  BY <1>5, <1>6, <1>7, <1>8, <1>9, <1>10, <1>11, <1>12, <1>13, <1>14, <1>16, <2>1, Zenon
           DEF Next
<1> QED  BY <1>2, <1>15, <1>16

\* The indices stay in order and within the array, and no assertion of makeSpace() or
\* ensureWritableBytes() fails, for every sequence of calls.
THEOREM NoAssertionFails == Spec => []NeverAborts
<1>1. IInv /\ [Next]_vars => IInv'
  BY StepLemma
<1>2. IInv => NeverAborts
  BY DEF IInv
<1> QED  BY InitIInv, <1>1, <1>2, PTL DEF Spec

\* Only prepend() uses the room for a header.
THEOREM HeaderRoomIsKept == Spec => HeaderRoomKept
<1>1. IInv /\ [Next]_vars => IInv'
  BY StepLemma
<1>2. ASSUME IInv, [Next]_vars
      PROVE  [\/ \E data \in Data : Prepend(data)
              \/ \E w \in Widths : \E x \in Ints(w) : PrependInt(x, w)
              \/ buf'.reader >= buf.reader
              \/ buf'.reader >= kCheapPrepend]_vars
  BY <1>2, StepLemma
<1> QED  BY InitIInv, <1>1, <1>2, PTL DEF Spec, HeaderRoomKept

\* The buffer implements a queue of bytes.
THEOREM ImplementsByteQueue == Spec => IsByteQueue
<1>1. IInv /\ [Next]_vars => IInv' /\ [Q!Next]_<<Readable(buf), out>>
  BY StepLemma
<1> QED  BY InitIInv, <1>1, PTL DEF Spec, IsByteQueue, Q!Spec

\* Each call does to the queue what its name says.
THEOREM CallsAreQueueSteps == Spec => CallsActOnQueue
<1>1. IInv /\ [Next]_vars => IInv'
  BY StepLemma
<1> DEFINE Calls ==
      /\ \A data \in Data : /\ AppendData(data) \/ HasWritten(data) \/ ReadFd(data) => Q!PutBack(data)
                            /\ Prepend(data) => Q!PutFront(data)
      /\ \A len \in 0 .. MaxSize : /\ EnsureWritableBytes(len) \/ Shrink(len) => Q!Keep
                                   /\ Unwrite(len) => Q!TakeBack(len)
                                   /\ Retrieve(len) => Q!TakeFront(len)
                                   /\ RetrieveLine(len) => Q!TakeLine(len + 2)
      /\ \A w \in Widths : \A x \in Ints(w) :
           /\ AppendInt(x, w) => Q!PutBack(Q!NetworkBytes(x, w))
           /\ PrependInt(x, w) => Q!PutFront(Q!NetworkBytes(x, w))
           /\ ReadInt(x, w) => Q!TakeInt(x, w)
<1>2. IInv => Calls
  <2> SUFFICES ASSUME IsBuffer(buf) PROVE Calls
    BY DEF IInv, TypeOK
  <2>1. ASSUME NEW data \in Data
        PROVE  /\ AppendData(data) \/ HasWritten(data) \/ ReadFd(data) => Q!PutBack(data)
               /\ Prepend(data) => Q!PutFront(data)
    BY StringsAreBytes, AppendStep, HasWrittenStep, ReadFdStep, PrependStep
  <2>2. ASSUME NEW len \in 0 .. MaxSize
        PROVE  /\ EnsureWritableBytes(len) \/ Shrink(len) => Q!Keep
               /\ Unwrite(len) => Q!TakeBack(len)
               /\ Retrieve(len) => Q!TakeFront(len)
               /\ RetrieveLine(len) => Q!TakeLine(len + 2)
    <3>1. len \in Nat
      OBVIOUS
    <3> QED  BY <3>1, EnsureWritableStep, ShrinkStep, UnwriteStep, RetrieveStep, RetrieveLineStep
  <2>3. ASSUME NEW w \in Widths, NEW x \in Ints(w)
        PROVE  /\ AppendInt(x, w) => Q!PutBack(Q!NetworkBytes(x, w))
               /\ PrependInt(x, w) => Q!PutFront(Q!NetworkBytes(x, w))
               /\ ReadInt(x, w) => Q!TakeInt(x, w)
    <3>1. /\ Swapped(InMemory(x, w)) \in Seq(Byte)
          /\ Swapped(InMemory(x, w)) = Q!NetworkBytes(x, w)
      BY IntegersAreBytes
    <3> QED  BY <3>1, AppendStep, PrependStep, ReadIntStep DEF AppendInt, PrependInt
  <2> QED  BY <2>1, <2>2, <2>3
<1>3. IInv => [Calls]_vars
  BY <1>2
<1> QED  BY InitIInv, <1>1, <1>3, PTL DEF Spec, CallsActOnQueue
=============================================================================
