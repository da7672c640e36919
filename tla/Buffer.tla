------------------------------- MODULE Buffer -------------------------------
(***************************************************************************)
(* Bufferff: one array of bytes with two indices.  The bytes between them  *)
(* are readable, those after them can be written, those before them leave  *)
(* room for a header.                                                      *)
(*                                                                         *)
(* A buffer is a record [bytes, reader, writer]; `reader' and `writer' are *)
(* the indices of the code, so that the first readable byte is             *)
(* bytes[reader + 1].  An assertion that fails sets `aborted'.             *)
(***************************************************************************)
EXTENDS Integers, Sequences

CONSTANTS
    Data,           \* the byte strings that callers and peers write
    Base,           \* a byte is a number below Base, 256 in the code
    CR, LF,         \* two bytes
    kCheapPrepend,  \* the room in front, 8
    kInitialSize,   \* the room behind of a buffer that is made without a size, 1024
    InitialSizes,   \* the sizes with which a buffer is made
    ExtraSize,      \* the size of the stack buffer of readFd, 65536
    Widths,         \* the sizes of integers: 1, 2, 4, 8
    MaxSize         \* bound on the array

ASSUME BufferAssumption ==
    /\ {kCheapPrepend, kInitialSize, ExtraSize, MaxSize} \subseteq Nat
    /\ InitialSizes \subseteq Nat
    /\ Widths \subseteq Nat \ {0}
    /\ Base \in Nat \ {0, 1}
    /\ {CR, LF} \subseteq 0 .. Base - 1
    /\ Data \subseteq Seq(0 .. Base - 1)

VARIABLES
    buf,      \* the buffer
    out,      \* what the last call returned, << >> when it returns nothing
    aborted   \* an assertion of the buffer has failed

vars == <<buf, out, aborted>>

Byte == 0 .. Base - 1
Zeros(n) == [i \in 1 .. n |-> 0]

NewBuffer(size) == [bytes  |-> Zeros(kCheapPrepend + size),
                    reader |-> kCheapPrepend,
                    writer |-> kCheapPrepend]

ReadableBytes(b) == b.writer - b.reader
WritableBytes(b) == Len(b.bytes) - b.writer
PrependableBytes(b) == b.reader

\* toString(): the bytes from peek() to beginWrite().
Readable(b) == SubSeq(b.bytes, b.reader + 1, b.writer)

\* std::copy of data to begin() + at, when it fits in the array.
CopyTo(bytes, at, data) ==
    [i \in DOMAIN bytes |-> IF i - at \in 1 .. Len(data) THEN data[i - at] ELSE bytes[i]]

-----------------------------------------------------------------------------
(* Making room.                                                            *)

\* Faulty: the room that must be left in front is not counted.
NeedsResizeNoHeader(b, len) == WritableBytes(b) + PrependableBytes(b) < len

NeedsResize(b, len) == WritableBytes(b) + PrependableBytes(b) < len + kCheapPrepend

\* Faulty: the new size is that of the readable bytes and the data.
ResizeTooSmall(b, len) ==
    [b EXCEPT !.bytes = [i \in 1 .. ReadableBytes(b) + len |->
                           IF i \in DOMAIN @ THEN @[i] ELSE 0]]

Resize(b, len) == [b EXCEPT !.bytes = @ \o Zeros(b.writer + len - Len(@))]

\* Faulty: the data is moved to the very start of the array.
MoveToStart(b) == [bytes  |-> CopyTo(b.bytes, 0, Readable(b)),
                   reader |-> 0,
                   writer |-> ReadableBytes(b)]

MoveToFront(b) == [bytes  |-> CopyTo(b.bytes, kCheapPrepend, Readable(b)),
                   reader |-> kCheapPrepend,
                   writer |-> kCheapPrepend + ReadableBytes(b)]

MakeSpace(b, len) == IF NeedsResize(b, len) THEN Resize(b, len) ELSE MoveToFront(b)

EnsureWritable(b, len) == IF WritableBytes(b) < len THEN MakeSpace(b, len) ELSE b

\* The assertions of ensureWritableBytes and makeSpace.
RoomAsserted(b, len) ==
    /\ WritableBytes(b) < len /\ ~NeedsResize(b, len) => kCheapPrepend < b.reader
    /\ len <= WritableBytes(EnsureWritable(b, len))

Write(b, data) == [b EXCEPT !.bytes = CopyTo(@, b.writer, data), !.writer = @ + Len(data)]

Appended(b, data) == Write(EnsureWritable(b, Len(data)), data)

-----------------------------------------------------------------------------
(* Consuming.                                                              *)

AllRetrieved(b) == [b EXCEPT !.reader = kCheapPrepend, !.writer = kCheapPrepend]

Retrieved(b, len) ==
    IF len < ReadableBytes(b) THEN [b EXCEPT !.reader = @ + len] ELSE AllRetrieved(b)

Unwritten(b, len) == [b EXCEPT !.writer = @ - len]

Prepended(b, data) == [b EXCEPT !.reader = @ - Len(data),
                                !.bytes = CopyTo(@, b.reader - Len(data), data)]

\* The offsets, from peek(), of a CR LF that lies wholly in the readable bytes.
CRLFs(b) == {n \in 0 .. ReadableBytes(b) - 2 :
                b.bytes[b.reader + n + 1] = CR /\ b.bytes[b.reader + n + 2] = LF}

\* findCRLF(): the first of them.
IsFindCRLF(b, n) == n \in CRLFs(b) /\ \A m \in CRLFs(b) : n <= m

-----------------------------------------------------------------------------
(* Integers.  The host is little-endian: an integer of w bytes lies in     *)
(* memory with its least significant byte first, and htobe and betoh       *)
(* reverse the bytes.                                                      *)

Ints(w) == -(Base^w \div 2) .. Base^w - 1 - Base^w \div 2

InMemory(x, w) == [i \in 1 .. w |-> (x % Base^w) \div Base^(i - 1) % Base]

Swapped(bytes) == [i \in 1 .. Len(bytes) |-> bytes[Len(bytes) + 1 - i]]

\* peekInt: memcpy from the buffer, then betoh.
IsPeekInt(b, x, w) == InMemory(x, w) = Swapped(SubSeq(b.bytes, b.reader + 1, b.reader + w))

-----------------------------------------------------------------------------
(* The calls.  Callers respect what a call requires: they retrieve no more *)
(* than is readable, and write and prepend no more than there is room for. *)

Init ==
    /\ \E size \in InitialSizes : buf = NewBuffer(size)
    /\ out = << >>
    /\ aborted = FALSE

Returns(b, result) == buf' = b /\ out' = result /\ UNCHANGED aborted

\* A call that first makes room for len bytes.
MakesRoom(len) ==
    /\ Len(EnsureWritable(buf, len).bytes) <= MaxSize
    /\ aborted' = ~RoomAsserted(buf, len)
    /\ out' = << >>

AppendData(data) ==
    /\ MakesRoom(Len(data))
    /\ buf' = Appended(buf, data)

AppendInt(x, w) == AppendData(Swapped(InMemory(x, w)))

EnsureWritableBytes(len) ==
    /\ MakesRoom(len)
    /\ buf' = EnsureWritable(buf, len)

\* The caller copies to beginWrite() and calls hasWritten().
HasWritten(data) ==
    /\ Len(data) <= WritableBytes(buf)
    /\ Returns(Write(buf, data), << >>)

Unwrite(len) ==
    /\ len <= ReadableBytes(buf)
    /\ Returns(Unwritten(buf, len), << >>)

\* retrieveAsString(); retrieve() is the same without the result.
Retrieve(len) ==
    /\ len <= ReadableBytes(buf)
    /\ Returns(Retrieved(buf, len), SubSeq(buf.bytes, buf.reader + 1, buf.reader + len))

\* findCRLF() and retrieveUntil() the end of the line, as HttpContextff does.
RetrieveLine(n) ==
    /\ IsFindCRLF(buf, n)
    /\ Retrieve(n + 2)

ReadInt(x, w) ==
    /\ w <= ReadableBytes(buf)
    /\ IsPeekInt(buf, x, w)
    /\ Returns(Retrieved(buf, w), << x >>)

Prepend(data) ==
    /\ Len(data) <= PrependableBytes(buf)
    /\ Returns(Prepended(buf, data), << >>)

PrependInt(x, w) == Prepend(Swapped(InMemory(x, w)))

\* A new buffer with room for `reserve' more bytes takes the place of this one.
Shrink(reserve) ==
    LET other == EnsureWritable(NewBuffer(kInitialSize), ReadableBytes(buf) + reserve)
    IN  /\ Len(other.bytes) <= MaxSize
        /\ buf' = Appended(other, Readable(buf))
        /\ aborted' = ~(/\ RoomAsserted(NewBuffer(kInitialSize), ReadableBytes(buf) + reserve)
                        /\ RoomAsserted(other, ReadableBytes(buf)))
        /\ out' = << >>

\* Faulty: the number of bytes that went to the stack buffer is taken to be n.
ReceivedTwice(b, data) ==
    IF Len(data) <= WritableBytes(b) THEN Write(b, data)
    ELSE Appended(Write(b, SubSeq(data, 1, WritableBytes(b))), data)

\* readv() fills the writable bytes first, then the stack buffer, which is not used when the
\* writable bytes are at least as many as it has.
Received(b, data) ==
    LET writable == WritableBytes(b)
    IN  IF Len(data) <= writable THEN Write(b, data)
        ELSE Appended(Write(b, SubSeq(data, 1, writable)),
                      SubSeq(data, writable + 1, Len(data)))

ReadFd(data) ==
    LET writable == WritableBytes(buf)
        overflow == Len(data) - writable
        full     == Write(buf, SubSeq(data, 1, writable))
    IN  /\ overflow <= IF writable < ExtraSize THEN ExtraSize ELSE 0
        /\ Len(Received(buf, data).bytes) <= MaxSize
        /\ buf' = Received(buf, data)
        /\ aborted' = (overflow > 0 /\ ~RoomAsserted(full, overflow))
        /\ out' = << >>

\* readv() fails, or the peer has closed.
ReadFdNothing == Returns(buf, << >>)

Next ==
    \/ \E data \in Data : \/ AppendData(data)
                          \/ HasWritten(data)
                          \/ Prepend(data)
                          \/ ReadFd(data)
    \/ \E len \in 0 .. MaxSize : \/ EnsureWritableBytes(len)
                                 \/ Unwrite(len)
                                 \/ Retrieve(len)
                                 \/ RetrieveLine(len)
                                 \/ Shrink(len)
    \/ \E w \in Widths : \E x \in Ints(w) : \/ AppendInt(x, w)
                                            \/ PrependInt(x, w)
                                            \/ ReadInt(x, w)
    \/ ReadFdNothing

Spec == Init /\ [][Next]_vars

-----------------------------------------------------------------------------
(* Properties.                                                             *)

\* The picture in the class comment: 0 <= readerIndex <= writerIndex <= size; and the array
\* never loses the room in front.
IsBuffer(b) ==
    /\ b \in [bytes : Seq(Byte), reader : Nat, writer : Nat]
    /\ b.reader <= b.writer
    /\ b.writer <= Len(b.bytes)
    /\ kCheapPrepend <= Len(b.bytes)

\* The buffer is always as the class comment draws it.
TypeOK == IsBuffer(buf) /\ aborted \in BOOLEAN

\* Whatever the calls and their order, the buffer stays so, and the assertions inside makeSpace()
\* and ensureWritableBytes() hold: data is only moved towards the front, and there is room after it.
NeverAborts == TypeOK /\ ~aborted

\* Only prepend() uses the room in front: after any other call there is as much of it as there
\* was, or kCheapPrepend bytes, so that a header can always be put before a message.
HeaderRoomKept ==
    [][\/ \E data \in Data : Prepend(data)
       \/ \E w \in Widths : \E x \in Ints(w) : PrependInt(x, w)
       \/ buf'.reader >= buf.reader
       \/ buf'.reader >= kCheapPrepend]_vars

Q == INSTANCE ByteQueue WITH bytes <- Readable(buf)

\* Each call does to the readable bytes what its name says, however the data is moved, the array
\* grown or a read split between the array and the stack: append and readFd add at the end,
\* prepend in front, a retrieve takes what came first, and integers are read as they were written.
CallsActOnQueue ==
    [][/\ \A data \in Data : /\ AppendData(data) \/ HasWritten(data) \/ ReadFd(data) => Q!PutBack(data)
                             /\ Prepend(data) => Q!PutFront(data)
       /\ \A len \in 0 .. MaxSize : /\ EnsureWritableBytes(len) \/ Shrink(len) => Q!Keep
                                    /\ Unwrite(len) => Q!TakeBack(len)
                                    /\ Retrieve(len) => Q!TakeFront(len)
                                    /\ RetrieveLine(len) => Q!TakeLine(len + 2)
       /\ \A w \in Widths : \A x \in Ints(w) :
            /\ AppendInt(x, w) => Q!PutBack(Q!NetworkBytes(x, w))
            /\ PrependInt(x, w) => Q!PutFront(Q!NetworkBytes(x, w))
            /\ ReadInt(x, w) => Q!TakeInt(x, w)]_vars

\* The buffer implements a queue of bytes.
IsByteQueue == Q!Spec
=============================================================================
