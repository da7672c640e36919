----------------------------- MODULE ByteQueue -----------------------------
(***************************************************************************)
(* What a Bufferff promises to its users: a sequence of bytes that grows   *)
(* at either end and is consumed from either end.  The room kept in front, *)
(* the size of the array and the moves of data inside it are not visible.  *)
(* `out' is what the last call returned.                                   *)
(***************************************************************************)
EXTENDS Integers, Sequences

CONSTANTS Data, \* the byte strings that calls may add
          Base, \* a byte is a number below Base (256)
          CR, LF,
          Widths \* the sizes of integers

VARIABLES bytes, out

First(n) == SubSeq(bytes, 1, n)
After(n) == SubSeq(bytes, n + 1, Len(bytes))

Init == bytes = << >> /\ out = << >>

PutBack(data)  == bytes' = bytes \o data /\ out' = << >>
PutFront(data) == bytes' = data \o bytes /\ out' = << >>
TakeFront(n)   == n <= Len(bytes) /\ bytes' = After(n) /\ out' = First(n)
TakeBack(n)    == n <= Len(bytes) /\ bytes' = First(Len(bytes) - n) /\ out' = << >>
Keep           == bytes' = bytes /\ out' = << >>

\* The n bytes that end at the first CR LF.
EndsLine(n) == n \in 2 .. Len(bytes) /\ bytes[n - 1] = CR /\ bytes[n] = LF
TakeLine(n) == EndsLine(n) /\ (\A m \in 2 .. n - 1 : ~EndsLine(m)) /\ TakeFront(n)

\* Integers travel in two's complement, most significant byte first.
Ints(w) == -(Base^w \div 2) .. Base^w - 1 - Base^w \div 2
NetworkBytes(x, w) == [i \in 1 .. w |-> (x % Base^w) \div Base^(w - i) % Base]
TakeInt(x, w) ==
  /\ w <= Len(bytes)
  /\ NetworkBytes(x, w) = First(w)
  /\ bytes' = After(w)
  /\ out' = << x >>

Next ==
  \/ \E data \in Data : PutBack(data) \/ PutFront(data)
  \/ \E n \in 0 .. Len(bytes) : TakeFront(n) \/ TakeBack(n) \/ TakeLine(n)
  \/ \E w \in Widths : \E x \in Ints(w) : \/ PutBack(NetworkBytes(x, w))
                                          \/ PutFront(NetworkBytes(x, w))
                                          \/ TakeInt(x, w)
  \/ Keep

Spec == Init /\ [][Next]_<<bytes, out>>
=============================================================================
