----------------------------- MODULE LogStream -----------------------------
(***************************************************************************)
(* LogStreamff: what << puts into the buffer of a line, which has a fixed  *)
(* size.  A character is a pair: its kind and a number, such as            *)
(* <<"digit", 7>>; a text is a sequence of characters.                     *)
(***************************************************************************)
EXTENDS Integers, SequencesExt

CONSTANTS
    kSmallBuffer,    \* the size of the buffer of a line
    kMaxNumericSize  \* the room without which a number is not written

Avails(buffer) == kSmallBuffer - Len(buffer)

\* FixedBufferff::append cuts off what does not fit.
PutText(buffer, text) == buffer \o SubSeq(text, 1, Min({Len(text), Avails(buffer)}))

Word(kind, n) == [i \in 1 .. n |-> <<kind, i>>]
Digit(d) == <<"digit", d>>
Minus == <<"-", 0>>

\* Division in C++ truncates towards zero.
Quotient(a, b) == IF a >= 0 THEN a \div b ELSE -((-a) \div b)
Remainder(a, b) == a - b * Quotient(a, b)

\* digits, with zero pointing at its middle.
digits == [i \in -9 .. 9 |-> Digit(IF i < 0 THEN -i ELSE i)]

\* The loop of convert; the digits come out last first and are then reversed.
Digits[v \in Int] ==
    IF v = 0 THEN << >> ELSE Append(Digits[Quotient(v, 10)], digits[Remainder(v, 10)])
HexDigits[v \in Nat] ==
    IF v = 0 THEN << >> ELSE Append(HexDigits[v \div 16], Digit(v % 16))

Convert(v) == (IF v < 0 THEN <<Minus>> ELSE << >>) \o Digits[v]
ConvertHex(v) == Word("0x", 2) \o HexDigits[v]

PutNumber(buffer, text) ==
    IF Avails(buffer) >= kMaxNumericSize THEN buffer \o text ELSE buffer

\* operator<< for an item: a text (a character, a string, "(null)", a bool), an integer,
\* a pointer, or a double, whose digits snprintf finds.
Text(t)    == [kind |-> "text", value |-> t]
Integer(v) == [kind |-> "integer", value |-> v]
Pointer(v) == [kind |-> "pointer", value |-> v]
Double(t)  == [kind |-> "double", value |-> t]

Put(buffer, item) ==
    CASE item.kind = "text"    -> PutText(buffer, item.value)
      [] item.kind = "integer" -> PutNumber(buffer, Convert(item.value))
      [] item.kind = "pointer" -> PutNumber(buffer, ConvertHex(item.value))
      [] item.kind = "double"  -> PutNumber(buffer, item.value)

Stream(items) == FoldLeft(Put, << >>, items)
=============================================================================
