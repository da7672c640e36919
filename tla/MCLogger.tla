------------------------------ MODULE MCLogger ------------------------------
EXTENDS Logger

Statement == [level |-> 2, errno |-> 0, func |-> << >>, line |-> 10, items |-> << >>]
Integers(values) == [i \in DOMAIN values |-> L!Integer(values[i])]

\* Numbers of either sign and any number of digits; an error; lines that are too long.
MCMessages ==
    {[Statement EXCEPT !.items = Integers(<<-128, -10, 9, 127, 255>>)],
     [Statement EXCEPT !.items = <<L!Pointer(15), L!Text(L!Word(" ", 1)), L!Pointer(16)>>],
     [Statement EXCEPT !.errno = 11, !.func = L!Word("f", 2), !.items = <<L!Double(L!Word("1.5", 3))>>],
     [Statement EXCEPT !.items = <<L!Text(L!Word("long", 40)), L!Integer(7)>>],
     [Statement EXCEPT !.items = Integers([i \in 1 .. 30 |-> i])],
     [Statement EXCEPT !.items = Integers(<<0>>)]}
=============================================================================
