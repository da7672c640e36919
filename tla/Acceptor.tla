------------------------------ MODULE Acceptor ------------------------------
(***************************************************************************)
(* Acceptorff as operators on a record: the listening socket with the      *)
(* connections that wait on it, the descriptors, and the one that is kept  *)
(* in reserve (idleFd_) to refuse a connection when no other is free.      *)
(***************************************************************************)
EXTENDS Integers

\* waiting: connections that the kernel has completed; open: the descriptors of connections;
\* idle: whether idleFd_ is an open descriptor.
AcceptorType(limit) == [listening : BOOLEAN, waiting : Nat, open : 0 .. limit, idle : BOOLEAN]

NewAcceptor == [listening |-> FALSE, waiting |-> 0, open |-> 0, idle |-> TRUE]

Listening(a) == [a EXCEPT !.listening = TRUE]

Used(a) == a.open + IF a.idle THEN 1 ELSE 0

\* accept() takes a connection from the queue.
MayAccept(a, limit) == Used(a) < limit
Accepted(a) == [a EXCEPT !.waiting = @ - 1, !.open = @ + 1]

\* Faulty: the reserve is not given up before the second accept().
RefusedWithReserve(a, limit) == a

\* accept() has failed with EMFILE: the reserve is closed, and a connection is accepted in its
\* place and closed.  "dev/null" is then looked for in the working directory, and the reserve is
\* not opened again.
Refused(a, limit) ==
    LET freed == [a EXCEPT !.idle = FALSE]
    IN  IF MayAccept(freed, limit) THEN [freed EXCEPT !.waiting = @ - 1] ELSE freed
=============================================================================
