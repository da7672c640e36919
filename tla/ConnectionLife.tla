-------------------------- MODULE ConnectionLife ---------------------------
(***************************************************************************)
(* What the library promises to the code that uses a TcpConnectionff: its  *)
(* connection callback runs once when the connection is up and once when   *)
(* it is down, its message callback only in between, and the object lives  *)
(* until after the second.                                                 *)
(***************************************************************************)
EXTENDS Sequences

CONSTANT Conns

VARIABLES stage,   \* "none", "open", "up", "down" or "gone"
          log      \* the callbacks so far, equal messages in a row counted once

vars == <<stage, log>>

Init ==
    /\ stage = [c \in Conns |-> "none"]
    /\ log = [c \in Conns |-> << >>]

Moves(c, from, to) == stage[c] = from /\ stage' = [stage EXCEPT ![c] = to]

Open(c) == Moves(c, "none", "open") /\ UNCHANGED log

Up(c) == Moves(c, "open", "up") /\ log' = [log EXCEPT ![c] = Append(@, "up")]

Message(c) == Moves(c, "up", "up") /\ log' = [log EXCEPT ![c] = Append(@, "message")]

Down(c) == Moves(c, "up", "down") /\ log' = [log EXCEPT ![c] = Append(@, "down")]

Gone(c) == Moves(c, "down", "gone") /\ UNCHANGED log

Next == \E c \in Conns : Open(c) \/ Up(c) \/ Message(c) \/ Down(c) \/ Gone(c)

Spec == Init /\ [][Next]_vars
=============================================================================
