-------------------------- MODULE MCTcpConnection --------------------------
EXTENDS TcpConnection

CONSTANTS u1

\* The program with assertions, where callbacks call their own connection.
Plain == [conns |-> {1, 2}, single |-> TRUE, debug |-> TRUE, stops |-> FALSE,
          cross |-> FALSE, callbackOps |-> {}, userOps |-> {}, maxCalls |-> 2]

\* Two connections, in one loop and in two; in a server that is destroyed; with
\* callbacks that close connections other than their own.
TwoConnections ==
    {[Plain EXCEPT !.single = s, !.maxCalls = 1,
        !.callbackOps = {"shutdown", "forceClose", "stopRead"}] : s \in BOOLEAN}
    \cup {[Plain EXCEPT !.stops = TRUE, !.callbackOps = {"forceClose"}],
          [Plain EXCEPT !.cross = TRUE, !.callbackOps = {"keep", "forceClose"}]}

One == [Plain EXCEPT !.conns = {1}, !.single = FALSE]

\* One connection that sends and is read or not, as the program is installed for use
\* (without assertions); that callbacks and a timer close; that callbacks and another thread call;
\* and whose server is destroyed while its I/O thread runs.
OneConnection ==
    {[One EXCEPT !.single = TRUE, !.debug = FALSE, !.maxCalls = 3,
        !.callbackOps = {"send", "shutdown", "startRead", "stopRead", "forceClose"}],
     [One EXCEPT !.debug = FALSE, !.maxCalls = 3,
        !.callbackOps = {"send", "shutdown", "startRead"}],
     [One EXCEPT !.callbackOps = {"shutdown", "forceClose", "forceCloseWithDelay"}],
     [One EXCEPT !.callbackOps = {"keep"},
        !.userOps = {"send", "shutdown", "forceClose", "forceCloseWithDelay"}],
     [One EXCEPT !.maxCalls = 3, !.callbackOps = {"keep", "shutdown"},
        !.userOps = {"shutdown", "forceClose"}],
     [One EXCEPT !.stops = TRUE]}

AllSetups == TwoConnections \cup OneConnection

\* A callback that sends and shuts down.
SendSetups == {[One EXCEPT !.single = TRUE, !.callbackOps = {"send", "shutdown"}]}

\* Another thread sends to a connection that a callback has kept, or shuts it down.
ThreadSetups == {[One EXCEPT !.callbackOps = {"keep"}, !.userOps = {"send", "shutdown"}]}
=============================================================================
