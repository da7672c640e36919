---------------------------- MODULE MCEventLoop ----------------------------
EXTENDS EventLoop

CONSTANTS o, t1, t2, f1, f2, c1, c2, wfd
=============================================================================
