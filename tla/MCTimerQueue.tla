---------------------------- MODULE MCTimerQueue ----------------------------
EXTENDS TimerQueue

\* One thread besides the loop's, two addresses.
CONSTANTS t1, a1, a2
=============================================================================
