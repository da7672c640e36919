------------------------------ MODULE MCBuffer ------------------------------
EXTENDS Buffer
MCData == UNION {[1 .. n -> {0, 1}] : n \in 0 .. 3}
=============================================================================
