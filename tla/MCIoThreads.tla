---------------------------- MODULE MCIoThreads ----------------------------
EXTENDS IoThreads
=============================================================================
