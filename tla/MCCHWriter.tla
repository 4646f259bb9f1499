---------------------------- MODULE MCCHWriter ----------------------------
\* The writer on a small instance.
EXTENDS CHWriter

CONSTANTS j1, j2, w1, w2, u1
=============================================================================
