---------------------------- MODULE MCScopePath -----------------------------
\* A scope of each of two sinks; two targets serve that of the second.
EXTENDS ScopePath

CONSTANTS s1, s2, k1, t1, t2

MCServing == [k \in Keys |-> IF k[1] = s2 THEN {t1, t2} ELSE {t1}]
=============================================================================
