---------------------------- MODULE MCSinkHealth ----------------------------
\* A sink's health on a small instance: the schema is in order, one table of it is
\* not, or ClickHouse is away and its tables were never created.
EXTENDS SinkHealth

CONSTANT none

In(up, first, second) == [up |-> up, table |-> <<first, second>>]

MCBackends ==
    { In(TRUE, "matches", "matches"),
      In(TRUE, "matches", "drifted"),
      In(FALSE, "missing", "missing") }

\* One outage or one other fault; a second edit only of a sink in order, with an
\* outage at most.  No fair action needs more.
Bounded ==
    /\ outages + faults <= 1
    /\ resourceEdits = 2 => faults = 0 /\ ~autoCreate /\ ValidateSchema

BoundedSpec == HealthInit /\ [][HealthNext /\ Bounded']_healthVars /\ HealthFairness
=============================================================================
