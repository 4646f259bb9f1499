--------------------------- MODULE MCSinkManager ---------------------------
\* The sink runtime on small instances.
EXTENDS SinkManager

CONSTANTS c1, c2, none, j1, j2
=============================================================================
