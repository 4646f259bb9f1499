--------------------------- MODULE MCWatchManager ---------------------------
\* Two sinks share the informer of the object's namespace; rules of the first may also
\* watch it through the informer of all namespaces.  Rules name the label they want.
EXTENDS WatchManager

CONSTANTS a, b

MCSinks == {a, b}
MCOffered == {t \in Targets : t.sink = a \/ t.informer.ns = "own"}
MCLabels == {"in", "none"}
MCSelector == [s \in Sinks |-> {"in"}]
=============================================================================
