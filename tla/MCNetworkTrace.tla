--------------------------- MODULE MCNetworkTrace ----------------------------
(* NetworkTrace with two connections that may have the same descriptor.    *)
EXTENDS NetworkTrace

\* Most calls where nothing waits; fewer where events are read two by two.
TraceBounds ==
    {[group |-> 1, requests |-> 2, extras |-> 1],
     [group |-> 2, requests |-> 1, extras |-> 1],
     [group |-> 2, requests |-> 2, extras |-> 0]}
=============================================================================
