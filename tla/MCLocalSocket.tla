---------------------------- MODULE MCLocalSocket ----------------------------
(* LocalSocket in each of the five namespaces.                             *)
EXTENDS LocalSocket, TLC

MCModes == {"dial", "udp", "local", "listen", "packets"}
MCSends == [m \in Modes |-> IF m \in {"dial", "udp"} THEN 2 ELSE 1]
MCNonBlock ==
    [m \in Modes |-> (1 :> IF m = "packets" THEN {TRUE} ELSE BOOLEAN) @@ (2 :> {FALSE}) @@ (4 :> {TRUE})]
=============================================================================
