------------------------------ MODULE MCDiscovery ------------------------------
(* A registry and two clients on another machine that share its ports.      *)
EXTENDS Discovery

CONSTANTS r, a, b

MCMachine == [n \in Nodes |-> IF n = r THEN "m1" ELSE "m2"]

(* unreachableAfterMs = degradedAfterMs: a silent node is never "degraded"  *)
MCStatuses == <<"ready", "unreachable">>
=============================================================================
