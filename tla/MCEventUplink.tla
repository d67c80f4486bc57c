----------------------------- MODULE MCEventUplink -----------------------------
(* Model values for TLC: two handlers, one after the other or overlapping,  *)
(* so that a forwarder is replaced or torn down while its requests are      *)
(* under way, or two forwarders post every event.                           *)
EXTENDS EventUplink

CONSTANTS h1, h2
=============================================================================
