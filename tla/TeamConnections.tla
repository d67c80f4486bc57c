---------------------------- MODULE TeamConnections ----------------------------
(****************************************************************************)
(* The WebSocket connections of a team definition, and what the modules     *)
(* about them (TeamStream, ToolApproval) see of its runs: the version of    *)
(* the active one.  TeamRun has the run's life in the orchestrator.         *)
(****************************************************************************)
EXTENDS Naturals

CONSTANTS Sessions, MaxRuns

VARIABLES
  current,     \* the definition's active run in the orchestrator
  started      \* the last run that was started

Runs == 1 .. MaxRuns
NoRun == 0

NoRunYet == current = NoRun /\ started = 0

(* dispatchControlStop: the definition has no active run until the next     *)
StopActiveRun == current # NoRun /\ current' = NoRun /\ UNCHANGED started
=============================================================================
