------------------------------- MODULE RunLease -------------------------------
(****************************************************************************)
(* What the host promises about the runs of a team definition, without run  *)
(* ids, teams, adapters or commands: a definition has no run or one run,    *)
(* each run gets the next version, it may degrade once, and only a degraded *)
(* run is taken away.  TeamRun implements this.                             *)
(****************************************************************************)
EXTENDS Naturals

CONSTANT Definitions

VARIABLES
  phase,    \* where the definition's run is, "none" when it has none
  version   \* version of the latest run of the definition

vars == <<phase, version>>

TypeOK ==
  /\ phase \in [Definitions -> {"none", "running", "degraded"}]
  /\ version \in [Definitions -> Nat]

Init ==
  /\ phase = [d \in Definitions |-> "none"]
  /\ version = [d \in Definitions |-> 0]

Move(d, from, to) ==
  /\ phase[d] = from
  /\ phase' = [phase EXCEPT ![d] = to]

Start(d) == Move(d, "none", "running") /\ version' = [version EXCEPT ![d] = @ + 1]
Degrade(d) == Move(d, "running", "degraded") /\ UNCHANGED version
Stop(d) == Move(d, "degraded", "none") /\ UNCHANGED version

Next == \E d \in Definitions : Start(d) \/ Degrade(d) \/ Stop(d)

Spec == Init /\ [][Next]_vars
=============================================================================
