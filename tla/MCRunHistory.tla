----------------------------- MODULE MCRunHistory -----------------------------
(* Two agent runs and a team: of these one agent runs and the others are    *)
(* still to come, or one agent and the team have a history.                 *)
EXTENDS RunHistory, TLC

CONSTANTS c1, c2, s1, a1, a2, t1

MCKindOf == a1 :> "agent" @@ a2 :> "agent" @@ t1 :> "team"

MCStarts == {[made |-> {a1}, alive |-> {a1}], [made |-> {a1, t1}, alive |-> {}]}
=============================================================================
