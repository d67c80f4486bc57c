------------------------------ MODULE MCNodeSync ------------------------------
(* A source with a team in a team whose agent has one prompt, to which      *)
(* users may add a version or which they may remove; a target with          *)
(* definitions of its own and one without any.                              *)
EXTENDS NodeSync, TLC

CONSTANTS source, t1, t2, f, x, y, z, a, b, outer, inner, server

MCTargets == {t1, t2}
MCFamilies == {f}
MCTexts == {x, y, z}
MCEntered == {z}
MCAgents == {a, b}
MCTeams == {outer, inner}
MCServers == {server}

P(id, text, active) == [id |-> id, family |-> f, version |-> id, text |-> text, active |-> active]
Empty == [prompts |-> {}, agents |-> [k \in MCAgents |-> None], teams |-> [k \in MCTeams |-> None],
          servers |-> [k \in MCServers |-> None]]

MCStored ==
  (source :> [prompts |-> {P(1, y, TRUE)},
              agents |-> (a :> [text |-> x, family |-> f]) @@ (b :> None),
              teams |-> (outer :> [text |-> x, agents |-> {}, teams |-> {inner}])
                        @@ (inner :> [text |-> x, agents |-> {a}, teams |-> {}]),
              servers |-> (server :> [enabled |-> TRUE])]) @@
  (t1 :> [Empty EXCEPT !.prompts = {P(1, x, FALSE), P(2, z, TRUE)},
                       !.agents = (a :> [text |-> z, family |-> f]) @@ (b :> None),
                       !.teams = (outer :> None) @@ (inner :> [text |-> z, agents |-> {}, teams |-> {}])]) @@
  (t2 :> Empty)

Selection(teams0, agents0, deps) == [teams |-> teams0, agents |-> agents0, dependencies |-> deps]
PlanOf(targets, selection, policy) ==
  [targets |-> targets, scope |-> Kinds, selection |-> selection, policy |-> policy]

MCPlans ==
  { PlanOf(<<t1, t2>>, None, "source_wins"),
    PlanOf(<<t1>>, Selection({outer}, {}, TRUE), "target_wins"),
    PlanOf(<<t2>>, Selection({}, {a}, FALSE), "source_wins"),
    PlanOf(<<t1, t1>>, None, "source_wins") }
=============================================================================
