----------------------------- MODULE MCDefinitions -----------------------------
(* Two callers on a node with one prompt, an agent that uses it, a team, a  *)
(* disabled MCP server, two directories of skills that may be configured    *)
(* and a skill in the first; and a team of which members may live on a      *)
(* worker.                                                                  *)
EXTENDS AgentTools, TLC

CONSTANTS c1, c2, f1, f2, t1, t2, a1, a2, team, server, skill, home, dir1, dir2, v1, v2,
  host, worker, embedded, noText, missing, gone, m1, m2, r1, r2

MCCallers == {c1, c2}
MCFamilies == {f1, f2}
MCTexts == {t1, t2}
MCAgents == {a1, a2}
MCTeams == {team}
MCServers == {server}

MCStored ==
  [rows |->
     [prompt |-> [p \in PromptIds |->
                    IF p = 1 THEN [family |-> f1, text |-> t1, active |-> TRUE, suits |-> TRUE, version |-> 1]
                    ELSE None],
      agent |-> (a1 :> [text |-> t1]) @@ (a2 :> None),
      team |-> (team :> None),
      mcp |-> (server :> [enabled |-> FALSE])],
   mapping |-> (a1 :> f1) @@ (a2 :> None)]

Config(enabled) == <<[key |-> server, enabled |-> enabled]>>

(* what a caller does: of prompts, of agents, of teams, of servers          *)
MCPrompts ==
  << createPrompt(f2, t2) \o markActivePrompt(2) \o deletePrompt(1) \o list_prompts,
     addNewPromptRevision(1, t2) \o activate_prompt(2) \o startAgent(a1),
     startAgent(a1) \o updatePrompt(1, t2, FALSE) \o startAgent(a1),
     startAgent(a1) \o delete_prompt(1) \o startAgent(a1),
     get_prompt(1) \o patch_prompt(1, t2) \o markActivePrompt(1),
     update_prompt(1, t2) \o update_prompt_metadata(1, TRUE),
     create_agent_definition(a2, f1) \o startAgent(a2) \o list_agent_definitions,
     create_prompt(f2, t2) \o updateAgentDefinition(a1, t2, f2) \o update_agent_definition(a1, t1, None),
     get_agent_definition(a1) \o delete_agent_definition(a1),
     create_agent_definition(a2, f1) \o deleteAgentDefinition(a2) >>
MCOthers ==
  << create_agent_team_definition(team, t1) \o updateAgentTeamDefinition(team, t2) \o get_agent_team_definition(team),
     createAgentTeamDefinition(team, t2) \o deleteAgentTeamDefinition(team) \o list_agent_team_definitions,
     update_agent_team_definition(team, t1) \o delete_agent_team_definition(team),
     loadMcpServers \o list_mcp_server_configurations,
     apply_mcp_server_configurations(Config(TRUE)) \o deleteMcpServer(server),
     importMcpServerConfigs(Config(TRUE)) \o discover_mcp_server_tools(server),
     configureMcpServer(server, FALSE) \o discoverAndRegisterMcpServerTools(server),
     get_mcp_server_configuration(server) \o delete_mcp_server_configuration(server) \o preview_mcp_server_tools >>

(* a call as a model writes it                                              *)
Call(tool, marks, text) ==
  << <<[do |-> "writeCall",
        call |-> [tool |-> tool, marks |-> marks, text |-> text, family |-> f2, prompt |-> 1]]>> >>
Nested == {<<"x", "t1", "t2", "y">>, <<"x", "a1", "a2", "y">>}
MCWritten ==
  {Call(tool, marks, <<"x", "n", "y">>) :
     tool \in {"create_prompt", "update_prompt", "patch_prompt"}, marks \in {"both", "none", "first"}}
  \cup {Call(tool, "both", text) : tool \in {"create_prompt", "update_prompt", "patch_prompt"}, text \in Nested}

Repeat(what, n) == [i \in 1 .. n |-> <<[do |-> what]>>]

Ordered(list) == UNION {{(c1 :> list[i]) @@ (c2 :> list[j]) : j \in i .. Len(list)} : i \in DOMAIN list}
MCWorkloads ==
  Ordered(MCPrompts) \cup Ordered(MCOthers)
  \cup {(c1 :> w) @@ (c2 :> delete_prompt(1)) : w \in MCWritten}
  \cup {(c1 :> Repeat("skill", 4)) @@ (c2 :> <<>>), (c1 :> Repeat("team", 7)) @@ (c2 :> <<>>)}

MCSkillNames == {skill}
MCSources == {dir1, dir2}
MCReadOnly == {dir2}
MCTags == {v1, v2}
MCInstalled ==
  [d \in {home, dir1, dir2} |->
     [k \in {skill} |-> IF d = dir1 THEN [doc |-> [fit |-> "well", text |-> "new"], git |-> Absent] ELSE Absent]]

(* Teams.  A definition is a title, a lead and members.                     *)
Agent(name, ref, node) == [name |-> name, kind |-> "agent", ref |-> ref, home |-> node]
Sub(name, ref) == [name |-> name, kind |-> "team", ref |-> ref, home |-> missing]
Def(title, nodes) == [title |-> title, lead |-> "x", nodes |-> nodes]
Configured(name, key, model, place, root) ==
  [name |-> name, key |-> key, id |-> missing, model |-> model, place |-> place, root |-> root]
X(place, root) == Configured("x", missing, m1, place, root)
Y(place, root) == Configured("y", missing, m2, place, root)
Plain == <<X(<<host, r1>>, missing), Y(missing, r2)>>
NestedX == Configured("x", <<"s", "x">>, m2, missing, r2)

AB == Def("ab", {Agent("x", a1, missing), Agent("y", a2, worker)})
AA == Def("ab", {Agent("x", a1, missing), Agent("y", a1, worker)})
Other == Def("other", {Agent("x", a2, missing)})
Nest == Def("nest", {Agent("x", a1, embedded), Sub("s", 2)})
Inner == Def("inner", {Agent("x", a2, worker)})
Loop == Def("nest", {Agent("x", a1, embedded), Sub("s", 1)})

MCTeamIds == 1 .. 5
Ids(d1, d2) == [id \in MCTeamIds |-> CASE id = 1 -> d1 [] id = 2 -> d2 [] OTHER -> missing]
Dossier(hostDefs, workerDefs, configs, edition) ==
  [team |-> 1, defs |-> (host :> hostDefs) @@ (worker :> workerDefs), configs |-> configs, edition |-> edition,
   agents |-> [n \in {host, worker} |-> {a1, a2}], opened |-> (host :> {r1}) @@ (worker :> {})]
Nothing == Ids(missing, missing)
MCNoTeam == Dossier(Nothing, Nothing, <<>>, AA)

(* definitions the worker has of its own: none, one of the host's id, one   *)
(* of the same name and lead; places that are empty or given twice; and a   *)
(* nested team, of which the worker may have the inner one                  *)
MCDossiers ==
  {MCNoTeam,
   Dossier(Ids(AB, missing), Nothing, Plain, AA),
   Dossier(Ids(AB, missing), Ids(Other, missing), Plain, AA),
   Dossier(Ids(AB, missing), Ids(gone, AA), Plain, Other),
   Dossier(Ids(AB, missing), Nothing, <<X(missing, r2), Y(noText, r2)>>, AA),
   Dossier(Ids(AB, missing), Nothing, <<X(<<host, r1>>, r2), Y(missing, noText)>>, AA),
   Dossier(Ids(Nest, Inner), Ids(missing, Inner), <<NestedX, X(missing, missing)>>, Loop),
   Dossier(Ids(Nest, Inner), Nothing, <<X(missing, missing), NestedX>>, Loop)}
=============================================================================
