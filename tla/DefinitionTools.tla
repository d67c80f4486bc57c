---------------------------- MODULE DefinitionTools ----------------------------
(****************************************************************************)
(* What each GraphQL operation and each agent tool asks of the services of  *)
(* Definitions: an agenda, a sequence of jobs whose requests are made one   *)
(* after the other.  A request that throws ends its job.  Where a tool and  *)
(* a mutation differ, they differ in the reads a tool makes first and in    *)
(* the fields it passes as null.  Listing operations ask for all rows.      *)
(****************************************************************************)
EXTENDS Definitions

One(request) == << <<request>> >>
Asked(kind, key) == [do |-> "read", kind |-> kind, key |-> key]
On(what, key) == [do |-> what, key |-> key]

-----------------------------------------------------------------------------
(* GraphQL: prompts                                                         *)

promptDetails(p) == One(Asked("prompt", p))
createPrompt(f, t) == One([do |-> "createPrompt", family |-> f, text |-> t])
updatePrompt(p, t, active) == One([do |-> "updatePrompt", key |-> p, text |-> t, active |-> active])
addNewPromptRevision(p, t) == One([do |-> "revise", key |-> p, text |-> t])
markActivePrompt(p) == One(On("markActive", p))
deletePrompt(p) == One(On("deletePrompt", p))

(* GraphQL: agents and teams                                                *)

agentDefinition(a) == One(Asked("agent", a))
createAgentDefinition(a, f) == One([do |-> "createAgent", key |-> a, family |-> f])
updateAgentDefinition(a, t, f) == One([do |-> "updateAgent", key |-> a, text |-> t, family |-> f])
deleteAgentDefinition(a) == One(On("deleteAgent", a))
agentTeamDefinition(t) == One(Asked("team", t))
createAgentTeamDefinition(t, text) == One([do |-> "createTeam", key |-> t, text |-> text])
updateAgentTeamDefinition(t, text) == One([do |-> "updateTeam", key |-> t, text |-> text])
deleteAgentTeamDefinition(t) == One(On("deleteTeam", t))

(* GraphQL: MCP servers.  The servers of an import fail each on its own.    *)

mcpServers == One(Asked("mcp", None))
previewMcpServerTools == One([do |-> "preview"])
configureMcpServer(s, enabled) == One([do |-> "configure", key |-> s, enabled |-> enabled])
deleteMcpServer(s) == One(On("deleteServer", s))
discoverAndRegisterMcpServerTools(s) == One(On("discover", s))
importMcpServerConfigs(configs) ==
  [i \in DOMAIN configs |-> configureMcpServer(configs[i].key, configs[i].enabled)[1]]

(* the start of the server                                                  *)
loadMcpServers == One([do |-> "loadAll"])

(* an agent or a team member starts: its system prompt                      *)
startAgent(a) == << <<Asked("agent", a), On("load", a)>> >>

-----------------------------------------------------------------------------
(* The agents' tools                                                        *)

activate_prompt(p) == << <<Asked("prompt", p), Asked("prompt", None), On("markActive", p)>> >>
create_prompt(f, t) == createPrompt(f, t)
delete_prompt(p) == deletePrompt(p)
get_prompt(p) == promptDetails(p)
list_prompts == One(Asked("prompt", None))
patch_prompt(p, t) == << <<Asked("prompt", p), [do |-> "revise", key |-> p, text |-> t]>> >>
update_prompt(p, t) == << <<Asked("prompt", p), [do |-> "revise", key |-> p, text |-> t]>> >>
update_prompt_metadata(p, active) == updatePrompt(p, None, active)

create_agent_definition(a, f) == createAgentDefinition(a, f)
update_agent_definition(a, t, f) == updateAgentDefinition(a, t, f)
delete_agent_definition(a) == deleteAgentDefinition(a)
get_agent_definition(a) == agentDefinition(a)
list_agent_definitions == One(Asked("agent", None))

create_agent_team_definition(t, text) == createAgentTeamDefinition(t, text)
update_agent_team_definition(t, text) == updateAgentTeamDefinition(t, text)
delete_agent_team_definition(t) == deleteAgentTeamDefinition(t)
get_agent_team_definition(t) == agentTeamDefinition(t)
list_agent_team_definitions == One(Asked("team", None))

(* every server is configured and, when enabled, discovered                 *)
apply_mcp_server_configurations(configs) ==
  [i \in DOMAIN configs |->
     LET s == configs[i].key
     IN  configureMcpServer(s, configs[i].enabled)[1]
           \o (IF configs[i].enabled THEN <<On("discover", s)>> ELSE <<>>)]
delete_mcp_server_configuration(s) == deleteMcpServer(s)
discover_mcp_server_tools(s) == discoverAndRegisterMcpServerTools(s)
get_mcp_server_configuration(s) == One(Asked("mcp", s))
list_mcp_server_configurations == mcpServers
preview_mcp_server_tools == previewMcpServerTools
=============================================================================
