------------------------------ MODULE AgentTools -------------------------------
(****************************************************************************)
(* The node's definitions, its skills and teams, and the tools with which   *)
(* agents work on them, together: a caller's request may be one of          *)
(* Definitions, one on skills, one on a team, or a prompt tool whose call   *)
(* an agent's model is still writing.  When the parser has found the end of *)
(* a call, the tool is invoked with the arguments it picked out.  A restart *)
(* of the server hits all of them.                                          *)
(****************************************************************************)
EXTENDS DefinitionTools, PromptToolParser, Skills, TeamMembers

CONSTANT NoTeam  \* the dossier of callers that do not work on a team

toolVars == <<vars, reply, skillVars, teamVars>>

OnTeams == \E c \in Callers : \E i \in DOMAIN call[c].agenda : call[c].agenda[i][1].do = "team"

ToolsInit == Init /\ reply = Silent /\ SkillInit /\ TeamInit /\ (OnTeams <=> dossier # NoTeam)

Definitional == <<db, cache, reading, mapping, template, registered, lastId, torn>>

(* the synchronous operations on skills                                     *)
SkillRequest(c) ==
  /\ Doing(c, "skill")
  /\ \/ (SkillEdit \/ SkillMutation(FALSE) \/ SkillTool(FALSE)) /\ UNCHANGED faults
     \/ (SkillMutation(TRUE) \/ SkillTool(TRUE)) /\ Fault
  /\ Finish(c)
  /\ UNCHANGED Definitional /\ UNCHANGED <<reply, teamVars>>

(* a mutation on a team, a message that goes to a worker, or one of them    *)
(* refused                                                                  *)
TeamWork(c) ==
  /\ Doing(c, "team")
  /\ TeamRequest \/ UNCHANGED teamVars
  /\ Finish(c)
  /\ UNCHANGED Definitional /\ UNCHANGED <<faults, reply, skillVars>>

(* the agent's model begins to write a call                                 *)
WritesCall(c) ==
  /\ Doing(c, "writeCall")
  /\ Starts(c, Req(c).call)
  /\ To(c, At(c, "writing"))
  /\ UNCHANGED Definitional /\ UNCHANGED <<faults, skillVars, teamVars>>

(* the invocation a parsed call stands for: none if an argument is missing  *)
Invocation(r) ==
  LET p == r.parser
      tool == CASE r.call.tool = "create_prompt" -> create_prompt(r.call.family, p.text)
                [] r.call.tool = "update_prompt" -> update_prompt(r.call.prompt, Trim(p.text))
                [] r.call.tool = "patch_prompt" -> patch_prompt(r.call.prompt, p.text)
  IN  IF p.at = "ended" /\ p.named /\ p.text # <<>> THEN tool ELSE <<>>

Arrives(c) ==
  /\ call[c].at = "writing" /\ reply[c].left # <<>>
  /\ Receive(c)
  /\ UNCHANGED call
  /\ UNCHANGED Definitional /\ UNCHANGED <<faults, skillVars, teamVars>>

Invoke(c) ==
  /\ call[c].at = "writing" /\ reply[c].left = <<>>
  /\ To(c, Done([call[c] EXCEPT !.job = <<>>, !.agenda = Invocation(reply[c]) \o @]))
  /\ UNCHANGED Definitional /\ UNCHANGED <<faults, skillVars, reply, teamVars>>

ToolStep(c) ==
  \/ Step(c) /\ UNCHANGED <<reply, skillVars, teamVars>>
  \/ SkillRequest(c) \/ TeamWork(c) \/ WritesCall(c) \/ Arrives(c) \/ Invoke(c)

(* the server goes down, perhaps in the middle of the creation of a skill,  *)
(* and comes up again                                                       *)
ServerRestart ==
  /\ Restart
  /\ reply' = Silent
  /\ \/ SkillRestart({})
     \/ \E c \in Callers, k \in SkillNames : Doing(c, "skill") /\ SkillRestart({k})
  /\ HostRestart

(* sources vanish and appear at any time; before a request on skills is soon *)
(* enough to be seen                                                         *)
Outside ==
  /\ \E c \in Callers : Doing(c, "skill")
  /\ \/ \E d \in Sources : Unmount(d) /\ Fault
     \/ \E d \in Sources : Mount(d) /\ UNCHANGED faults
  /\ UNCHANGED Definitional /\ UNCHANGED <<call, reply, teamVars>>

(* the worker restarts, or its user works on its definitions; while the     *)
(* host has something left to ask of it                                     *)
Elsewhere ==
  /\ \E c \in Callers : Doing(c, "team")
  /\ WorkerRestart \/ WorkerEdit
  /\ Fault
  /\ UNCHANGED Definitional /\ UNCHANGED <<call, reply, skillVars>>

ToolsAdvance ==
  \/ \E c \in Callers : ToolStep(c)
  \/ /\ \E k \in Kinds : Populate(k) \/ Populated(k) \/ PopulateFails(k)
     /\ UNCHANGED <<reply, skillVars, teamVars>>

ToolsNext == (ToolsAdvance \/ ServerRestart \/ Outside \/ Elsewhere) /\ History

(* as in Definitions; the model goes on writing                             *)
ToolsFairness == WF_toolVars(ToolsAdvance /\ UNCHANGED faults /\ History)

ToolsSpec == ToolsInit /\ [][ToolsNext]_toolVars /\ ToolsFairness
=============================================================================
