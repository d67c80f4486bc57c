-------------------------------- MODULE NodeSync --------------------------------
(****************************************************************************)
(* The synchronisation of definitions: a coordinator checks that the nodes  *)
(* answer, exports a bundle from the source (all definitions, or a          *)
(* selection with what it depends on) and has one target after the other    *)
(* import it, while users edit the definitions of every node.               *)
(*                                                                          *)
(* An entity is imported in one step: what its service does meanwhile is in *)
(* Definitions.  Prompts are matched by family and version, everything else *)
(* by name; the members of a team are the source's references, which a      *)
(* target keeps as they are.  Export and import read their lists one after  *)
(* the other.  A request may fail on its way to the target and on its way   *)
(* back; then the target imports on while the coordinator has gone on.      *)
(*                                                                          *)
(* Bounds: MaxRuns runs, MaxEdits edits by users, MaxFailures failures.     *)
(****************************************************************************)
EXTENDS Naturals, FiniteSets, Sequences

CONSTANTS
  Source, Targets, Families, Agents, Teams, Servers,
  Texts, Entered,                 \* the texts of definitions, and those users enter
  Plans,                          \* the runs a user may ask for
  Stored,                         \* the definitions of the nodes at the start
  MaxRuns, MaxEdits, MaxFailures,
  None

SyncNodes == {Source} \cup Targets
RunIds == 1 .. MaxRuns
Kinds == {"prompt", "agent", "team", "server"}

Prompt == [id : Nat, family : Families, version : Nat, text : Texts, active : BOOLEAN]
AgentRow == [text : Texts, family : Families]
TeamRow == [text : Texts, agents : SUBSET Agents, teams : SUBSET Teams]
ServerRow == [enabled : BOOLEAN]
Plan == [targets : Seq(SyncNodes), scope : SUBSET Kinds, policy : {"source_wins", "target_wins"},
         selection : [teams : SUBSET Teams, agents : SUBSET Agents, dependencies : BOOLEAN] \cup {None}]

(* prompts are numbered from 1, in a family by their versions, of which one *)
(* at most is active                                                        *)
Numbered(P, last) ==
  /\ \A p \in P : p.id \in 1 .. last /\ p.version \in 1 .. last
  /\ \A p, q \in P : p.id = q.id => p = q
  /\ \A p, q \in P : p.family = q.family /\ p.version = q.version => p = q
OneActive(P) == \A p, q \in P : p.family = q.family /\ p.active /\ q.active => p = q

(* Every node starts with whole definitions: the prompts as they were       *)
(* created, and every agent with a family that has prompts.                 *)
ASSUME NodeSyncAssumption ==
  /\ Source \notin Targets /\ MaxRuns \in Nat /\ MaxEdits \in Nat /\ MaxFailures \in Nat
  /\ Entered \subseteq Texts /\ Plans \subseteq Plan
  /\ None \notin AgentRow \cup TeamRow \cup ServerRow \cup Targets \cup Plan \cup Families
  /\ None \notin [teams : SUBSET Teams, agents : SUBSET Agents, dependencies : BOOLEAN]
  /\ None # "success"
  /\ \A n \in SyncNodes :
       /\ IsFiniteSet(Stored[n].prompts) /\ Stored[n].prompts \subseteq Prompt
       /\ Numbered(Stored[n].prompts, Cardinality(Stored[n].prompts)) /\ OneActive(Stored[n].prompts)
       /\ Stored[n].agents \in [Agents -> AgentRow \cup {None}]
       /\ Stored[n].teams \in [Teams -> TeamRow \cup {None}]
       /\ Stored[n].servers \in [Servers -> ServerRow \cup {None}]
       /\ \A a \in Agents : Stored[n].agents[a] # None =>
            \E p \in Stored[n].prompts : p.family = Stored[n].agents[a].family

VARIABLES
  prompts,  \* per node, a set of [id, family, version, text, active]
  agents,   \* per node and name, [text, family] or None
  teams,    \* per node and name, [text, agents, teams] or None
  servers,  \* per node and id, [enabled] or None
  lastId,   \* per node, the last prompt id
  run,      \* the coordinator's run
  job,      \* per run and target, the import
  edits, mishaps,
  edited,   \* history: the nodes users edited, or an earlier import was still writing, in this run
  emptied   \* history: <<node, family>> whose prompts a user removed

defs == <<prompts, agents, teams, servers, lastId>>
syncVars == <<defs, run, job, edits, mishaps, edited, emptied>>

NoBundle == [prompts |-> {}, agents |-> {}, teams |-> {}, servers |-> {}]
NoRun == [no |-> 0, at |-> "idle", plan |-> None, chosen |-> None, bundle |-> NoBundle,
          left |-> <<>>, target |-> None, status |-> None, results |-> [t \in Targets |-> None]]
NoJob == [at |-> "none", listed |-> FALSE, left |-> {}, existing |-> {}, bundle |-> NoBundle, policy |-> None,
          scope |-> {}, failures |-> {}]

SyncInit ==
  /\ prompts = [n \in SyncNodes |-> Stored[n].prompts]
  /\ agents = [n \in SyncNodes |-> Stored[n].agents]
  /\ teams = [n \in SyncNodes |-> Stored[n].teams]
  /\ servers = [n \in SyncNodes |-> Stored[n].servers]
  /\ lastId = [n \in SyncNodes |-> Cardinality(Stored[n].prompts)]
  /\ run = NoRun
  /\ job = [r \in RunIds |-> [t \in Targets |-> NoJob]]
  /\ edits = 0 /\ mishaps = 0 /\ edited = {} /\ emptied = {}

Mishap == mishaps < MaxFailures /\ mishaps' = mishaps + 1
Named(entities) == {e.name : e \in entities}

-----------------------------------------------------------------------------
(* The prompt service, per node                                             *)

FamilyOf(n, f) == {p \in prompts[n] : p.family = f}
Largest(S) == CHOOSE v \in S \cup {0} : \A w \in S : v >= w

(* createPrompt: the first of a family is active                            *)
NewPrompt(n, f, text) ==
  [id |-> lastId[n] + 1, family |-> f, text |-> text, active |-> FamilyOf(n, f) = {},
   version |-> Largest({p.version : p \in FamilyOf(n, f)}) + 1]

(* markActivePrompt                                                         *)
WithActive(P, chosen) ==
  {IF p.family = chosen.family THEN [p EXCEPT !.active = p.id = chosen.id] ELSE p : p \in P}

-----------------------------------------------------------------------------
(* The coordinator: preflight and export                                    *)

TargetsOf(plan) == {plan.targets[i] : i \in DOMAIN plan.targets}

(* no target is the source or the same endpoint as another                  *)
Distinct(plan) == Source \notin TargetsOf(plan) /\ Cardinality(TargetsOf(plan)) = Len(plan.targets)

StartRun(plan) ==
  /\ run.at \in {"idle", "ended"} /\ run.no < MaxRuns
  /\ run' = [NoRun EXCEPT !.no = run.no + 1, !.plan = plan,
               !.at = IF plan.targets # <<>> /\ plan.scope # {} /\ Distinct(plan) THEN "health" ELSE "ended"]
  /\ edited' = {t \in Targets : \E r \in RunIds : job[r][t].at \notin {"none", "done"}}
  /\ UNCHANGED <<defs, job, edits, mishaps, emptied>>

(* source and targets are asked in turn; one that fails ends the run        *)
Checked ==
  /\ run.at = "health"
  /\ run' = [run EXCEPT !.at = "select"]
  /\ UNCHANGED <<defs, job, edits, mishaps, edited, emptied>>

Unhealthy ==
  /\ run.at = "health" /\ Mishap
  /\ run' = [run EXCEPT !.at = "ended"]
  /\ UNCHANGED <<defs, job, edits, edited, emptied>>

(* expandTeamDependencies: the teams and the teams in them                  *)
TeamsWithNested(chosen) ==
  {t \in Teams :
     \A S \in SUBSET Teams :
       (chosen \subseteq S /\ \A s \in S : teams[Source][s] # None => teams[Source][s].teams \subseteq S)
       => t \in S}

(* what a selection stands for: teams, agents and prompt families           *)
Resolved(sel) ==
  LET ts == IF sel.dependencies THEN TeamsWithNested(sel.teams) ELSE sel.teams
      members == UNION {teams[Source][t].agents : t \in ts}
      as == IF sel.dependencies THEN sel.agents \cup members ELSE sel.agents
  IN  [teams |-> ts, agents |-> as,
       families |-> IF sel.dependencies THEN {agents[Source][a].family : a \in {b \in as : agents[Source][b] # None}} ELSE {}]

(* every chosen and every needed entity exists, and every agent has a prompt *)
Resolvable(sel) ==
  LET ts == IF sel.dependencies THEN TeamsWithNested(sel.teams) ELSE sel.teams
  IN  /\ sel.agents \cup sel.teams # {}
      /\ \A t \in ts : teams[Source][t] # None
      /\ \A a \in sel.agents : agents[Source][a] # None
      /\ sel.dependencies =>
           \A a \in Resolved(sel).agents : agents[Source][a] # None /\ agents[Source][a].family # None

Select ==
  /\ run.at = "select"
  /\ LET sel == run.plan.selection
     IN  run' = IF sel = None
                THEN [run EXCEPT !.at = "exportPrompts"]
                ELSE IF Resolvable(sel) THEN [run EXCEPT !.at = "exportPrompts", !.chosen = Resolved(sel)]
                ELSE [run EXCEPT !.at = "ended", !.status = "failed"]
  /\ UNCHANGED <<defs, job, edits, mishaps, edited, emptied>>

Chosen(what) == IF run.plan.selection = None THEN {} ELSE run.chosen[what]
All == run.plan.selection = None

ExportPrompts ==
  /\ run.at = "exportPrompts"
  /\ run' = [run EXCEPT !.at = "exportAgents",
       !.bundle.prompts = IF "prompt" \in run.plan.scope
                          THEN {p \in prompts[Source] : All \/ p.family \in Chosen("families")} ELSE {}]
  /\ UNCHANGED <<defs, job, edits, mishaps, edited, emptied>>

ExportAgents ==
  /\ run.at = "exportAgents"
  /\ run' = [run EXCEPT !.at = "exportTeams",
       !.bundle.agents =
          {[name |-> a, row |-> agents[Source][a]] :
             a \in {b \in Agents : /\ "agent" \in run.plan.scope /\ agents[Source][b] # None
                                   /\ All \/ b \in Chosen("agents")}}]
  /\ UNCHANGED <<defs, job, edits, mishaps, edited, emptied>>

(* servers are exported without a selection only                            *)
ExportRest ==
  /\ run.at = "exportTeams"
  /\ run' = [run EXCEPT !.at = "next", !.left = run.plan.targets,
       !.bundle.teams =
          {[name |-> t, row |-> teams[Source][t]] :
             t \in {u \in Teams : /\ "team" \in run.plan.scope /\ teams[Source][u] # None
                                  /\ All \/ u \in Chosen("teams")}},
       !.bundle.servers =
          {[name |-> s, row |-> servers[Source][s]] :
             s \in {u \in Servers : "server" \in run.plan.scope /\ All /\ servers[Source][u] # None}}]
  /\ UNCHANGED <<defs, job, edits, mishaps, edited, emptied>>

(* a failure of a read at the source or of the request to it ends the run   *)
ExportFails ==
  /\ run.at \in {"select", "exportPrompts", "exportAgents", "exportTeams"} /\ Mishap
  /\ run' = [run EXCEPT !.at = "ended", !.status = "failed"]
  /\ UNCHANGED <<defs, job, edits, edited, emptied>>

-----------------------------------------------------------------------------
(* The coordinator: the targets in turn                                     *)

Result(t, answer) == [run EXCEPT !.at = "next", !.target = None, !.results[t] = answer]

ImportRequest ==
  [NoJob EXCEPT !.at = "prompt", !.bundle = run.bundle, !.policy = run.plan.policy, !.scope = run.plan.scope]

Send ==
  /\ run.at = "next" /\ run.left # <<>>
  /\ job' = [job EXCEPT ![run.no][Head(run.left)] = ImportRequest]
  /\ run' = [run EXCEPT !.at = "waiting", !.target = Head(run.left), !.left = Tail(@)]
  /\ UNCHANGED <<defs, edits, mishaps, edited, emptied>>

(* the target was not reached                                               *)
SendFails ==
  /\ run.at = "next" /\ run.left # <<>> /\ Mishap
  /\ run' = [Result(Head(run.left), "failed") EXCEPT !.left = Tail(@)]
  /\ UNCHANGED <<defs, job, edits, edited, emptied>>

Answered ==
  /\ run.at = "waiting" /\ job[run.no][run.target].at = "done"
  /\ run' = Result(run.target, IF job[run.no][run.target].failures = {} THEN "success" ELSE "failed")
  /\ UNCHANGED <<defs, job, edits, mishaps, edited, emptied>>

(* the connection broke: the import is taken for failed, and goes on        *)
AnswerLost ==
  /\ run.at = "waiting" /\ Mishap
  /\ run' = Result(run.target, "failed")
  /\ UNCHANGED <<defs, job, edits, edited, emptied>>

Status(results) ==
  LET ok == {t \in TargetsOf(run.plan) : results[t] = "success"}
  IN  IF ok = TargetsOf(run.plan) THEN "success" ELSE IF ok = {} THEN "failed" ELSE "partial-success"

End ==
  /\ run.at = "next" /\ run.left = <<>>
  /\ run' = [run EXCEPT !.at = "ended", !.status = Status(run.results)]
  /\ UNCHANGED <<defs, job, edits, mishaps, edited, emptied>>

-----------------------------------------------------------------------------
(* A target's import                                                        *)

After == [prompt |-> "agent", agent |-> "team", team |-> "server", server |-> "done"]
Incoming(j) == [prompt |-> j.bundle.prompts, agent |-> j.bundle.agents,
                team |-> j.bundle.teams, server |-> j.bundle.servers][j.at]

Onward(j) == IF j.left = {} THEN [j EXCEPT !.at = After[j.at], !.listed = FALSE, !.existing = {}] ELSE j
PutJob(r, t, j) == job' = [job EXCEPT ![r][t] = Onward(j)]
Imported(r, t, e) == PutJob(r, t, [job[r][t] EXCEPT !.left = @ \ {e}])
Failed(r, t, e) == PutJob(r, t, [job[r][t] EXCEPT !.left = @ \ {e}, !.failures = @ \cup {job[r][t].at}])

ThereIn(f) == {x \in DOMAIN f : f[x] # None}

(* what the target has when the entities of a kind come up; the list is not *)
(* read again.  A read that fails ends the import.                          *)
List(r, t) ==
  LET j == job[r][t]
      there == [prompt |-> {[id |-> p.id, family |-> p.family, version |-> p.version] : p \in prompts[t]},
                agent |-> ThereIn(agents[t]), team |-> ThereIn(teams[t]), server |-> ThereIn(servers[t])][j.at]
  IN  /\ j.at \in Kinds /\ ~j.listed
      /\ \/ /\ IF j.at \in j.scope
               THEN PutJob(r, t, [j EXCEPT !.listed = TRUE, !.left = Incoming(j), !.existing = there])
               ELSE PutJob(r, t, j)
            /\ UNCHANGED mishaps
         \/ j.at \in j.scope /\ Mishap /\ job' = [job EXCEPT ![r][t].at = "done", ![r][t].failures = {"thrown"}]
      /\ UNCHANGED <<defs, run, edits, edited, emptied>>

Next1(r, t, kind) == {e \in job[r][t].left : job[r][t].at = kind /\ job[r][t].listed}
Found(r, t, p) == {e \in job[r][t].existing : e.family = p.family /\ e.version = p.version}
Skips(r, t) == job[r][t].policy = "target_wins"

(* a prompt the target lacks becomes the next version of its family there,  *)
(* and active if it is active at the source                                 *)
CreateImported(r, t, p) ==
  LET new == NewPrompt(t, p.family, p.text)
      with == prompts[t] \cup {new}
  IN  /\ Found(r, t, p) = {}
      /\ lastId' = [lastId EXCEPT ![t] = @ + 1]
      /\ \/ /\ prompts' = [prompts EXCEPT ![t] = IF p.active THEN WithActive(with, new) ELSE with]
            /\ Imported(r, t, p) /\ UNCHANGED mishaps
         \/ /\ p.active /\ Mishap
            /\ prompts' = [prompts EXCEPT ![t] = with]
            /\ Failed(r, t, p)

(* (slip: an update does not activate)                                      *)
UpdateImportedOnly(r, t, p) ==
  \E e \in Found(r, t, p) :
    LET at == {q \in prompts[t] : q.id = e.id}
        changed == {IF q \in at THEN [q EXCEPT !.text = p.text] ELSE q : q \in prompts[t]}
    IN  /\ ~Skips(r, t)
        /\ prompts' = [prompts EXCEPT ![t] = changed]
        /\ IF at = {} THEN Failed(r, t, p) ELSE Imported(r, t, p)
        /\ UNCHANGED <<lastId, mishaps>>

(* one it has is updated, unless somebody removed it since the list, and    *)
(* activated likewise                                                       *)
UpdateImported(r, t, p) ==
  \E e \in Found(r, t, p) :
    LET at == {q \in prompts[t] : q.id = e.id}
        changed == {IF q \in at THEN [q EXCEPT !.text = p.text] ELSE q : q \in prompts[t]}
    IN  /\ ~Skips(r, t)
        /\ prompts' = [prompts EXCEPT ![t] = IF p.active /\ at # {} THEN WithActive(changed, e) ELSE changed]
        /\ IF at = {} THEN Failed(r, t, p) ELSE Imported(r, t, p)
        /\ UNCHANGED <<lastId, mishaps>>

(* the versions of a family come latest first                               *)
ImportPrompt(r, t) ==
  /\ \E p \in Next1(r, t, "prompt") :
       /\ \A q \in job[r][t].left : q.family = p.family => q.version <= p.version
       /\ \/ CreateImported(r, t, p)
          \/ UpdateImported(r, t, p)
          \/ Skips(r, t) /\ Found(r, t, p) # {} /\ Imported(r, t, p) /\ UNCHANGED <<prompts, lastId, mishaps>>
          \/ Mishap /\ Failed(r, t, p) /\ UNCHANGED <<prompts, lastId>>
  /\ UNCHANGED <<agents, teams, servers, run, edits, edited, emptied>>

(* (slip: the family of a new agent is not looked for)                      *)
TakenAsIs(t, row) == row.family # None

(* createAgentDefinition: the agent has a family and the family a prompt    *)
Takes(t, row) == row.family # None /\ FamilyOf(t, row.family) # {}

(* an existing agent's text changes even when its family then is refused    *)
ImportAgent(r, t) ==
  /\ \E e \in Next1(r, t, "agent") :
       LET name == e.name
           existing == name \in job[r][t].existing
           set(row) == agents' = [agents EXCEPT ![t][name] = row]
       IN  \/ /\ ~existing /\ agents[t][name] = None /\ Takes(t, e.row)
              /\ set(e.row) /\ Imported(r, t, e) /\ UNCHANGED mishaps
           \/ /\ ~existing /\ ~(agents[t][name] = None /\ Takes(t, e.row))
              /\ Failed(r, t, e) /\ UNCHANGED <<agents, mishaps>>
           \/ existing /\ Skips(r, t) /\ Imported(r, t, e) /\ UNCHANGED <<agents, mishaps>>
           \/ /\ existing /\ ~Skips(r, t) /\ UNCHANGED mishaps
              /\ CASE agents[t][name] = None -> Failed(r, t, e) /\ UNCHANGED agents
                   [] agents[t][name] # None /\ e.row.family = None ->
                        set([e.row EXCEPT !.family = agents[t][name].family]) /\ Imported(r, t, e)
                   [] agents[t][name] # None /\ e.row.family # None /\ Takes(t, e.row) ->
                        set(e.row) /\ Imported(r, t, e)
                   [] OTHER -> set([e.row EXCEPT !.family = agents[t][name].family]) /\ Failed(r, t, e)
           \/ Mishap /\ Failed(r, t, e) /\ UNCHANGED agents
  /\ UNCHANGED <<prompts, teams, servers, lastId, run, edits, edited, emptied>>

(* (slip: an existing team is replaced whatever the policy)                 *)
ImportTeamAlways(r, t) ==
  /\ \E e \in Next1(r, t, "team") :
       IF (e.name \in job[r][t].existing) = (teams[t][e.name] # None)
       THEN teams' = [teams EXCEPT ![t][e.name] = e.row] /\ Imported(r, t, e)
       ELSE Failed(r, t, e) /\ UNCHANGED teams
  /\ UNCHANGED <<prompts, agents, servers, lastId, run, edits, mishaps, edited, emptied>>

ImportTeam(r, t) ==
  /\ \E e \in Next1(r, t, "team") :
       LET existing == e.name \in job[r][t].existing
       IN  \/ existing /\ Skips(r, t) /\ Imported(r, t, e) /\ UNCHANGED <<teams, mishaps>>
           \/ /\ ~(existing /\ Skips(r, t)) /\ existing = (teams[t][e.name] # None)
              /\ teams' = [teams EXCEPT ![t][e.name] = e.row]
              /\ Imported(r, t, e) /\ UNCHANGED mishaps
           \/ /\ ~(existing /\ Skips(r, t)) /\ existing # (teams[t][e.name] # None)
              /\ Failed(r, t, e) /\ UNCHANGED <<teams, mishaps>>
           \/ Mishap /\ Failed(r, t, e) /\ UNCHANGED teams
  /\ UNCHANGED <<prompts, agents, servers, lastId, run, edits, edited, emptied>>

(* a server is configured: created or replaced                              *)
ImportServer(r, t) ==
  /\ \E e \in Next1(r, t, "server") :
       \/ Skips(r, t) /\ e.name \in job[r][t].existing /\ Imported(r, t, e) /\ UNCHANGED <<servers, mishaps>>
       \/ /\ ~(Skips(r, t) /\ e.name \in job[r][t].existing)
          /\ servers' = [servers EXCEPT ![t][e.name] = e.row]
          /\ Imported(r, t, e) /\ UNCHANGED mishaps
       \/ Mishap /\ Failed(r, t, e) /\ UNCHANGED servers
  /\ UNCHANGED <<prompts, agents, teams, lastId, run, edits, edited, emptied>>

-----------------------------------------------------------------------------
(* Users                                                                    *)

Edit(n) == edits < MaxEdits /\ edits' = edits + 1 /\ edited' = edited \cup {n}

EditPrompt(n) ==
  /\ Edit(n)
  /\ \E f \in Families, x \in Entered, active \in BOOLEAN :
       LET new == NewPrompt(n, f, x)
           with == prompts[n] \cup {new}
       IN  prompts' = [prompts EXCEPT ![n] = IF active THEN WithActive(with, new) ELSE with]
  /\ lastId' = [lastId EXCEPT ![n] = @ + 1]
  /\ UNCHANGED <<agents, teams, servers, run, job, mishaps, emptied>>

RemovePrompt(n) ==
  /\ Edit(n)
  /\ \E p \in prompts[n] :
       /\ prompts' = [prompts EXCEPT ![n] = @ \ {p}]
       /\ emptied' = IF FamilyOf(n, p.family) = {p} THEN emptied \cup {<<n, p.family>>} ELSE emptied
  /\ UNCHANGED <<agents, teams, servers, lastId, run, job, mishaps>>

EditAgent(n) ==
  /\ Edit(n)
  /\ \E a \in Agents :
       \/ agents' = [agents EXCEPT ![n][a] = None]
       \/ \E f \in Families, x \in Entered :
            FamilyOf(n, f) # {} /\ agents' = [agents EXCEPT ![n][a] = [text |-> x, family |-> f]]
  /\ UNCHANGED <<prompts, teams, servers, lastId, run, job, mishaps, emptied>>

Import(r, t) ==
  List(r, t) \/ ImportPrompt(r, t) \/ ImportAgent(r, t) \/ ImportTeam(r, t) \/ ImportServer(r, t)

SyncNext ==
  \/ \E plan \in Plans : StartRun(plan)
  \/ Checked \/ Unhealthy \/ Select \/ ExportPrompts \/ ExportAgents \/ ExportRest \/ ExportFails
  \/ Send \/ SendFails \/ Answered \/ AnswerLost \/ End
  \/ \E r \in RunIds, t \in Targets : Import(r, t)
  \/ \E n \in SyncNodes : EditPrompt(n) \/ RemovePrompt(n) \/ EditAgent(n)

SyncSpec == SyncInit /\ [][SyncNext]_syncVars

-----------------------------------------------------------------------------
(* Properties                                                               *)

Actives(P, f) == {p.text : p \in {q \in P : q.family = f /\ q.active}}

(* the bundle is on the target: every agent with its prompt family, every   *)
(* team and server, and the active prompt of every family                   *)
Arrived(t) ==
  /\ \A e \in run.bundle.agents :
       LET row == agents[t][e.name] IN row # None /\ row.text = e.row.text /\ e.row.family \in {None, row.family}
  /\ \A e \in run.bundle.teams : teams[t][e.name] = e.row
  /\ \A e \in run.bundle.servers : servers[t][e.name] = e.row
  /\ \A p \in run.bundle.prompts : p.active => Actives(prompts[t], p.family) = {p.text}

(* A target reported as successful, in a run whose source wins, has what    *)
(* the bundle says, unless its users or an earlier import changed it        *)
(* meanwhile; and a run is a success only if all its targets are.           *)
SuccessMeansArrived ==
  run.at \in {"next", "waiting", "ended"} /\ run.plan.policy = "source_wins" =>
    /\ \A t \in Targets : run.results[t] = "success" /\ t \notin edited => Arrived(t)
    /\ run.status = "success" => \A t \in TargetsOf(run.plan) : t \in edited \/ Arrived(t)

(* No import leaves an agent without a prompt: the family of every agent    *)
(* has prompts unless a user removed them, however the import of the        *)
(* prompts ended and whatever was selected.  And a bundle selected with its *)
(* dependencies needs nothing else: the members of its teams, nested ones   *)
(* included, and the prompts of its agents (unless users had removed them)  *)
(* are in it, unless users changed the source meanwhile.                    *)
ReferencesArrive ==
  /\ \A n \in SyncNodes : \A a \in ThereIn(agents[n]) :
       FamilyOf(n, agents[n][a].family) = {} => <<n, agents[n][a].family>> \in emptied
  /\ (/\ run.at \in {"next", "waiting"} /\ Source \notin edited /\ ~All
      /\ run.plan.scope = Kinds /\ run.plan.selection.dependencies) =>
        /\ \A e \in run.bundle.teams : /\ e.row.agents \subseteq Named(run.bundle.agents)
                                       /\ e.row.teams \subseteq Named(run.bundle.teams)
        /\ \A e \in run.bundle.agents :
             \/ \E p \in run.bundle.prompts : p.family = e.row.family
             \/ <<Source, e.row.family>> \in emptied

(* An import whose target wins changes no agent, team or prompt text that   *)
(* is there, also one that came after it read what is there.                *)
TargetWinsKeeps ==
  [][\A r \in RunIds, t \in Targets :
       job[r][t].policy = "target_wins" /\ job'[r][t] # job[r][t] =>
         /\ \A a \in ThereIn(agents[t]) : agents'[t][a] = agents[t][a]
         /\ \A x \in ThereIn(teams[t]) : teams'[t][x] = teams[t][x]
         /\ \A p \in prompts[t] : \E q \in prompts'[t] : q.id = p.id /\ q.text = p.text]_syncVars
=============================================================================
