------------------------------ MODULE TeamMembers ------------------------------
(****************************************************************************)
(* The members of a team on their way through two nodes: what a user        *)
(* configured for them, what each is built from on the host, what the run's *)
(* manifest keeps of it, what is built from that after a restart, and what  *)
(* a worker builds from the bootstrap of a run that has members at home     *)
(* there.                                                                   *)
(*                                                                          *)
(* The operations are atomic here: that calls overlap is the subject of     *)
(* Definitions, RunHistory and WorkerRun.  A member's model, its settings   *)
(* and whether its tools run unasked are one value; a workspace's id is its *)
(* node and its root, and is known while that node lives.  Every bootstrap  *)
(* is that of a new run of the team.  Left out: names, roles, descriptions, *)
(* tools, prompts and skills of an agent, and models that cannot be made.   *)
(****************************************************************************)
EXTENDS Naturals, Sequences

CONSTANTS
  Host, Worker,
  Embedded,   \* "embedded-local", the home of what stays where it is
  TeamIds,    \* ids of team definitions, in the order in which a node gives them
  Dossiers,   \* the teams to be looked at, with what both nodes know at the start
  NoText,     \* an empty string
  Missing,    \* null or undefined
  Gone,       \* a definition that was deleted: its id is not given again
  MaxDepth    \* bound: how deep the members of a team lie

Nodes == {Host, Worker}

VARIABLES
  dossier,    \* what the user asks for: the team, its configurations, and the later edition
  teamDefs,   \* per node and id, a team definition, Missing or Gone
  crew,       \* per node, the team in its runtime, or Missing
  record,     \* the run's manifest, once it is made
  opened,     \* per node, the roots of its workspaces
  mappedId,   \* workerTeamDefinitionIdByHostTeamDefinitionId
  edited      \* history: what was built or mapped before a definition was changed

teamVars == <<dossier, teamDefs, crew, record, opened, mappedId, edited>>

TeamInit ==
  /\ dossier \in Dossiers
  /\ teamDefs = dossier.defs
  /\ crew = [n \in Nodes |-> Missing]
  /\ record = [made |-> FALSE, team |-> Missing, bindings |-> <<>>]
  /\ opened = [n \in Nodes |-> dossier.opened[n]]
  /\ mappedId = Missing
  /\ edited = {}

-----------------------------------------------------------------------------
(* Configurations of members                                                *)

Stated(value) == IF value = NoText THEN Missing ELSE value

(* the route key and the memory identity a configuration has by default     *)
Runtime(config) ==
  LET key == IF config.key = Missing THEN <<config.name>> ELSE config.key
  IN  [config EXCEPT !.key = key,
                     !.id = IF Stated(@) = Missing THEN <<"member", key>> ELSE @,
                     !.root = Stated(@)]

RuntimeConfigs == [i \in DOMAIN dossier.configs |-> Runtime(dossier.configs[i])]

(* the root of a workspace of the host, as the manifest keeps it            *)
RootOf(config) ==
  IF config.root # Missing THEN config.root
  ELSE IF Stated(config.place) \in {<<Host, r>> : r \in opened[Host]} THEN config.place[2] ELSE Missing

(* the manifest's member binding                                            *)
Binding(config) ==
  [name |-> config.name, key |-> config.key, id |-> config.id, model |-> config.model, root |-> RootOf(config)]

(* the configuration a binding is restored to: with the workspace that was  *)
(* opened for its root, and no root                                         *)
Restored(binding) ==
  [name |-> binding.name, key |-> binding.key, id |-> binding.id, model |-> binding.model, root |-> Missing,
   place |-> IF binding.root = Missing THEN Missing ELSE <<Host, binding.root>>]

(* normalizeBootstrapMemberBindingSnapshot: refused with an id that is empty *)
Receivable(configs) == \A i \in DOMAIN configs : configs[i].place # NoText

Received(config) == [config EXCEPT !.root = Stated(@), !.id = Stated(@)]

-----------------------------------------------------------------------------
(* Building a team                                                          *)

(* the one map from names and route keys: a later entry replaces an earlier *)
Listed(configs, key) == {i \in DOMAIN configs : key \in {<<configs[i].name>>, configs[i].key}}
Latest(S) == CHOOSE i \in S : \A j \in S : j <= i
NameOf(key) == <<key[Len(key)]>>

(* (slip: the member's name is looked up before its route key)              *)
ConfigByName(configs, key) ==
  {configs[Latest(S)] : S \in {IF Listed(configs, NameOf(key)) # {} THEN Listed(configs, NameOf(key))
                               ELSE Listed(configs, key)} \ {{}}}

ConfigFor(configs, key) ==
  {configs[Latest(S)] : S \in {IF Listed(configs, key) # {} THEN Listed(configs, key)
                               ELSE Listed(configs, NameOf(key))} \ {{}}}

(* isMemberLocalToNode                                                      *)
Near(home, n) == home \in {Missing, Embedded, n}

(* a workspace that is given by an id the node does not know is done without *)
Workplace(n, home, config, known) ==
  IF Stated(config.place) # Missing
  THEN IF config.place \in {<<n, r>> : r \in known} THEN config.place[2] ELSE Missing
  ELSE IF Near(home, n) THEN config.root ELSE Missing

Member(n, node, key, config, known) ==
  [key |-> key, as |-> config.key, agent |-> node.ref, home |-> node.home, model |-> config.model,
   id |-> config.id, root |-> Workplace(n, node.home, config, known)]

(* a member at home on a node that is not called embedded needs a workspace  *)
Placeless(n, node, config) == node.home = n /\ Stated(config.place) = Missing /\ config.root = Missing

(* The ways down from a team: its nodes, and further down those of the teams *)
(* among them, as long as their definitions are known                       *)
Known(defs) == {id \in TeamIds : defs[id] \notin {Missing, Gone}}
TeamAt(team, way, i) == IF i = 1 THEN team ELSE way[i - 1].ref

Ways(defs, team) ==
  LET nodes == UNION {defs[id].nodes : id \in Known(defs)}
  IN  {way \in UNION {[1 .. depth -> nodes] : depth \in 1 .. MaxDepth} :
         \A i \in DOMAIN way :
           /\ i > 1 => way[i - 1].kind = "team"
           /\ TeamAt(team, way, i) \in Known(defs) /\ way[i] \in defs[TeamAt(team, way, i)].nodes}

NodeAt(way) == way[Len(way)]
KeyOf(way) == [i \in DOMAIN way |-> way[i].name]
Above(team, way) == {TeamAt(team, way, i) : i \in DOMAIN way}

(* a team that is known, with an agent as its lead                          *)
Led(defs, team) ==
  team \in Known(defs) /\ \E node \in defs[team].nodes : node.name = defs[team].lead /\ node.kind = "agent"

Buildable(n, defs, team, configs) ==
  /\ Led(defs, team)
  /\ \A way \in Ways(defs, team) :
       LET node == NodeAt(way)
       IN  IF node.kind = "team" THEN Len(way) < MaxDepth /\ node.ref \notin Above(team, way) /\ Led(defs, node.ref)
           ELSE /\ node.ref \in dossier.agents[n]
                /\ \E config \in ConfigFor(configs, KeyOf(way)) : ~Placeless(n, node, config)

Built(n, defs, team, configs, known) ==
  UNION {{Member(n, NodeAt(way), KeyOf(way), config, known) : config \in ConfigFor(configs, KeyOf(way))} :
           way \in {w \in Ways(defs, team) : NodeAt(w).kind # "team"}}

(* history: how a team came to be                                           *)
HowAtHost(restored) == [restored |-> restored, of |-> {}, clean |-> TRUE]

Assembled(n, defs, team, configs, known, how) ==
  LET members == Built(n, defs, team, configs, known)
  IN  /\ crew' = [crew EXCEPT ![n] = [team |-> team, configs |-> configs, members |-> members, how |-> how]]
      /\ opened' = [opened EXCEPT ![n] = known \cup ({m.root : m \in members} \ {Missing})]

-----------------------------------------------------------------------------
(* The host                                                                 *)

CreateTeamRun ==
  /\ ~record.made /\ Buildable(Host, teamDefs[Host], dossier.team, RuntimeConfigs)
  /\ Assembled(Host, teamDefs[Host], dossier.team, RuntimeConfigs, opened[Host], HowAtHost(FALSE))
  /\ record' = [made |-> TRUE, team |-> dossier.team,
                 bindings |-> [i \in DOMAIN RuntimeConfigs |-> Binding(RuntimeConfigs[i])]]
  /\ edited' = edited \ {"team"}
  /\ UNCHANGED <<dossier, teamDefs, mappedId>>

(* from the bindings of the manifest and the definition as it is now        *)
RestoreWith(configs) ==
  LET known == opened[Host] \cup ({record.bindings[i].root : i \in DOMAIN record.bindings} \ {Missing})
  IN  /\ Buildable(Host, teamDefs[Host], record.team, configs)
      /\ Assembled(Host, teamDefs[Host], record.team, configs, known, HowAtHost(TRUE))
      /\ edited' = edited \ {"team"}
      /\ UNCHANGED <<dossier, teamDefs, record, mappedId>>

RestoreTeamRun ==
  /\ crew[Host] = Missing /\ record.made
  /\ RestoreWith([i \in DOMAIN record.bindings |-> Restored(record.bindings[i])])

Changed(n, id, def) == teamDefs' = [teamDefs EXCEPT ![n][id] = def]

(* a user of the host changes the team's definition                         *)
EditTeam ==
  /\ teamDefs[Host][dossier.team] # dossier.edition
  /\ Changed(Host, dossier.team, dossier.edition)
  /\ edited' = edited \cup (IF crew[Host] # Missing THEN {"team"} ELSE {})
                      \cup (IF mappedId # Missing THEN {"mapping"} ELSE {})
  /\ UNCHANGED <<dossier, crew, record, opened, mappedId>>

(* what the user opened is opened again if there is no team yet             *)
HostRestart ==
  IF ~record.made THEN UNCHANGED teamVars
  ELSE /\ crew' = [crew EXCEPT ![Host] = Missing]
       /\ opened' = [opened EXCEPT ![Host] = {}]
       /\ edited' = edited \ {"team"}
       /\ UNCHANGED <<dossier, teamDefs, record, mappedId>>

-----------------------------------------------------------------------------
(* The worker                                                               *)

(* serializeTeamDefinitionSnapshot and what is made of it again: the nested *)
(* teams are not in it                                                      *)
AtHome(node) == [node EXCEPT !.home = IF Stated(@) = Missing THEN Embedded ELSE @]
Snapshot(def) == [def EXCEPT !.nodes = {AtHome(node) : node \in @}]

(* the order of the members and the name do not matter                      *)
Signature(def) == {AtHome(node) : node \in def.nodes}
MatchesSnapshot(def, snapshot) == def.lead = snapshot.lead /\ Signature(def) = Signature(snapshot)

KnownIds == Known(teamDefs[Worker])
Lowest(S) == CHOOSE id \in S : \A other \in S : id <= other

Namesakes(snapshot) ==
  {id \in KnownIds : teamDefs[Worker][id].title = snapshot.title /\ teamDefs[Worker][id].lead = snapshot.lead}

(* The definition a host's id stands for: the one it was mapped to, as long *)
(* as that exists; the worker's own of the same id; one of the same name    *)
(* and lead; or a new one.                                                  *)
WorkerId(hostId, snapshot) ==
  IF mappedId \in KnownIds THEN mappedId
  ELSE IF hostId \in KnownIds THEN hostId
  ELSE IF Namesakes(snapshot) # {} THEN Lowest(Namesakes(snapshot))
  ELSE Lowest({id \in TeamIds : teamDefs[Worker][id] = Missing})

(* a definition that was mapped before is taken as it is, any other is made *)
(* to match                                                                 *)
MadeToMatch(id, snapshot) ==
  IF id \in KnownIds /\ (mappedId = id \/ MatchesSnapshot(teamDefs[Worker][id], snapshot))
  THEN teamDefs[Worker][id] ELSE snapshot

(* memberBindingsMatch: in any order                                        *)
SameBindings(a, b) == Len(a) = Len(b) /\ {a[i] : i \in DOMAIN a} = {b[i] : i \in DOMAIN b}

(* A team of that definition and these bindings is used again, one of other *)
(* bindings ends before the new one is built.                               *)
TeamFor(id, defs, configs, how) ==
  LET there == crew[Worker] # Missing /\ crew[Worker].team = id
  IN  IF there /\ SameBindings(crew[Worker].configs, configs) THEN UNCHANGED <<crew, opened>>
      ELSE IF Buildable(Worker, defs, id, configs)
      THEN Assembled(Worker, defs, id, configs, opened[Worker], how)
      ELSE crew' = (IF there THEN [crew EXCEPT ![Worker] = Missing] ELSE crew) /\ UNCHANGED opened

(* what the host puts into the envelope                                     *)
HostConfigs == crew[Host].configs
ReceivedConfigs == [i \in DOMAIN HostConfigs |-> Received(HostConfigs[i])]
HostSnapshot == Snapshot(teamDefs[Host][crew[Host].team])

(* the teams below a team; and the worker's own definitions of those        *)
Subteams(defs, team) == {NodeAt(way).ref : way \in {w \in Ways(defs, team) : NodeAt(w).kind = "team"}}
SubteamsAlike(defs) ==
  \A id \in Subteams(teamDefs[Host], crew[Host].team) :
    id \in Known(defs) /\ Signature(defs[id]) = Signature(teamDefs[Host][id])

(* The envelope and its handler.  What is done to the worker's definitions  *)
(* stays, also if the bindings are refused then.  Bound: there is an id     *)
(* left for a new definition.                                               *)
Bootstrap ==
  LET id == WorkerId(crew[Host].team, HostSnapshot)
      defs == [teamDefs[Worker] EXCEPT ![id] = MadeToMatch(id, HostSnapshot)]
      others == IF mappedId = id THEN edited ELSE edited \ {"mapping"}
      how == [restored |-> crew[Host].how.restored, of |-> crew[Host].members,
              clean |-> others = {} /\ SubteamsAlike(defs)]
  IN  /\ crew[Host] # Missing /\ \E free \in TeamIds : teamDefs[Worker][free] = Missing
      /\ teamDefs' = [teamDefs EXCEPT ![Worker] = defs]
      /\ mappedId' = id /\ edited' = others
      /\ IF Receivable(HostConfigs)
         THEN TeamFor(id, defs, ReceivedConfigs, how)
         ELSE UNCHANGED <<crew, opened>>
      /\ UNCHANGED <<dossier, record>>

(* a user of the worker changes or deletes the definition that is mapped    *)
WorkerEdit ==
  /\ mappedId \in KnownIds
  /\ \/ teamDefs[Worker][mappedId] # dossier.edition /\ Changed(Worker, mappedId, dossier.edition)
     \/ Changed(Worker, mappedId, Gone)
  /\ edited' = edited \cup {"mapping"}
  /\ UNCHANGED <<dossier, crew, record, opened, mappedId>>

WorkerRestart ==
  /\ mappedId # Missing
  /\ crew' = [crew EXCEPT ![Worker] = Missing]
  /\ opened' = [opened EXCEPT ![Worker] = {}]
  /\ mappedId' = Missing /\ edited' = edited \ {"mapping"}
  /\ UNCHANGED <<dossier, teamDefs, record>>

TeamRequest == CreateTeamRun \/ RestoreTeamRun \/ EditTeam \/ Bootstrap

TeamNext == TeamRequest \/ HostRestart \/ WorkerEdit \/ WorkerRestart

TeamSpec == TeamInit /\ [][TeamNext]_teamVars

(* A definition has its fields, and so have its members.                    *)
IsNode(node) == node = [name |-> node.name, kind |-> node.kind, ref |-> node.ref, home |-> node.home]
Proper(def) ==
  /\ def = [title |-> def.title, lead |-> def.lead, nodes |-> def.nodes]
  /\ \A node \in def.nodes : IsNode(node)
  /\ {def, Snapshot(def)} \cap {Missing, Gone} = {}

(* and so has a configuration; identities are not empty, and the id of a    *)
(* workspace is neither empty nor missing                                   *)
IsConfig(config) ==
  /\ config = [name |-> config.name, key |-> config.key, id |-> config.id, model |-> config.model,
               place |-> config.place, root |-> config.root]
  /\ Runtime(config).id # NoText
  /\ <<Host, config.root>> \notin {NoText, Missing}

ASSUME TeamMembersAssumption ==
  /\ Host # Worker /\ Worker \notin {Embedded, NoText, Missing}
  /\ TeamIds \subseteq Nat /\ Missing \notin TeamIds /\ MaxDepth \in Nat
  /\ NoText # Missing
  /\ \A d \in Dossiers :
       /\ d.team \in TeamIds /\ Proper(d.edition)
       /\ d.defs = [n \in Nodes |-> [id \in TeamIds |-> d.defs[n][id]]]
       /\ \A n \in Nodes : \A id \in Known(d.defs[n]) : Proper(d.defs[n][id])
       /\ d.configs \in Seq({d.configs[i] : i \in DOMAIN d.configs})
       /\ \A i \in DOMAIN d.configs : IsConfig(d.configs[i])
       /\ \A r \in d.opened[Host] : <<Host, r>> \notin {NoText, Missing}

-----------------------------------------------------------------------------
(* Property                                                                 *)

(* The configurations meant for a member: those of its route key, or else   *)
(* those listed under its name.  One whose name is the route key of another *)
(* member must not be listed after that member's.                           *)
Wanted == RuntimeConfigs
Own(key) == {i \in DOMAIN Wanted : Wanted[i].key = key}
Meant(key) ==
  {Wanted[i] : i \in IF Own(key) # {} THEN Own(key) ELSE Listed(Wanted, NameOf(key))}
Shadowed(key) ==
  \E i \in Own(key), j \in DOMAIN Wanted : i < j /\ <<Wanted[j].name>> = key /\ Wanted[j].key # key

Alike(m, config) == m.model = config.model /\ m.id = config.id

(* given by its root, or by the id of one that was open; not by both        *)
PlaceMeant(config) ==
  IF config.root # Missing THEN config.root
  ELSE IF config.place \in {<<Host, r>> : r \in dossier.opened[Host]} THEN config.place[2] ELSE Missing

(* what a member of the host must be, and what that of the worker must be   *)
(* for it                                                                   *)
RightAtHost(m) ==
  Shadowed(m.key) \/ \E config \in Meant(m.key) :
    /\ Alike(m, config)
    /\ \/ m.root = PlaceMeant(config)
       \/ ~Near(m.home, Host)
       \/ config.root # Missing /\ config.place # Missing

RightAtWorker(m, w, restored) ==
  /\ w.key = m.key /\ w.as = m.as /\ w.agent = m.agent /\ w.model = m.model /\ w.id = m.id
  /\ \/ Shadowed(m.key) \/ restored
     \/ \E config \in Meant(m.key) : config.place # Missing \/ w.root = config.root

(* Every member works with what the user configured for it: its model, its  *)
(* memory identity and its workspace; on the host also when the team was    *)
(* restored from its manifest, and on the worker where a member is at home, *)
(* if no definition was changed since it was built or mapped and the worker *)
(* knows the nested teams, which it is not told of, as the host does.  The  *)
(* worker does not know a workspace that was given by the host's id of it,  *)
(* which after a restoration is all of them.                                *)
MembersAsConfigured ==
  /\ crew[Host] # Missing => \A m \in crew[Host].members : RightAtHost(m)
  /\ crew[Worker] # Missing /\ crew[Worker].how.clean =>
       \A m \in crew[Worker].how.of : m.home = Worker =>
         \E w \in crew[Worker].members : RightAtWorker(m, w, crew[Worker].how.restored)
=============================================================================
