# Models and proofs of the AutoByteus server

TLA+ modules for the TypeScript server under `src/src`, the TLC configurations
that check them on small instances, and proofs that TLAPS checks for every value
of the constants. Source paths below are relative to `src/src`. PROJECT.json
maps every definition to the lines it stands for.

## 1. The system

A server is a node. It keeps prompts, agents, teams and MCP servers in a
database behind caches, skills and run histories in files, creates runtime
agents and teams with the external `autobyteus-ts` library, and serves them over
GraphQL, REST and WebSockets. Nodes find each other through a registry, one can
synchronise its definitions to others, and a team's members may be placed on
other nodes: the node where the team was created is the *host* of its run, the
others are *workers*. Node.js runs one callback at a time, so the only
interleaving points are awaits; between nodes there is HTTP with timeouts and
retries.

    user socket ──> TeamStream / ToolApproval ──> TeamRun ──> RoutingAdapter
        ^                 ^                          ^             │
        │                 │ rebroadcast    placement │             v
        └──── aggregator <┴── EventUplink    Discovery      CommandBridge (HTTP)
                 (host)          (HTTP)                            │
                                   └── WorkerRun <─────────────────┘
                                          │  members as in TeamMembers
    messaging gateway ──> ExternalChannel (over ThreadLock) ──> agent or team
            ^                                                        │
            └───────────────────── replies ──────────────────────────┘
    GraphQL, agent tools ──> Definitions, Skills ──> NodeSync ──> other nodes
    sockets, GraphQL ──> RunHistory (rows and manifests), FileExplorer

### Components modelled

| component | state | operations | what is hard | what makes it correct |
|---|---|---|---|---|
| control plane: `team-run-repository`, `team-run-orchestrator`, `run-degradation-policy`, `team-run-locator` | run records, index and version counter by definition, adapters, failure windows, locator maps | resolve or start a run, dispatch, degrade, stop, look up | an await between the check for a run and its start; answers that arrive after their run was replaced; teams of one definition share a run | one active run per definition, always reachable; rising versions; health kept twice agrees |
| node bridge: `host-node-bridge-client`, `command-retry-policy`, `worker-node-bridge-server`, the command route | attempts and outcome of a command; processed ids | send, abort after 6 s, retry, deduplicate, execute | lost and late requests, retries beside an attempt still running, restarts that forget the ids | "delivered" means executed; a success is not repeated; a send ends |
| worker: `remote-member-execution-gateway`, `remote-envelope-*-handlers`, `worker-run-lifecycle-coordinator`, `run-scoped-team-binding-registry`, `agent-team-instance-manager` | bindings, tracked runs, forwarders, teams by definition | bootstrap, member commands, stop, restart | five awaits inside a bootstrap; failures half way | a bound run is tracked and forwarded; it never works with another run's configuration |
| routing adapter: `team-routing-port-adapter` | ready nodes, bootstraps in flight | dispatch, bootstrap on first use, control stop | commands that share a bootstrap which fails | no command before a bootstrap; everyone is answered |
| event uplink: lifecycle coordinator, `worker-event-uplink-client`, the event route, `run-version-fencing-policy`, `remote-event-idempotency-policy`, `team-event-aggregator` | forwarder loops, POSTs under way, idempotency entries, numbers | forward, replace, close, fence, deduplicate, number | an aborted POST that is handled all the same; replacing a loop over an await; a bounded map shared by all runs | one loop at a time; order kept; once per window; closing ends |
| team stream: `agent-team-stream-handler`, `agent-session-manager`, `remote-event-rebroadcast-service` | sessions, queues, the counter of a run | connect, stream, rebroadcast, disconnect | loops and remote events share one counter while runs change under them | numbers never go back and name one event |
| tool approvals: `team-command-ingress-service`, `tool-approval-concurrency-policy`, the stream handler | pending invocations, tokens, answers | issue, validate, dispatch, complete | validate, await, complete; several users; runs replaced | a shown token stays good |
| external channel: `channel-thread-lock-service`, `channel-ingress-service`, `reply-callback-service`, SQL providers, publisher, two agent processors | idempotency keys, queue tails, receipts, callback keys, delivery events, binding | post, wait in turn, dispatch, bind the turn, reply, report | duplicates, timeouts in the queue, expiring keys, two writers of a receipt, failures at every await | dispatched once, in turn, no silent loss, replies traced |
| discovery: `discovery/`, `node-directory`, placement, catalogue addressing | peers and their status, directory, registration, heartbeats and synchronisations in flight | register, beat, synchronise, expire, bridge, place a member, rewrite an uplink address | overlapping synchronisations, expiry against heartbeats, a node that comes back elsewhere | directories say what the registries say, and in the end what is so |
| definitions: services, cached providers and converters of prompts, agents, teams and MCP servers, prompt mapping, prompt loader, tool registry, GraphQL resolvers, agent tools | rows, caches, reads under way, templates, registered tools | every query, mutation and tool; start of an agent, of the server | writes that race the first read of a cache; two rows for one thing; failures half way; network calls between read and use | caches agree with the database, one active prompt per family, agents have prompts, templates and tools are current |
| prompt tools' parser: `agent-tools/prompt-engineering/states` | what was buffered, which tag was seen | feed a chunk | a chunk may end anywhere | the text that is read is the text that was written |
| skills: `skills/`, their tools and resolvers | folders, manifests, repositories, disabled list, sources, both with their files | create, update, upload, delete, version, enable, disable, sources | several files per skill; lists in memory and on disk | a folder is a skill that loads; settings survive restarts |
| team members: `agent-team-instance-manager`, `team-run-history-service`, payload normalisation, worker definition resolution, workspaces | definitions of two nodes, a team's configuration, its manifest, what each member was built from | create, restore, bootstrap, change a definition, restart | configurations found by name or key, copied four times | each member has its own configuration, memory and workspace |
| synchronisation: `sync/` | definitions of all nodes, a run of the coordinator, the imports at work | preflight, select, export, import of each kind, users' edits | imports that outlive their request; edits under way | success means arrived; references arrive; a winning target keeps |
| run history: `run-history/`, continuation, `agent-run` and team resolvers, the streams that record | index files, manifests, write queues, live runs | create, continue, terminate, delete, list, rebuild, record | whole-file rewrites by two stores; late events; crashes | rows stay until deleted, deleted runs stay away, terminated ones are idle |
| file explorer: `file-explorer/`, `file-name-indexer`, `file-explorer-streaming` | disk, tree, index, watcher, queues, batches, sessions | read, write, create, move, rename, remove, watch, index, stream | deletions kept back to find moves; unlocked tree; sessions that come and go | tree and index are the disk; a session hears every change |

### Components not modelled

* **Transport security** (`distributed/security`): signature and skew checks; a
  refusal is a refused request in CommandBridge and EventUplink.
* **Terminal streaming**: a pass-through between a socket and a pseudo terminal.
* **Models, media and applications**: provider reloads and file storage.
* Of agents and teams themselves, what the external library does; of **single
  agent streaming**, the messages a socket sends; **memory views**, **artifacts**,
  **token usage**: pure I/O or glue. PROJECT.json says of each component what is
  left out.

## 2. Modules

An action is the code between two awaits whose outcome another callback can
influence. Formatting, validation and payload data are left out. A definition
whose comment starts with "(slip:" is a plausible mistake in the one after it;
no specification uses it, it documents what a property would catch.

**Distributed runs**

* **RunLease**: the abstract promise of the control plane. A definition has no
  run or one; runs get rising versions, may degrade once, and only a degraded
  one is taken away.
* **TeamRun** implements RunLease. A command is a request in flight, suspended
  at the definition read (`resolveOrCreateRun`), at `onRunResolved`, at the
  adapter's delivery or at an automatic stop. Inter-agent messages take the path
  of a user message.
* **CommandBridge**: the attempts of every envelope and the server's set of ids.
  A request that is lost stays "sent" for ever; an aborted one may still arrive.
* **WorkerRun** EXTENDS CommandBridge: handlers begin with `Execute`, end with
  `Complete` or `Refuse` and are cut off by `Restart`. All runs are of one
  worker definition: a worker maps the definitions of all hosts by name, so
  several runs of one definition are normal, and definitions share nothing.
  What a team does when it is handed a message after it was stopped is the
  external library's business.
* **RoutingAdapter**: `ensureRemoteNodeReadyForRun`, its shared promise, and the
  control stop that visits the nodes in turn.
* **HostToWorker** EXTENDS RoutingAdapter and CommandBridge: a step in which the
  adapter's promise is made or settles is a step of the bridge's client too.
* **EventUplink**: one run's events between the worker's forwarders and the
  host's log. Handlers are bootstraps and stops in the part that replaces or
  tears down the forwarder.
* **TeamConnections**: what the sockets of a definition see of its runs, its
  active run and the last one started. TeamStream and ToolApproval EXTEND it.
* **TeamStream**: sessions, queues and the counter. The event route awaits only
  microtasks between fence, numbering and rebroadcast, so that is one step. A
  sub-team's nested events are left out.
* **ToolApproval**: tokens, pending invocations and answers. The invocation
  version is 1 everywhere in the code.
* **Discovery**: the registry and its clients, the directory and the placement
  of a member. Time is the status of a record, moved on by maintenance ticks.
* **TeamMembers**: a team's members on their way from the user's configuration
  over host, manifest and bootstrap to the worker. Operations are atomic here. The
  code's recursion over nested teams is the set of ways down from a team.

**Conversations, histories, files**

* **ThreadLock**: the chain of promises of one key, in which a call that times
  out runs its `finally` while `releaseCurrentTail` is still the initial no-op.
* **ExternalChannel** EXTENDS ThreadLock: one route with its requests, turns and
  replies; every database call and post may fail.
* **RunHistory**: a caller is at one of the awaits of its call; a store is a
  queue of tasks, each with a read and a write of the whole index.
* **FileExplorer**: the tree is the sequence of its nodes. chokidar reports a
  path that it has not seen and that is there, or the reverse, whenever it looks.

**Definitions and skills**

* **Definitions**: rows, caches, mappings, templates, registered tools. A request
  advances at its awaits (`Advance`); a failure is a `Fault`.
* **DefinitionTools** EXTENDS Definitions: each GraphQL operation and agent tool
  as the sequence of requests it makes. A mutation and a tool with the same
  purpose differ in their reads and in the fields they leave out.
* **PromptToolParser**: the parsing states of the prompt tools over a small
  alphabet in which tags and markers are two or three symbols, so that a chunk
  may end inside every one of them.
* **Skills**: folders, manifests, repositories and the two settings.
* **AgentTools** EXTENDS those and TeamMembers: one node with all of them; what
  the parser picked out is what the tool is called with, and a restart hits all.
* **NodeSync**: a coordinator, targets and their imports. An entity is imported in
  one step; what its service does meanwhile is in Definitions.

**TeamRunProofs** (the control plane and the event uplink), **RemoteRunsProofs**
(the bridge, the routing adapter, the host over the bridge, the worker),
**TeamConnectionsProofs** (streams and approvals), **ExternalChannelProofs** (with
the thread lock), **NodeServicesProofs** (discovery and synchronisation),
**RunHistoryProofs**, **DefinitionsProofs** (definitions, skills, team members) and
**FileExplorerProofs** hold the theorems, the **MC…** modules the model values for
TLC.

Where modules are composed by EXTENDS the outer module's actions conjoin the
inner ones, so the composition implements the inner modules: ImplementsBridge says
it of WorkerRun, CompositionImplementsBoth of HostToWorker and ChannelUsesTheLock
of ExternalChannel (theorems).
The other boundaries are assumptions of one module that are properties of
another:

| assumption | established by |
|---|---|
| WorkerRun's `MaySend`: hosts send no command before a bootstrap | HostToWorker: HostAndWorkerAgree (theorem HostKnowsTheWorker) |
| RoutingAdapter: a delivery ends | HostToWorker: DispatchEnds over the bridge's own retries |
| a dispatch in TeamRun and ToolApproval is answered or fails | HostToWorker: DispatchEnds |
| runs of TeamStream and ToolApproval: at most one, rising versions | TeamRun: ImplementsLease (theorem Refinement) |
| placement refuses a start in TeamRun or yields a node | Discovery: RoutesFollowPeers (theorem DirectoryFollowsPeers) |
| NodeSync: an import of an entity is one step | Definitions: CacheIsDatabase, OneActivePerFamily, AgentHasPrompt |

## 3. Runs

Deadlock checking is off where the bounded system comes to rest; TeamRun and
Discovery never do, and are checked for deadlock.

| run | instance | question |
|---|---|---|
| team_run | 3 teams of 2 definitions, 2 commands, 2 runs, thresholds 1 and 2 | do repository, policy and locator stay consistent over every await, and implement RunLease? |
| worker_run | 2 runs with different member bindings; of the first a bootstrap that is retried, a message and a stop; 2 teams, 1 restart | does a run only work with its own configuration, is it whole at rest, is the worker a command bridge? |
| host_to_worker | 2 commands for one worker, 2 attempts each, 1 restart | is nothing executed before a bootstrap, are reports true and successes final, is everybody answered? |
| event_uplink | 2 handlers, 2 events, 1 of another run, capacity 2 | one forwarder, right order, accepted once, closing ends? |
| team_stream | 2 teams and 2 runs of one definition, 2 connections, 3 commands, 1 local event per team, 2 remote ones | do numbers only rise, and name one event? |
| tool_approval | 2 connections, a local and a remote invocation, 2 runs | does a token stay good until an answer was accepted? |
| external_channel | a message posted twice and another, an agent and its team, 1 rebinding, 2 responses, 1 expiring key | dispatched once, in turn, not lost silently, replies traced? |
| discovery | a registry, 2 clients that share ports of a machine, 2 overlapping synchronisations, 2 faults | do directories follow the registries at every moment and the world in the end? |
| definitions | 2 callers that between them use every operation and tool, in pairs; 3 prompts, 2 agents, 1 team, 1 MCP server, 2 faults; a call of a prompt tool cut anywhere; 4 operations on skills in 3 directories; 7 on one of 7 teams of two nodes | do caches, mappings, templates, tools, skills, settings and members agree with what was asked for, and does every call end? |
| node_sync | a source with a team in a team, a target with definitions of its own, an empty one; 2 runs of 4 plans, one of which is refused; 1 edit, 1 failure | what do a success, a selection and target_wins mean? |
| run_history | 2 agents and a team, 2 callers, 1 socket, 2 calls, 1 event, 1 failure or crash | whose rows does the index keep, and what stays deleted? |
| explorer | 2 files, a directory with one of the same name, an ignored file; budget 3 | do tree and index end as the disk, and is every change heard? |

**Why the bounds suffice.** In team_run two teams of one definition are what
sharing a run takes, the third separates definitions, two commands are what
every race here takes, and two runs give one replacement; the failure counters
saturate at their thresholds. In worker_run the retry puts two bootstraps of a
run beside each other and the second run replaces its team; two teams are
what a replacement takes. In host_to_worker two commands share a bootstrap,
and when it fails the second starts another; attempts of an envelope beyond two
repeat the situation of the second. The uplink needs an event to be overtaken,
a second forwarder, and one foreign entry to push another out of a map of two.
On the streams two connections and two events are what comparing numbers takes.
The channel's interesting cases are a duplicate, a bystander in the queue, one
change of binding, and a second response. In discovery the second client shares
an address with the first after a restart, and a client's two synchronisations
may be answered in any order. In definitions the cases are of two callers: a
read of the table that one of them began, a write by the other, and the
failure of either; every pair of agendas on prompts and agents and of those on
teams and servers is checked, since these groups share no row. Four operations
on skills make, break, switch and restart one; seven on a team create, change,
restore, bootstrap and bootstrap again, with members at most two deep
(`MaxDepth`), which is where a nested team and a loop show. NodeSync's second run meets an import of
the first that its coordinator has given up. In run_history two calls and an event
are two writers of one index and one that comes late. In explorer a change takes
one of the budget and an operation two, so an operation and a change, or three
changes, meet; with a budget of 4 and no sockets the tree's and the index's
properties hold as well (3.3 million states).

**Fairness.** host_to_worker: the adapter's calls are made at once, a promise
resumes its waiter, and a send is never left waiting, because every attempt is
aborted after 6 s and the attempts are counted. event_uplink: a POST ends by its
answer or its abort, a closed stream lets its loop end, a settled promise resumes
its handler. discovery: timers tick, a running registry answers, time passes
for a silent node; that a stopped node starts again is not assumed. definitions:
a call whose await is over goes on, and the database answers, if only with an
error. Nothing is assumed of other nodes otherwise: no request has to arrive and
no handler has to end.

**Excused cases.** Several properties hold except in situations that the code
does produce. The property names them, and a history variable records them, so
that everything else is still checked: `aborted`, `lapsed` (uplink, channel),
`torn` (definitions), `edited`, `emptied` (sync), `lost` (history), `blur`
(explorer). No guard on behalf of the code reads a history, except to bound a
repetition. Section 4 says what the excused situations do.

## 4. What the models show of the code

Each of these is reached by the models; no property excludes it, or one
excludes it by name.

* **Distributed runs.** A stop that arrives while the bootstrap of its run still
  builds the team finds nothing bound, is acknowledged, and the bootstrap binds
  the run afterwards. A stop visits nodes in turn and ends at the first that
  fails. Readiness is never withdrawn, so a worker that restarted refuses a run's
  commands until the run is replaced. When an automatic stop fails it is never
  tried again. A token is validated before the dispatch and consumed after it, so
  two connections can both have their answers accepted. A retry executes beside
  the attempt that the client abandoned. The locator's map by run holds one team.
* **Channel.** A call that times out last in the queue deletes the key although
  its predecessor still works, and those behind it wait for a tail that never
  resolves. A message is lost when its dispatch fails, because its key was
  reserved first. A callback key reserved before a failed publication silences
  the turn's later responses. A late SENT overwrites DELIVERED.
* **Definitions.** Two creations or activations of a family at once leave two
  active prompts. A failed update leaves the cached object changed; a failed
  first read leaves a cache that fails until a restart; a deletion during the
  first read leaves a ghost row. A template is not cleared when the agent's
  mapping changes, nor when the load raced its invalidation. `update_prompt` and
  `patch_prompt` describe their revision as inactive; it is active when the
  family's cached models had been blanked by an update under way.
* **Parser.** Create and update never find a `</tool>` that is cut across chunks;
  a text without markers is lost when its closing tag is cut; a patch whose
  text closes an argument is misread unless the end marker is in the same chunk;
  a start marker without an end marker keeps the call open for ever.
* **Skills.** A skill made under the name of a deleted, disabled one is born
  disabled, and one that was left half made keeps its name. A disabled skill is
  still given to agents. A failed git tag leaves the commit, so that the retry is
  refused. The body after a second `---` is lost by any update. A missing source
  is dropped when another is removed.
* **Team members.** Configurations by name and by route key are one map, so a
  nested member can replace the configuration of a top-level one. After a
  restoration workspaces are given by the host's ids, which a worker does not
  know. A definition that a worker mapped is not compared with a newer
  snapshot; a definition of its own with the same id, or name and coordinator,
  is overwritten. Of nested teams the worker uses its own definitions. A blank workspace id makes every bootstrap refused.
* **Discovery.** The event uplink may put the registry's address over a peer's.
* **Synchronisation.** Members of teams keep the source's ids. Tombstones are
  neither exported nor applied. Under target_wins missing prompts may still
  change which is active, and a server created after the list was read is
  overwritten. Requests to targets have no timeout.
* **Run history.** The index of agent runs has two stores with separate queues,
  which can undo each other's writes; so can a rebuild. A failed read yields an
  empty index which the next write stores. An event whose row could not be
  read makes the row of a deleted run again. An agent's manifest is written in
  place, a team's is replaced.
* **File explorer.** `fs.rename` overwrites a target made after the check. A
  move into a directory that is not in the tree loses the node. Files that only
  the watcher ignores are listed and never updated. A socket closed before its
  session exists leaves the session. Workspaces opened twice at once are both
  initialised.

## 5. Proofs

For every value of the constants under the modules' named assumptions
(`TeamRunAssumption`, `CommandBridgeAssumption`, `RoutingAssumption`,
`HostToWorkerAssumption`, `WorkerRunAssumption`, `EventUplinkAssumption`,
`TeamStreamAssumption`, `ToolApprovalAssumption`, `ThreadLockAssumption`,
`ExternalChannelAssumption`, `DiscoveryAssumption`, `NodeSyncAssumption`,
`RunHistoryAssumption`, `DefinitionsAssumption`, `SkillsAssumption`,
`TeamMembersAssumption`, `FileExplorerAssumption`), which the runs evaluate. Every inductive invariant
below was an invariant of the module's run before it was proved.

| theorem | argument |
|---|---|
| TeamRunProofs: TypeCorrect, OneRunPerDefinition, RunsAreServed, VersionsFence, HealthAgrees, StopsDoNotOverlap, CommandsStayInDefinition | one inductive invariant `IInv`: types, RepoInv (index, adapters and versions match the active runs), LocatorInv (the two maps agree on active runs), HealthInv, CommandInv. The parts need one another: a remembered run replaces a team's entry only because the definition has one active run; health agrees only because a suspended stop still holds the run it was suspended for |
| DeadRunsStayDead, StopsAreEarned | action properties from `IInv` |
| Refinement (TeamRun implements RunLease) | initial states map to initial states; under `IInv` each step is a lease step of one definition or a stutter, because an index entry always shows an active run |
| RemoteRunsProofs: BridgeTypeCorrect, DeliveryIsTrue, SuccessIsFinal | `BridgeInv`: an id is recorded exactly while an attempt is "done", and attempts are deduplicated only against executed ones |
| AdapterTypeCorrect, BootstrapComesFirst, OneBootstrapPerNode, ReadyStaysReady | `AdapterInv`: a bootstrap runs exactly while its command is registered as in flight; ready nodes were bootstrapped |
| CompositionImplementsBoth | each step of the composition is a step or a stutter of the adapter and of the bridge |
| HostKnowsTheWorker | `BothInv`: the two invariants, and between them SendsInv (a command on the client is one the adapter is sending) and RanInv (whatever is ready, sending or sent has a bootstrap that the worker executed). It needs DeliveryIsTrue: the adapter believes the client's report, the report is true |
| WorkerServesTheBridge | every handler step is a step of the bridge or leaves it alone |
| WorkerTypeCorrect, RunsKeepTheirConfiguration, SettledRunsAreWhole | `WorkerInv`: the bridge's invariant, types, SuspendedInv (a handler is suspended exactly where a request of its kind executes), ConfigInv (bound teams, dead or alive, and the teams being started or handed a message have the run's configuration) and RunInv. The last is what makes the proof: while one bootstrap or stop of a run is under way, Midway says for each place of suspension what the registry, the tracking and the forwarder of the run are; it survives the handlers of other runs because they never revive a team and create only teams no run was bound to |
| TeamRunProofs: UplinkTypeCorrect, AcceptedOnce | `WindowInv`: the remembered places are the last ones of the log, and what is before them expired or has Capacity later events |
| OneForwarderAtWork, NumberingKeepsOrder | `FlowInv`: TurnsInv (one handler closes at a time, and a forwarder at work is the registered one or the one being closed), BehindInv (who closes or works starts behind all that others posted or may still post) and AwaitedInv (a request under way is its forwarder's current one, or was given up). So an event that its sender still awaits is the latest of all that were posted |
| TeamConnectionsProofs: StreamTypeCorrect, EnvelopesAreOrdered | `StreamInv`: every envelope sent has a number at most its run's counter, and a run at most the last one; so what is numbered next is new and comes last everywhere |
| TeamConnectionsProofs: ApprovalTypeCorrect, TokensAreGood | TokensStayGood is inductive with the types: an entry leaves `pending` only when an answer of its own run is accepted |
| ExternalChannelProofs: WorkInTurn, SerializedUntilTimeout, IdleKeyForgotten (ThreadLock) | `LockInv`: until a timeout the tail is the last call and a waiting call's predecessor has the ticket before its own; even after timeouts a tail belongs to an active call |
| ChannelUsesTheLock, DispatchInTurn | the channel's steps are the lock's or leave it alone |
| ChannelTypeCorrect, MessagesAreDispatchedOnce, RepliesFindTheirMessage | `ChannelInv`: PlacesInv (where a handler is tells where its call of the lock and its turn are), KeysInv (a message whose key did not expire has one request that took it; a key that is there has one), ReceiptInv (the receipt names the only turn, which the two writers change by disjoint fields) and OutcomeInv |
| NodeServicesProofs: DiscoveryTypeCorrect, DirectoryFollowsPeers | `DiscoveryInv`: types and FollowsInv. Whatever changes a node's list of peers (a registration, a list that arrives, a beat, a tick) changes its directory in the same step, also when synchronisations overlap; the uplink replaces an address only of a host that the list does not show or shows with a loopback address |
| SyncTypeCorrect, SuccessHasArrived, ReferencesHaveArrived, TargetsKeepTheirs | `SyncInv`, eleven conjuncts. *On a node*: PromptsNumbered (ids and versions of a family are unique, one is active) and FamiliesHavePrompts. *Of a bundle*: BundleIsOnePerName (a name once), ChosenIsClosed and ExportIsClosed (under a selection with dependencies, at every point of the export, what was chosen has its members below it). *Of a run and its imports*: RunFollowsPlan, TargetsInTurn (reports are of the plan's targets, in their order; a target still in the queue has neither a report nor an import), JobsFollowRuns, JobsAreWhole (an import's rest and what it handled are its bundle, and the prompts it saw are there) and HandledIsThere: what an import handled without a failure is on its target, unless a user edited there. It stays so because the names of a bundle differ and one import at a time writes to a target; what a prompt list showed stays true because prompts only come with new numbers |
| RunHistoryProofs: HistoryTypeCorrect, RowsStayUntilDeleted, DeletedRunsStayAway, TerminatedRunsAreIdle | `HistoryInv`: PlacesInv (where an operation of each kind may be), CompanyInv (what an operation remembers of its company bounds who else works on its run), QueueInv (every task belongs to one operation that waits for it, and what the first task of a store has read is what the index says, or the task is torn), WrittenInv (a run that is created or restored has its manifest and row as soon as they are written, unless a deletion met it), KnownInv, GoneInv and EndedInv. So a row changes by a task for its own run, whose operation the company restricts, or by a torn task of another run, and then it is among the lost. The proof has one case per kind of step: Moves (an operation goes on), Comes (one begins, and its company is told) and Finishes (a store is done with a task); every action is one of them, or touches neither, or is a crash |
| DefinitionsProofs: DefsTypeCorrect, CachesFollowDatabase, FamiliesHaveOneActive, AgentsHavePrompts, TemplatesAreCurrent, ToolsAreOfEnabledServers | `DefsInv`, in which the history variables carry the argument: as long as a family is not `crowded`, one call is at work on it, and what that call saw of it in the cache is what the database says until its write. PlacesInv (what a request is waiting for fits its kind, and its write is one it makes), CacheInv and CopiesInv (a row of a cache, or of a read under way, is the database's or torn; copies of a prompt, old ones too, name its family), CrowdInv (two calls on a family or a server have marked it), FamilyInv (a call that activates a prompt has found all active relatives of it and still has them to deactivate), AgentInv, TemplateInv (what a load has found is still so, or was invalidated) and ToolsInv. A request that a step neither moves nor contradicts stays good, so that each kind of step is shown of its own caller, and once for all others |
| SkillTypeCorrect, SkillsStayWhole, SettingsOutliveRestarts | `SkillInv`: types, the two properties, and FilesFollow: a list that is not marked as behind is what its file says, so that a restart, which reads the files, changes only lists that were |
| MembersGetTheirConfiguration | `MembersInv`: TeamTypeOK, ManifestOK (the manifest keeps of every configuration its name, key, identity, model and the root it stood for, which until then is looked up among the workspaces the user opened), TeamStaysKnown, HostCrewOK (the host's team was built from the user's configurations or those restored from the manifest and, unless it was edited, from the definition as it is) and MappingOK (unless one was edited, the worker's mapped definition has the host's members). Restored and received configurations have the names and keys of the user's, so a lookup finds the same one (FoundAt); a way down the host's definition has its counterpart in the worker's, node by node (WayOver) |
| FileExplorerProofs: ExplorerTypeCorrect, ChangesAreHeard | `HeardInv`: EveryChangeIsHeard and QuietInv (a session whose subscription has not begun, or was refused, has empty queues) |
| TreeFollowsDisk | `TreeInv`. ClosedInv: the directory, and what chokidar saw of it, has with a path the one above. StartInv: until the indexer subscribes the trees being built match the directory as it was scanned. OutsideInv: while changes come from outside, a path is in the tree once for having been seen and once for every deletion of it that is due (Counted), and a directory that is missed was empty (Sorted). CallerInv: while an operation's change is being noticed the tree has a path at most once, and of a path still to be noticed and one of its kind that is missed exactly one is in it (Echo), because the watcher may take them for a move. Each synchronizer's tree is counted by lemmas about the positions of a sequence |
| IndexFollowsTree | `IndexInv`, beside `TreeInv`. The index is behind the tree by the changes in the indexer's queue, so AgreeInv is about the index as it will be when it has caught up: it finds every watched file of the tree by its id and, if no other file has its name, by its name, and nothing that is gone. Every change the watcher announces keeps that, as the index takes it; an event that leaves the tree alone announces nothing. For a move or a deletion to take the one entry that goes, a path must be in the tree once and an id have one node: CleanInv (while files change only from outside no deletion is pending twice, or of a path that is seen; the counts of `TreeInv` do the rest). ToldInv and BuiltInv: the queue is empty until the indexer subscribes, which is when the tree is built and indexed whole. A batch is a recursive function; that one change more is indexed after the others is shown by the least number for which it would fail |

The theorems on definitions, skills and team members are about `Spec`, `SkillSpec`
and `TeamSpec`, which share no variable; the run checks all of them in AgentTools,
whose steps are theirs.

These properties of the runs are stated by theorems about the same modules:
LiveRunIsServed, DegradationAgrees, ImplementsLease, DeliveredWasExecuted,
SuccessIsNotRepeated, HostAndWorkerAgree, ImplementsBridge,
RunUsesItsOwnConfiguration, SettledRunIsWhole, AcceptedOnceInWindow, OneForwarder,
OrderKeptUnlessAborted, StreamIsOrdered, TokensStayGood, InTurnUntilTimeout,
DispatchedOnce, RepliesAreTraced, RoutesFollowPeers, SuccessMeansArrived,
ReferencesArrive, TargetWinsKeeps, ListedUntilDeleted, DeletedIsGone,
IdleOnceTerminated, CacheIsDatabase, OneActivePerFamily, AgentHasPrompt,
TemplateIsCurrent, ToolsOfEnabledServers, SkillsAreWhole, SettingsSurvive,
MembersAsConfigured, EveryChangeIsHeard, TreeIsDisk and IndexIsTree. The other theorems have no run of their own:
they were checked by TLC before they were proved, and hold for all instances now.

Proofs corrected the models. ReferencesArrive used to excuse an agent whose
family a user had emptied only on the nodes, and the attempt to prove it showed
that such an agent can be in a bundle too. ListedUntilDeleted used to claim that a
continuation which a deletion met leaves the run listed when it succeeds: with
three callers, one of them can write the manifest after the deletion and fail
before its row, while another, whose row the deletion removed, reports success.
What a deletion meets is not claimed any more. SettingsSurvive was false after
three faults: a source that is dropped because it is missing comes back at a
restart when the file could not be told that it was dropped; the history of what
was dropped forgets it then. MembersAsConfigured was true of the run's teams only:
where a worker's own definition of a nested team differs from the host's, which the
snapshot does not hold, members differ too, and a nested member may be given a
configuration that has its name for a route key; both are in the property now. And
definitions of RunHistory and Definitions whose alternatives overlapped
in a CASE, which TLC resolves by their order and TLA+ leaves open, say which one
is meant.

Only model-checked: the liveness properties DispatchEnds, CloseEnds,
PeersConverge and CallsEnd, which are out of the prover's reach, and WrittenIsRead,
which recursive definitions of PromptToolParser put out of it.

## 6. What the models leave out

Sub-teams' events; a crash of the host of a run or of the channel's server
(their maps are in memory; only keys, receipts and delivery events survive); the
content of messages, events and errors; signature checks. Turn ids are taken to
be unique, and a callback key to outlive its turn. Of skills only the
manifest is a file; of a directory tree one level below the root is there. Prompt
texts, models and tools are values that are only compared. Two servers on one
database or data directory are not considered.

## 7. Plan

Done, with proofs: the control plane, bridge, routing, worker, uplink, streams,
approvals, lock, channel, discovery, synchronisation, run history, definitions,
skills, team members, and the explorer's tree, index and sessions. Done,
model-checked: the prompt tools' parser.

What would come next: a component for the transport's signatures.
