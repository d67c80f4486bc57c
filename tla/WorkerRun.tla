------------------------------- MODULE WorkerRun -------------------------------
(****************************************************************************)
(* A worker node under the commands of its hosts: what RUN_BOOTSTRAP,       *)
(* USER_MESSAGE (and the other member commands) and CONTROL_STOP do to the  *)
(* run bindings, the run tracking, the event forwarders and the runtime     *)
(* teams.  Commands arrive through CommandBridge, so a handler may run      *)
(* twice at the same time, after its sender gave up, and be cut off by a    *)
(* restart; handlers interleave at every await.                             *)
(*                                                                          *)
(* All runs are of one team definition on the worker: definitions share     *)
(* nothing.  Several runs of it are normal, because a worker maps the       *)
(* definitions of all its hosts by name (resolveWorkerTeamDefinitionId).    *)
(*                                                                          *)
(* Bounds: at most MaxTeams runtime teams are created; a run that finds     *)
(* none left fails to create one, as it may at any time.                    *)
(****************************************************************************)
EXTENDS CommandBridge

CONSTANTS
  Runs,        \* the runs hosts may bootstrap here
  Configs,     \* lists of member bindings, up to memberBindingsMatch
  ConfigOf,    \* the member bindings a run's bootstrap carries
  RunOf,       \* the run an envelope belongs to
  KindOf,      \* "bootstrap", "message" or "stop"
  Retried,     \* envelopes whose sends the host retries: a bound
  MaxTeams,
  NoConfig

ASSUME WorkerRunAssumption ==
  /\ \A e \in Envelopes : RunOf[e] \in Runs
  /\ \A e \in Envelopes : KindOf[e] \in {"bootstrap", "message", "stop"}
  /\ ConfigOf \in [Runs -> Configs]
  /\ NoConfig \notin Configs
  /\ Retried \subseteq Envelopes
  /\ MaxTeams \in Nat

Teams  == 1 .. MaxTeams
NoTeam == 0

VARIABLES
  binding,           \* RunScopedTeamBindingRegistry: the team a run is bound to
  managed,           \* WorkerRunLifecycleCoordinator.workerManagedRunIds
  forwarder,         \* eventForwarderByRunId: the team whose stream is forwarded
  alive,             \* teams the factory holds
  config,            \* the member configs a team was created with
  teamOfDefinition,  \* AgentTeamInstanceManager.teamIdByTeamDefinitionId
  progress,          \* where the handler of an executing request is suspended
  disturbed          \* history: runs whose bootstraps and stops ever overlapped

workerVars == <<binding, managed, forwarder, alive, config, teamOfDefinition,
                progress, disturbed>>
allVars == <<bridgeVars, workerVars>>

Idle == [at |-> "idle", team |-> NoTeam]

Init ==
  /\ BridgeInit
  /\ binding = [r \in Runs |-> NoTeam]
  /\ managed = {}
  /\ forwarder = [r \in Runs |-> NoTeam]
  /\ alive = {}
  /\ config = [t \in Teams |-> NoConfig]
  /\ teamOfDefinition = NoTeam
  /\ progress = [e \in Envelopes |-> [n \in Attempts |-> Idle]]
  /\ disturbed = {}

-----------------------------------------------------------------------------
(* Handlers                                                                 *)

At(e, n, place) == progress[e][n].at = place

Await(e, n, place, t) ==
  /\ progress' = [progress EXCEPT ![e][n] = [at |-> place, team |-> t]]
  /\ UNCHANGED bridgeVars

Return(e, n) ==
  /\ progress' = [progress EXCEPT ![e][n] = Idle]
  /\ Complete(e, n)

(* (slip: a refused command counts as processed)                            *)
ThrowAndRecord(e, n) ==
  /\ progress' = [progress EXCEPT ![e][n] = Idle]
  /\ request[e][n] = "executing"
  /\ Becomes(e, n, "failed")
  /\ processed' = processed \cup {e}
  /\ UNCHANGED <<client, restarts>>

Throw(e, n) ==
  /\ progress' = [progress EXCEPT ![e][n] = Idle]
  /\ Refuse(e, n)

teamVars == <<alive, config, teamOfDefinition>>
runVars  == <<binding, managed, forwarder>>

(* the bootstraps and stops of run r under way                              *)
ControlOf(r) ==
  {q \in Envelopes \X Attempts :
     /\ RunOf[q[1]] = r
     /\ KindOf[q[1]] # "message"
     /\ request[q[1]][q[2]] = "executing"}

StartControl(e, n, place) ==
  /\ Execute(e, n)
  /\ progress' = [progress EXCEPT ![e][n] = [at |-> place, team |-> NoTeam]]
  /\ disturbed' = IF ControlOf(RunOf[e]) = {} THEN disturbed
                                              ELSE disturbed \cup {RunOf[e]}

Bootstrap(e, n) ==
  /\ KindOf[e] = "bootstrap"
  /\ StartControl(e, n, "resolving")
  /\ UNCHANGED <<runVars, teamVars>>

CurrentTeam == IF teamOfDefinition \in alive THEN teamOfDefinition ELSE NoTeam

(* bindRun and markWorkerManagedRun, then replaceEventForwarder up to the   *)
(* await of the forwarder it replaces.  A team that is gone by now is bound *)
(* all the same, but has no stream to forward.                              *)
Bind(e, n, t) ==
  /\ binding' = [binding EXCEPT ![RunOf[e]] = t]
  /\ managed' = managed \cup {RunOf[e]}
  /\ forwarder' = [forwarder EXCEPT ![RunOf[e]] = NoTeam]
  /\ Await(e, n, "attaching", IF t \in alive THEN t ELSE NoTeam)
  /\ UNCHANGED teamVars

(* (slip: the member bindings are not compared)                             *)
ReuseAnyTeam(e, n) == CurrentTeam # NoTeam /\ Bind(e, n, CurrentTeam)

ReuseTeam(e, n) ==
  /\ CurrentTeam # NoTeam
  /\ config[CurrentTeam] = ConfigOf[RunOf[e]]
  /\ Bind(e, n, CurrentTeam)

(* create a team, after terminating one with other member bindings; b and m *)
(* are the bindings and the tracking it leaves                              *)
ReplaceTeam(e, n, b, m) ==
  /\ binding' = b
  /\ managed' = m
  /\ UNCHANGED <<forwarder, config, teamOfDefinition>>
  /\ \/ /\ CurrentTeam = NoTeam
        /\ Await(e, n, "building", NoTeam)
        /\ UNCHANGED alive
     \/ /\ CurrentTeam # NoTeam
        /\ config[CurrentTeam] # ConfigOf[RunOf[e]]
        /\ Await(e, n, "terminating", CurrentTeam)
        /\ alive' = alive \ {CurrentTeam}

-----------------------------------------------------------------------------
(* RUN_BOOTSTRAP                                                            *)

(* the definition is resolved: the run is bound to a live team ...          *)
AlreadyBound(e, n) ==
  /\ At(e, n, "resolving")
  /\ binding[RunOf[e]] \in alive
  /\ managed' = managed \cup {RunOf[e]}
  /\ Return(e, n)
  /\ UNCHANGED <<binding, forwarder, teamVars, disturbed>>

(* ... to a team that is gone, so that the run is torn down first ...       *)
BoundToDeadTeam(e, n) ==
  /\ At(e, n, "resolving")
  /\ binding[RunOf[e]] \notin alive \cup {NoTeam}
  /\ forwarder' = [forwarder EXCEPT ![RunOf[e]] = NoTeam]
  /\ Await(e, n, "rebinding", NoTeam)
  /\ UNCHANGED <<binding, managed, teamVars, disturbed>>

(* ... or not at all.                                                       *)
NotBound(e, n) ==
  /\ At(e, n, "resolving")
  /\ binding[RunOf[e]] = NoTeam
  /\ ReuseTeam(e, n) \/ ReplaceTeam(e, n, binding, managed)
  /\ UNCHANGED disturbed

TornDown(e, n) ==
  /\ At(e, n, "rebinding")
  /\ \/ ReuseTeam(e, n)
     \/ ReplaceTeam(e, n, [binding EXCEPT ![RunOf[e]] = NoTeam], managed \ {RunOf[e]})
  /\ UNCHANGED disturbed

(* terminateTeamInstance only drops the index entry that is its own         *)
Terminated(e, n) ==
  /\ At(e, n, "terminating")
  /\ teamOfDefinition' = IF teamOfDefinition = progress[e][n].team THEN NoTeam
                                                                   ELSE teamOfDefinition
  /\ Await(e, n, "building", NoTeam)
  /\ UNCHANGED <<runVars, alive, config, disturbed>>

(* the team configuration is built: the team exists and is indexed before   *)
(* the wait for it to be idle                                               *)
Built(e, n, t) ==
  /\ At(e, n, "building")
  /\ config[t] = NoConfig
  /\ \A u \in Teams : u < t => config[u] # NoConfig
  /\ alive' = alive \cup {t}
  /\ config' = [config EXCEPT ![t] = ConfigOf[RunOf[e]]]
  /\ teamOfDefinition' = t
  /\ Await(e, n, "starting", t)
  /\ UNCHANGED <<runVars, disturbed>>

TeamIdle(e, n) ==
  /\ At(e, n, "starting")
  /\ Bind(e, n, progress[e][n].team)
  /\ UNCHANGED disturbed

(* the old forwarder is closed: the new one takes its place                 *)
Attached(e, n) ==
  /\ At(e, n, "attaching")
  /\ forwarder' = IF progress[e][n].team = NoTeam THEN forwarder
                  ELSE [forwarder EXCEPT ![RunOf[e]] = progress[e][n].team]
  /\ Return(e, n)
  /\ UNCHANGED <<binding, managed, teamVars, disturbed>>

-----------------------------------------------------------------------------
(* USER_MESSAGE, INTER_AGENT_MESSAGE_REQUEST and TOOL_APPROVAL              *)

ReceiveMessage(e, n) ==
  /\ KindOf[e] = "message"
  /\ Execute(e, n)
  /\ LET t == binding[RunOf[e]]
     IN  progress' = [progress EXCEPT ![e][n] =
                        [at |-> "dispatching", team |-> IF t \in alive THEN t ELSE NoTeam]]
  /\ UNCHANGED <<runVars, teamVars, disturbed>>

MessageHandled(e, n) ==
  /\ At(e, n, "dispatching")
  /\ progress[e][n].team # NoTeam
  /\ Return(e, n)
  /\ UNCHANGED <<runVars, teamVars, disturbed>>

-----------------------------------------------------------------------------
(* CONTROL_STOP                                                             *)

StopTeam(e, n) ==
  /\ KindOf[e] = "stop"
  /\ binding[RunOf[e]] \in alive
  /\ StartControl(e, n, "stopping")
  /\ UNCHANGED <<runVars, teamVars>>

(* no team to stop: tear down at once, and unbind only what was bound       *)
StopWithoutTeam(e, n) ==
  /\ KindOf[e] = "stop"
  /\ binding[RunOf[e]] \notin alive
  /\ StartControl(e, n, IF binding[RunOf[e]] = NoTeam THEN "closing" ELSE "tearing")
  /\ forwarder' = [forwarder EXCEPT ![RunOf[e]] = NoTeam]
  /\ UNCHANGED <<binding, managed, teamVars>>

TeamStopped(e, n) ==
  /\ At(e, n, "stopping")
  /\ forwarder' = [forwarder EXCEPT ![RunOf[e]] = NoTeam]
  /\ Await(e, n, "tearing", NoTeam)
  /\ UNCHANGED <<binding, managed, teamVars, disturbed>>

(* (slip: the run is unbound but stays tracked)                             *)
RunClosedTracked(e, n) ==
  /\ At(e, n, "closing") \/ At(e, n, "tearing")
  /\ binding' = IF At(e, n, "tearing") THEN [binding EXCEPT ![RunOf[e]] = NoTeam]
                                       ELSE binding
  /\ Return(e, n)
  /\ UNCHANGED <<managed, forwarder, teamVars, disturbed>>

RunClosed(e, n) ==
  /\ At(e, n, "closing") \/ At(e, n, "tearing")
  /\ managed' = managed \ {RunOf[e]}
  /\ binding' = IF At(e, n, "tearing") THEN [binding EXCEPT ![RunOf[e]] = NoTeam]
                                       ELSE binding
  /\ Return(e, n)
  /\ UNCHANGED <<forwarder, teamVars, disturbed>>

-----------------------------------------------------------------------------
(* Failures, local actions and restarts                                     *)

(* what a handler awaits may throw: reading or writing a definition,        *)
(* creating, terminating or stopping a team, delivering a message           *)
HandlerFails(e, n) ==
  /\ progress[e][n].at \in {"resolving", "terminating", "building", "starting",
                            "dispatching", "stopping"}
  /\ Throw(e, n)
  /\ UNCHANGED <<runVars, teamVars, disturbed>>

(* a team is terminated on the worker itself                                *)
TerminateTeam(t) ==
  /\ t \in alive
  /\ alive' = alive \ {t}
  /\ teamOfDefinition' = IF teamOfDefinition = t THEN NoTeam ELSE teamOfDefinition
  /\ UNCHANGED <<bridgeVars, runVars, config, progress, disturbed>>

RestartWorker ==
  /\ Restart
  /\ binding' = [r \in Runs |-> NoTeam]
  /\ managed' = {}
  /\ forwarder' = [r \in Runs |-> NoTeam]
  /\ alive' = {}
  /\ teamOfDefinition' = NoTeam
  /\ progress' = [e \in Envelopes |-> [n \in Attempts |-> Idle]]
  /\ disturbed' = {}
  /\ UNCHANGED config

(* The host of a run bootstraps the node for one command at a time and never *)
(* again once that succeeded, and sends member commands from then on.  It   *)
(* stops the run whenever it wants to.                                      *)
MaySend(e) ==
  LET bootstraps == {b \in Envelopes \ {e} : KindOf[b] = "bootstrap" /\ RunOf[b] = RunOf[e]}
  IN  CASE KindOf[e] = "bootstrap" -> \A b \in bootstraps : client[b].at \in {"new", "failed"}
        [] KindOf[e] = "message"   -> \E b \in bootstraps : client[b].at = "delivered"
        [] KindOf[e] = "stop"      -> TRUE

HostCommand(e) ==
  /\ \/ MaySend(e) /\ Send(e)
     \/ Acknowledge(e) \/ GiveUp(e)
     \/ e \in Retried /\ Retry(e)
  /\ UNCHANGED workerVars

Receive(e, n) ==
  \/ Dedupe(e, n) /\ UNCHANGED workerVars
  \/ Bootstrap(e, n) \/ ReceiveMessage(e, n) \/ StopTeam(e, n) \/ StopWithoutTeam(e, n)

Handle(e, n) ==
  \/ AlreadyBound(e, n) \/ BoundToDeadTeam(e, n) \/ NotBound(e, n) \/ TornDown(e, n)
  \/ Terminated(e, n)   \/ TeamIdle(e, n)        \/ Attached(e, n)
  \/ \E t \in Teams : Built(e, n, t)
  \/ MessageHandled(e, n) \/ TeamStopped(e, n) \/ RunClosed(e, n) \/ HandlerFails(e, n)

Next ==
  \/ \E e \in Envelopes : HostCommand(e)
  \/ \E e \in Envelopes, n \in Attempts : Receive(e, n) \/ Handle(e, n)
  \/ \E t \in Teams : TerminateTeam(t)
  \/ RestartWorker

Spec == Init /\ [][Next]_allVars

-----------------------------------------------------------------------------
(* Properties                                                               *)

(* A run only ever works with the member bindings of its own bootstrap,     *)
(* although runs share the definition's team and terminate each other's     *)
(* (remote-envelope-bootstrap-handler.ts:116): a live bound team, and the   *)
(* team a message is being handed to, were created from them.               *)
RunUsesItsOwnConfiguration ==
  /\ \A r \in Runs : binding[r] \in alive => config[binding[r]] = ConfigOf[r]
  /\ \A e \in Envelopes, n \in Attempts :
       (At(e, n, "dispatching") /\ progress[e][n].team # NoTeam) =>
         config[progress[e][n].team] = ConfigOf[RunOf[e]]

Settled(r) == r \notin disturbed /\ ControlOf(r) = {}

(* Unless bootstraps and stops of the run itself overlapped, registry,      *)
(* tracking and forwarder agree whenever no handler of the run is under     *)
(* way: a bound run is tracked and forwards its own team's events, an       *)
(* unbound one leaves nothing behind - after failures half way, and         *)
(* whatever handlers of other runs did to the team meanwhile.               *)
SettledRunIsWhole ==
  \A r \in Runs : Settled(r) =>
    /\ binding[r] # NoTeam => r \in managed
    /\ binding[r] \in alive => forwarder[r] = binding[r]
    /\ binding[r] = NoTeam => r \notin managed /\ forwarder[r] = NoTeam

(* Every behaviour of the worker is one of the command bridge: handlers     *)
(* complete or refuse the request they were started for, and nothing else   *)
(* touches the bridge.                                                      *)
ImplementsBridge == BridgeSpec

=============================================================================
