------------------------------- MODULE TeamRun -------------------------------
(****************************************************************************)
(* The host control plane of a distributed team run: the run repository,    *)
(* the orchestrator with its degradation policy and routing registry, and   *)
(* the locator that resolves a runtime team to a run.                       *)
(*                                                                          *)
(* Node executes one callback at a time, so an action is the code between   *)
(* two awaits.  A command is a request in flight: it may be suspended while *)
(* the team definition is read ("definition"), while onRunResolved is       *)
(* awaited ("resolved"), while the routing adapter delivers ("dispatching") *)
(* and while an automatic stop is delivered ("stopping").                   *)
(*                                                                          *)
(* Bounds: at most MaxRuns runs are started; the two failure counters       *)
(* saturate at their thresholds, which are all the policy compares them to. *)
(****************************************************************************)
EXTENDS Naturals, FiniteSets

CONSTANTS
  Teams,                        \* runtime team ids
  Definitions,                  \* team definition ids
  DefinitionOf,                 \* the definition each team was created from
  Commands,                     \* requests that may be in flight together
  CoordinatorFailureThreshold,
  GlobalFailureThreshold,
  MaxRuns,                      \* bound on the runs started
  NoTeam

ASSUME TeamRunAssumption ==
  /\ Definitions # {}
  /\ DefinitionOf \in [Teams -> Definitions]
  /\ CoordinatorFailureThreshold \in Nat \ {0}
  /\ GlobalFailureThreshold \in Nat \ {0}
  /\ MaxRuns \in Nat \ {0}
  /\ NoTeam \notin Teams

Runs  == 1 .. MaxRuns
NoRun == 0

VARIABLES
  runById,            \* run records; a deleted one keeps its definition and version
  runIdByDefinition,  \* TeamRunRepository.runIdByDefinitionId
  nextRunVersion,     \* TeamRunRepository.nextRunVersionByDefinitionId (0 = no entry)
  registered,         \* runs with a routing adapter
  failureState,       \* RunDegradationPolicy.stateByRunId
  recordByTeamId,     \* TeamRunLocator: the run a team was last resolved to
  recordByRunId,      \* TeamRunLocator: the team a run was last resolved for
  liveTeams,          \* teams the instance manager still holds
  command             \* the requests in flight

repoVars    == <<runById, runIdByDefinition, nextRunVersion>>
locatorVars == <<recordByTeamId, recordByRunId>>
vars == <<repoVars, registered, failureState, locatorVars, liveTeams, command>>

RunRecord == [definition : Definitions, version : Nat,
              status : {"none", "running", "degraded", "stopped"}]

FailureState == [status : {"none", "degraded", "stopped"},
                 coordinator : 0 .. CoordinatorFailureThreshold,
                 recent : 0 .. GlobalFailureThreshold]

Command == [at : {"idle", "definition", "resolved", "dispatching", "stopping"},
            team : Teams \cup {NoTeam},
            run : Runs \cup {NoRun},
            toCoordinator : BOOLEAN,
            adapter : BOOLEAN]  \* the registry had an adapter when asked

NoFailures == [status |-> "none", coordinator |-> 0, recent |-> 0]
Idle == [at |-> "idle", team |-> NoTeam, run |-> NoRun,
         toCoordinator |-> FALSE, adapter |-> FALSE]

CommandTypeOK ==
  /\ command \in [Commands -> Command]
  /\ \A c \in Commands : command[c].at # "idle" => command[c].team # NoTeam
  /\ \A c \in Commands : command[c].at \in {"resolved", "dispatching", "stopping"}
                          => command[c].run # NoRun

TypeOK ==
  /\ runById \in [Runs -> RunRecord]
  /\ runIdByDefinition \in [Definitions -> Runs \cup {NoRun}]
  /\ nextRunVersion \in [Definitions -> Nat]
  /\ registered \subseteq Runs
  /\ failureState \in [Runs -> FailureState]
  /\ recordByTeamId \in [Teams -> Runs \cup {NoRun}]
  /\ recordByRunId \in [Runs -> Teams \cup {NoTeam}]
  /\ liveTeams \subseteq Teams
  /\ CommandTypeOK

Started(r) == runById[r].status # "none"
Live(r)    == runById[r].status \in {"running", "degraded"}
Fresh(r)   == ~Started(r) /\ \A s \in Runs : s < r => Started(s)

-----------------------------------------------------------------------------
(* TeamRunRepository                                                        *)

GetActiveRunByDefinitionId(d) ==
  LET r == runIdByDefinition[d]
  IN  IF r # NoRun /\ Live(r) THEN r ELSE NoRun

UpdateRunStatus(r, status) ==
  IF Live(r) THEN [runById EXCEPT ![r].status = status] ELSE runById

(* (slip: the definition's index entry is left behind)                      *)
ForgetRunKeepIndex(r) ==
  /\ runById' = UpdateRunStatus(r, "stopped")
  /\ registered' = registered \ {r}
  /\ failureState' = [failureState EXCEPT ![r] = NoFailures]
  /\ UNCHANGED <<runIdByDefinition, nextRunVersion>>

(* stop acknowledged: record, index, adapter and failure state go together  *)
ForgetRun(r) ==
  /\ runById' = UpdateRunStatus(r, "stopped")
  /\ runIdByDefinition' =
       IF Live(r) THEN [runIdByDefinition EXCEPT ![runById[r].definition] = NoRun]
                  ELSE runIdByDefinition
  /\ registered' = registered \ {r}
  /\ failureState' = [failureState EXCEPT ![r] = NoFailures]
  /\ UNCHANGED nextRunVersion

(* startRunIfMissing, when placement and hydration succeed, answers run r   *)
StartRunIfMissing(d, r) ==
  \/ /\ r = GetActiveRunByDefinitionId(d)
     /\ r # NoRun
     /\ UNCHANGED <<repoVars, registered>>
  \/ /\ GetActiveRunByDefinitionId(d) = NoRun
     /\ Fresh(r)
     /\ nextRunVersion' = [nextRunVersion EXCEPT ![d] = @ + 1]
     /\ runById' = [runById EXCEPT ![r] = [definition |-> d,
                                           version |-> nextRunVersion[d] + 1,
                                           status |-> "running"]]
     /\ runIdByDefinition' = [runIdByDefinition EXCEPT ![d] = r]
     /\ registered' = registered \cup {r}

-----------------------------------------------------------------------------
(* RunDegradationPolicy                                                     *)

Saturate(n, bound) == IF n > bound THEN bound ELSE n

(* the state after a failure, "kept" earlier failures still in the window   *)
AfterFailure(state, kept, isCoordinator) ==
  LET coordinator == IF isCoordinator
                     THEN Saturate(state.coordinator + 1, CoordinatorFailureThreshold)
                     ELSE 0
      recent == Saturate(kept + 1, GlobalFailureThreshold)
      mustStop == \/ coordinator >= CoordinatorFailureThreshold
                  \/ recent >= GlobalFailureThreshold
  IN  [status |-> CASE state.status = "none" -> "degraded"
                    [] state.status = "degraded" /\ mustStop -> "stopped"
                    [] OTHER -> state.status,
       coordinator |-> coordinator,
       recent |-> recent]

(* (slip: one success wipes the failure history)                            *)
ClearOnRouteSuccess(r, isCoordinator) ==
  failureState' = [failureState EXCEPT ![r] = NoFailures]

RecordRouteSuccess(r, isCoordinator) ==
  failureState' = IF isCoordinator
                  THEN [failureState EXCEPT ![r].coordinator = 0]
                  ELSE failureState

-----------------------------------------------------------------------------
(* TeamRunLocator                                                           *)

ResolvesTo(t) ==
  LET r == recordByTeamId[t]
  IN  IF r # NoRun /\ Live(r) THEN r ELSE NoRun

(* resolveActiveRun drops both records of a run that is gone                *)
ResolveActiveRun(t) ==
  LET r == recordByTeamId[t]
      stale == r # NoRun /\ ~Live(r)
  IN  /\ recordByTeamId' = IF stale THEN [recordByTeamId EXCEPT ![t] = NoRun]
                                    ELSE recordByTeamId
      /\ recordByRunId' = IF stale THEN [recordByRunId EXCEPT ![r] = NoTeam]
                                   ELSE recordByRunId

(* what resolveByTeamRunId answers for run r                                *)
ResolveByRun(r) ==
  IF recordByRunId[r] = NoTeam THEN NoRun ELSE ResolvesTo(recordByRunId[r])

(* (slip: only the map by team is written)                                  *)
RememberTeamOnly(t, r) ==
  /\ recordByTeamId' = [recordByTeamId EXCEPT ![t] = r]
  /\ UNCHANGED recordByRunId

RememberRun(t, r) ==
  /\ recordByTeamId' = [recordByTeamId EXCEPT ![t] = r]
  /\ recordByRunId' = [recordByRunId EXCEPT ![r] = t]

-----------------------------------------------------------------------------
(* Commands: TeamCommandIngressService over the orchestrator                *)

At(c, place) == command[c].at = place
Finish(c) == command' = [command EXCEPT ![c] = Idle]
Suspend(c, place, t, r, toCoordinator) ==
  command' = [command EXCEPT ![c] = [at |-> place, team |-> t, run |-> r,
                                     toCoordinator |-> toCoordinator,
                                     adapter |-> r \in registered]]

(* resolveOrCreateRun up to its first await                                 *)
ReceiveMessage(c, t) ==
  /\ At(c, "idle")
  /\ t \in liveTeams
  /\ ResolveActiveRun(t)
  /\ \/ ResolvesTo(t) # NoRun /\ Suspend(c, "resolved", t, ResolvesTo(t), FALSE)
     \/ ResolvesTo(t) = NoRun /\ Suspend(c, "definition", t, NoRun, FALSE)
  /\ UNCHANGED <<repoVars, registered, failureState, liveTeams>>

(* the definition arrives: the run is started or joined, and remembered     *)
DefinitionLoaded(c) ==
  /\ At(c, "definition")
  /\ \E r \in Runs :
       /\ StartRunIfMissing(DefinitionOf[command[c].team], r)
       /\ RememberRun(command[c].team, r)
       /\ Suspend(c, "resolved", command[c].team, r, FALSE)
  /\ UNCHANGED <<failureState, liveTeams>>

(* definition missing, member mismatch, no node, placement or hydration     *)
(* refused: the command fails and nothing was stored                        *)
DefinitionRefused(c) ==
  /\ At(c, "definition")
  /\ Finish(c)
  /\ UNCHANGED <<repoVars, registered, failureState, locatorVars, liveTeams>>

(* dispatchWithFailurePolicy up to the await of the routing adapter         *)
BeginDispatch(c) ==
  /\ At(c, "resolved")
  /\ \/ /\ Live(command[c].run)
        /\ \E toCoordinator \in BOOLEAN :
             Suspend(c, "dispatching", command[c].team, command[c].run, toCoordinator)
     \/ ~Live(command[c].run) /\ Finish(c)
  /\ UNCHANGED <<repoVars, registered, failureState, locatorVars, liveTeams>>

(* dispatchToolApproval resolves the team's run and dispatches in one go    *)
ReceiveApproval(c, t) ==
  /\ At(c, "idle")
  /\ ResolveActiveRun(t)
  /\ ResolvesTo(t) # NoRun
  /\ \E toCoordinator \in BOOLEAN :
       Suspend(c, "dispatching", t, ResolvesTo(t), toCoordinator)
  /\ UNCHANGED <<repoVars, registered, failureState, liveTeams>>

DispatchAccepted(c) ==
  /\ At(c, "dispatching")
  /\ command[c].adapter
  /\ RecordRouteSuccess(command[c].run, command[c].toCoordinator)
  /\ Finish(c)
  /\ UNCHANGED <<repoVars, registered, locatorVars, liveTeams>>

(* handleRouteFailure: degrade, begin the automatic stop, or only report    *)
DispatchFailed(c) ==
  /\ At(c, "dispatching")
  /\ LET r == command[c].run
         old == failureState[r]
     IN  \E kept \in 0 .. old.recent :
           LET new == AfterFailure(old, kept, command[c].toCoordinator)
           IN  /\ failureState' = [failureState EXCEPT ![r] = new]
               /\ \/ /\ old.status = "none"
                     /\ runById' = UpdateRunStatus(r, "degraded")
                     /\ Finish(c)
                  \/ /\ old.status = "degraded" /\ new.status = "stopped" /\ Live(r)
                     /\ Suspend(c, "stopping", command[c].team, r, FALSE)
                     /\ UNCHANGED runById
                  \/ /\ old.status # "none"
                     /\ old.status = new.status \/ ~Live(r)
                     /\ Finish(c)
                     /\ UNCHANGED runById
  /\ UNCHANGED <<runIdByDefinition, nextRunVersion, registered, locatorVars, liveTeams>>

(* every node of the run acknowledged the stop                              *)
StopAccepted(c) ==
  /\ At(c, "stopping")
  /\ command[c].adapter
  /\ ForgetRun(command[c].run)
  /\ Finish(c)
  /\ UNCHANGED <<locatorVars, liveTeams>>

(* some node did not: RUN_AUTO_STOP_FAILED, and the policy state stays      *)
StopFailed(c) ==
  /\ At(c, "stopping")
  /\ Finish(c)
  /\ UNCHANGED <<repoVars, registered, failureState, locatorVars, liveTeams>>

-----------------------------------------------------------------------------
(* Other entries that reach the locator, and the team instance manager      *)

(* resolveActiveRun outside a command: issuing an approval token            *)
LookupTeam(t) ==
  /\ ResolveActiveRun(t)
  /\ UNCHANGED <<repoVars, registered, failureState, liveTeams, command>>

(* resolveByTeamRunId: rebroadcast, local dispatch, bootstrap snapshot      *)
LookupRun(r) ==
  /\ recordByRunId[r] # NoTeam
  /\ ResolveActiveRun(recordByRunId[r])
  /\ UNCHANGED <<repoVars, registered, failureState, liveTeams, command>>

(* terminateTeamInstance leaves the run alone                               *)
TerminateTeam(t) ==
  /\ t \in liveTeams
  /\ liveTeams' = liveTeams \ {t}
  /\ UNCHANGED <<repoVars, registered, failureState, locatorVars, command>>

(* createTeamInstance, or createTeamInstanceWithId for a restored team      *)
CreateTeam(t) ==
  /\ t \notin liveTeams
  /\ liveTeams' = liveTeams \cup {t}
  /\ UNCHANGED <<repoVars, registered, failureState, locatorVars, command>>

-----------------------------------------------------------------------------
Init ==
  /\ runById = [r \in Runs |-> [definition |-> CHOOSE d \in Definitions : TRUE,
                                version |-> 0, status |-> "none"]]
  /\ runIdByDefinition = [d \in Definitions |-> NoRun]
  /\ nextRunVersion = [d \in Definitions |-> 0]
  /\ registered = {}
  /\ failureState = [r \in Runs |-> NoFailures]
  /\ recordByTeamId = [t \in Teams |-> NoRun]
  /\ recordByRunId = [r \in Runs |-> NoTeam]
  /\ liveTeams = {}
  /\ command = [c \in Commands |-> Idle]

CommandStep(c) ==
  \/ DefinitionLoaded(c) \/ DefinitionRefused(c) \/ BeginDispatch(c)
  \/ DispatchAccepted(c) \/ DispatchFailed(c) \/ StopAccepted(c) \/ StopFailed(c)

Next ==
  \/ \E c \in Commands, t \in Teams : ReceiveMessage(c, t) \/ ReceiveApproval(c, t)
  \/ \E c \in Commands : CommandStep(c)
  \/ \E t \in Teams : LookupTeam(t) \/ TerminateTeam(t) \/ CreateTeam(t)
  \/ \E r \in Runs : LookupRun(r)

Spec == Init /\ [][Next]_vars

-----------------------------------------------------------------------------
(* The abstract view: the run a definition's index points to                *)

PhaseOf(d) == IF runIdByDefinition[d] = NoRun THEN "none"
              ELSE runById[runIdByDefinition[d]].status

Lease == INSTANCE RunLease
         WITH phase <- [d \in Definitions |-> PhaseOf(d)],
              version <- nextRunVersion

-----------------------------------------------------------------------------
(* Properties                                                               *)

(* Repository, orchestrator and locator together implement the run lease:   *)
(* whatever the interleaving of commands, a definition's run only ever goes *)
(* none, running, degraded, none, with a new version each time round.       *)
ImplementsLease == Lease!Spec

(* A definition never has two active runs, though two commands of two teams *)
(* may both have seen none before awaiting the definition (repository index *)
(* and startRunIfMissing).                                                  *)
OneActiveRunPerDefinition ==
  \A r, s \in Runs :
    Live(r) /\ Live(s) /\ runById[r].definition = runById[s].definition => r = s

(* An active run can always be reached: its definition's index and an       *)
(* adapter point to it, and the locator resolves the run id to a team whose *)
(* own record is this run, so rebroadcast and local dispatch find a team    *)
(* although teams sharing the run overwrite each other's locator record.    *)
LiveRunIsServed ==
  \A r \in Runs : Live(r) =>
    /\ runIdByDefinition[runById[r].definition] = r
    /\ r \in registered
    /\ ResolveByRun(r) = r

(* The active run of a definition has a higher version than every run the   *)
(* definition ever had, also after deletions: what fencing relies on.       *)
CurrentVersionIsHighest ==
  \A r, s \in Runs :
    /\ Live(r) /\ Started(s) /\ r # s
    /\ runById[r].definition = runById[s].definition
    => runById[s].version < runById[r].version

(* Policy and repository keep a run's health separately and agree on it at  *)
(* every await, whatever late answers of other commands arrive.             *)
DegradationAgrees ==
  \A r \in Runs : Live(r) =>
    (runById[r].status = "degraded" <=> failureState[r].status # "none")

(* Two failing commands never deliver a stop of one run together.           *)
OneStopInFlight ==
  \A c1, c2 \in Commands :
    /\ At(c1, "stopping") /\ At(c2, "stopping")
    /\ command[c1].run = command[c2].run
    => c1 = c2

(* A command only ever works for a run of its own team's definition, even   *)
(* when that run was replaced while the command was suspended.              *)
CommandKeepsDefinition ==
  \A c \in Commands : command[c].run # NoRun =>
    /\ Started(command[c].run)
    /\ runById[command[c].run].definition = DefinitionOf[command[c].team]

(* A run that is gone stays gone: commands still suspended on it neither    *)
(* revive its record nor give it an adapter again.                          *)
DeadRunStaysDead ==
  [][\A r \in Runs : Started(r) /\ ~Live(r) => /\ ~Live(r)'
                                               /\ r \notin registered']_vars

(* Only a run that was degraded and then crossed a threshold is removed,    *)
(* also when the policy state may have changed while the stop was awaited.  *)
OnlyFailingRunsStop ==
  [][\A r \in Runs : Live(r) /\ ~Live(r)' =>
       /\ runById[r].status = "degraded"
       /\ failureState[r].status = "stopped"]_vars

=============================================================================
