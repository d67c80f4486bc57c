---------------------------- MODULE TeamRunProofs ----------------------------
(****************************************************************************)
(* Safety of the host control plane for every number of teams, definitions, *)
(* commands and runs.  The run properties are not inductive one by one: the *)
(* locator part needs that a definition has one active run, the health part *)
(* needs that a suspended stop still finds its run active, and so on, so    *)
(* they are proved together as IInv.                                        *)
(****************************************************************************)
EXTENDS TeamRun, EventUplink, FiniteSetTheorems, TLAPS

\* Repository and registry: index, adapters and versions of the runs.
RepoInv ==
  /\ \A d \in Definitions : runIdByDefinition[d] # NoRun =>
       /\ Live(runIdByDefinition[d])
       /\ runById[runIdByDefinition[d]].definition = d
  /\ \A r \in Runs : Live(r) => runIdByDefinition[runById[r].definition] = r
  /\ \A r \in Runs : Live(r) <=> r \in registered
  /\ \A s \in Runs : Started(s) =>
       runById[s].version <= nextRunVersion[runById[s].definition]
  /\ CurrentVersionIsHighest

\* Locator: the two maps agree on active runs and respect definitions.
LocatorInv ==
  /\ \A t \in Teams : recordByTeamId[t] # NoRun =>
       /\ Started(recordByTeamId[t])
       /\ runById[recordByTeamId[t]].definition = DefinitionOf[t]
  /\ \A r \in Runs : Live(r) =>
       /\ recordByRunId[r] # NoTeam
       /\ recordByTeamId[recordByRunId[r]] = r

\* Health: policy and repository agree, and nothing failed before a start.
HealthInv ==
  /\ DegradationAgrees
  /\ \A r \in Runs : ~Started(r) => failureState[r].status = "none"

\* Commands: where they are suspended tells what run they hold.
CommandInv ==
  /\ CommandKeepsDefinition
  /\ \A c \in Commands : At(c, "stopping") =>
       /\ Live(command[c].run)
       /\ failureState[command[c].run].status = "stopped"
  /\ OneStopInFlight

\* What a run is after a step, for a run id that the step itself may forget.
LiveAfter(r) == runById'[r].status \in {"running", "degraded"}

IInv == TypeOK /\ RepoInv /\ LocatorInv /\ HealthInv /\ CommandInv

-----------------------------------------------------------------------------
(* A failure leaves a well-formed state that is never "none", and one that  *)
(* asked for a stop keeps asking (RunDegradationPolicy.recordRouteFailure). *)
LEMMA AfterFailureFacts ==
  ASSUME NEW old \in FailureState, NEW kept \in 0 .. old.recent, NEW coord \in BOOLEAN
  PROVE  LET new == AfterFailure(old, kept, coord)
         IN  /\ new \in FailureState
             /\ new.status \in {"degraded", "stopped"}
             /\ old.status = "none" => new.status = "degraded"
             /\ old.status = "stopped" => new.status = "stopped"
<1>1. Saturate(old.coordinator + 1, CoordinatorFailureThreshold)
        \in 0 .. CoordinatorFailureThreshold
  BY TeamRunAssumption DEF Saturate, FailureState
<1>2. Saturate(kept + 1, GlobalFailureThreshold) \in 0 .. GlobalFailureThreshold
  BY TeamRunAssumption DEF Saturate, FailureState
<1>3. 0 \in 0 .. CoordinatorFailureThreshold
  BY TeamRunAssumption
<1>4. old.status \in {"none", "degraded", "stopped"}
  BY DEF FailureState
<1> QED
  BY <1>1, <1>2, <1>3, <1>4 DEF AfterFailure, FailureState

(* Every variable keeps its type along every step of the model.             *)
LEMMA TypeStep == TypeOK /\ [Next]_vars => TypeOK'
<1> SUFFICES ASSUME TypeOK, [Next]_vars PROVE TypeOK'
  OBVIOUS
<1> USE TeamRunAssumption DEF TypeOK, Runs, NoRun
<1>a. \A t \in Teams : ResolvesTo(t) \in Runs \cup {NoRun}
  BY DEF ResolvesTo
<1>b. ASSUME NEW t \in Teams, ResolveActiveRun(t)
      PROVE  /\ recordByTeamId' \in [Teams -> Runs \cup {NoRun}]
             /\ recordByRunId' \in [Runs -> Teams \cup {NoTeam}]
  BY <1>b DEF ResolveActiveRun
<1>c. ASSUME NEW c \in Commands, Finish(c) PROVE CommandTypeOK'
  BY <1>c DEF Finish, Idle, Command, CommandTypeOK
<1>e. ASSUME NEW c \in Commands, NEW t \in Teams, NEW r \in Runs \cup {NoRun},
             NEW place \in {"definition", "resolved", "dispatching", "stopping"},
             NEW coord \in BOOLEAN, Suspend(c, place, t, r, coord),
             place # "definition" => r # NoRun
      PROVE  CommandTypeOK'
  <2>1. (r \in registered) \in BOOLEAN
    OBVIOUS
  <2>2. DEFINE new == [at |-> place, team |-> t, run |-> r, toCoordinator |-> coord,
                       adapter |-> r \in registered]
  <2>3. new \in Command
    BY <2>1 DEF Command
  <2>4. new.at = place /\ new.team = t /\ new.run = r
    OBVIOUS
  <2>5. command' = [command EXCEPT ![c] = new]
    BY <1>e DEF Suspend
  <2> HIDE DEF new
  <2> QED
    BY <1>e, <2>3, <2>4, <2>5 DEF CommandTypeOK
<1>f. \A c \in Commands : ~At(c, "idle") => command[c].team \in Teams
  BY DEF At, Command, CommandTypeOK
<1>g. \A c \in Commands :
        At(c, "resolved") \/ At(c, "dispatching") \/ At(c, "stopping") => command[c].run \in Runs
  BY DEF At, Command, CommandTypeOK
<1>d. ASSUME NEW r \in Runs, NEW st \in {"degraded", "stopped"}
      PROVE  UpdateRunStatus(r, st) \in [Runs -> RunRecord]
  BY DEF UpdateRunStatus, RunRecord
<1>1. ASSUME NEW c \in Commands, NEW t \in Teams, ReceiveMessage(c, t) PROVE TypeOK'
  <2>1. CommandTypeOK'
    BY <1>1, <1>a, <1>e DEF ReceiveMessage
  <2> QED
    BY <1>1, <1>b, <2>1 DEF ReceiveMessage, repoVars
<1>2. ASSUME NEW c \in Commands, NEW t \in Teams, ReceiveApproval(c, t) PROVE TypeOK'
  <2>1. CommandTypeOK'
    BY <1>2, <1>a, <1>e DEF ReceiveApproval
  <2> QED
    BY <1>2, <1>b, <2>1 DEF ReceiveApproval, repoVars
<1>3. ASSUME NEW c \in Commands, DefinitionLoaded(c) PROVE TypeOK'
  <2> DEFINE t == command[c].team
             d == DefinitionOf[t]
  <2>1. t \in Teams /\ d \in Definitions
    BY <1>3, <1>f DEF DefinitionLoaded, At
  <2>2. PICK r \in Runs : /\ StartRunIfMissing(d, r)
                          /\ RememberRun(t, r)
                          /\ Suspend(c, "resolved", t, r, FALSE)
    BY <1>3 DEF DefinitionLoaded
  <2> HIDE DEF t, d
  <2>3. CommandTypeOK'
    <3>1. r \in Runs \cup {NoRun} /\ r # NoRun
      OBVIOUS
    <3> QED
      BY <2>1, <2>2, <3>1, <1>e
  <2>4. /\ recordByTeamId' \in [Teams -> Runs \cup {NoRun}]
        /\ recordByRunId' \in [Runs -> Teams \cup {NoTeam}]
    BY <2>1, <2>2 DEF RememberRun
  <2>5. /\ runById' \in [Runs -> RunRecord]
        /\ runIdByDefinition' \in [Definitions -> Runs \cup {NoRun}]
        /\ nextRunVersion' \in [Definitions -> Nat]
        /\ registered' \subseteq Runs
    <3>1. nextRunVersion[d] + 1 \in Nat
      BY <2>1
    <3>2. [definition |-> d, version |-> nextRunVersion[d] + 1, status |-> "running"]
            \in RunRecord
      BY <2>1, <3>1 DEF RunRecord
    <3>3. CASE GetActiveRunByDefinitionId(d) # NoRun
      BY <2>2, <3>3 DEF StartRunIfMissing, repoVars
    <3>4. CASE GetActiveRunByDefinitionId(d) = NoRun
      <4> DEFINE new == [definition |-> d, version |-> nextRunVersion[d] + 1,
                         status |-> "running"]
      <4>1. /\ nextRunVersion' = [nextRunVersion EXCEPT ![d] = nextRunVersion[d] + 1]
            /\ runById' = [runById EXCEPT ![r] = new]
            /\ runIdByDefinition' = [runIdByDefinition EXCEPT ![d] = r]
            /\ registered' = registered \cup {r}
        BY <2>2, <3>4 DEF StartRunIfMissing
      <4> HIDE DEF new
      <4>2. new \in RunRecord
        BY <3>2 DEF new
      <4>3. nextRunVersion' \in [Definitions -> Nat]
        BY <3>1, <4>1
      <4>4. runById' \in [Runs -> RunRecord]
        BY <4>1, <4>2
      <4> QED
        BY <4>1, <4>3, <4>4
    <3> QED
      BY <3>3, <3>4
  <2> QED
    BY <1>3, <2>3, <2>4, <2>5 DEF DefinitionLoaded
<1>4. ASSUME NEW c \in Commands, DefinitionRefused(c) \/ StopFailed(c) PROVE TypeOK'
  <2>1. CommandTypeOK'
    BY <1>4, <1>c DEF DefinitionRefused, StopFailed
  <2> QED
    BY <1>4, <2>1 DEF DefinitionRefused, StopFailed, repoVars, locatorVars
<1>5. ASSUME NEW c \in Commands, BeginDispatch(c) PROVE TypeOK'
  <2>1. command[c].run \in Runs /\ command[c].team \in Teams
    BY <1>5, <1>f, <1>g DEF BeginDispatch, At
  <2>2. CommandTypeOK'
    BY <1>5, <2>1, <1>c, <1>e DEF BeginDispatch
  <2> QED
    BY <1>5, <2>2 DEF BeginDispatch, repoVars, locatorVars
<1>6. ASSUME NEW c \in Commands, DispatchAccepted(c) PROVE TypeOK'
  <2>1. CommandTypeOK'
    BY <1>6, <1>c DEF DispatchAccepted
  <2>2. ASSUME NEW old \in FailureState
        PROVE  [old EXCEPT !.coordinator = 0] \in FailureState
    <3>1. 0 \in 0 .. CoordinatorFailureThreshold
      OBVIOUS
    <3> QED
      BY <3>1 DEF FailureState
  <2>3. failureState' \in [Runs -> FailureState]
    BY <1>6, <2>2 DEF DispatchAccepted, RecordRouteSuccess
  <2> QED
    BY <1>6, <2>1, <2>3 DEF DispatchAccepted, repoVars, locatorVars
<1>7. ASSUME NEW c \in Commands, DispatchFailed(c) PROVE TypeOK'
  <2> DEFINE r == command[c].run
             coord == command[c].toCoordinator
  <2>1. r \in Runs /\ command[c].team \in Teams /\ coord \in BOOLEAN
    BY <1>7, <1>f, <1>g DEF DispatchFailed, At, Command, CommandTypeOK
  <2>2. PICK kept \in 0 .. failureState[r].recent :
          failureState' = [failureState EXCEPT ![r] =
                             AfterFailure(failureState[r], kept, coord)]
    BY <1>7 DEF DispatchFailed
  <2>3. AfterFailure(failureState[r], kept, coord) \in FailureState
    BY <2>1, AfterFailureFacts
  <2>4. failureState' \in [Runs -> FailureState]
    BY <2>2, <2>3
  <2>5. /\ \/ Finish(c) \/ Suspend(c, "stopping", command[c].team, r, FALSE)
        /\ runById' = UpdateRunStatus(r, "degraded") \/ UNCHANGED runById
        /\ UNCHANGED <<runIdByDefinition, nextRunVersion, registered, locatorVars, liveTeams>>
    BY <1>7 DEF DispatchFailed
  <2>6. CommandTypeOK'
    <3>1. r \in Runs \cup {NoRun} /\ r # NoRun
      BY <2>1
    <3> HIDE DEF r
    <3> QED
      BY <2>1, <2>5, <3>1, <1>c, <1>e
  <2>7. runById' \in [Runs -> RunRecord]
    <3>1. UpdateRunStatus(r, "degraded") \in [Runs -> RunRecord]
      <4> HIDE DEF r
      <4> QED
        BY <2>1, <1>d
    <3>2. runById \in [Runs -> RunRecord]
      OBVIOUS
    <3> QED
      BY <2>5, <3>1, <3>2
  <2> QED
    BY <2>4, <2>5, <2>6, <2>7 DEF locatorVars
<1>8. ASSUME NEW c \in Commands, StopAccepted(c) PROVE TypeOK'
  <2>1. command[c].run \in Runs
    BY <1>8, <1>g DEF StopAccepted
  <2>2. CommandTypeOK'
    BY <1>8, <1>c DEF StopAccepted
  <2>3. NoFailures \in FailureState
    BY DEF NoFailures, FailureState
  <2>4. runById' \in [Runs -> RunRecord]
    BY <1>8, <2>1, <1>d DEF StopAccepted, ForgetRun
  <2> QED
    BY <1>8, <2>1, <2>2, <2>3, <2>4 DEF StopAccepted, ForgetRun, locatorVars
<1>9. ASSUME NEW t \in Teams, LookupTeam(t) \/ TerminateTeam(t) \/ CreateTeam(t)
      PROVE  TypeOK'
  <2>1. CASE LookupTeam(t)
    BY <2>1, <1>b DEF LookupTeam, repoVars, CommandTypeOK
  <2>2. CASE TerminateTeam(t) \/ CreateTeam(t)
    BY <2>2 DEF TerminateTeam, CreateTeam, repoVars, locatorVars, CommandTypeOK
  <2> QED
    BY <1>9, <2>1, <2>2
<1>10. ASSUME NEW r \in Runs, LookupRun(r) PROVE TypeOK'
  <2>1. recordByRunId[r] \in Teams
    BY <1>10 DEF LookupRun
  <2> QED
    BY <1>10, <1>b, <2>1 DEF LookupRun, repoVars, CommandTypeOK
<1>11. ASSUME UNCHANGED vars PROVE TypeOK'
  BY <1>11 DEF vars, repoVars, locatorVars, CommandTypeOK
<1> QED
  BY <1>1, <1>2, <1>3, <1>4, <1>5, <1>6, <1>7, <1>8, <1>9, <1>10, <1>11
  DEF Next, CommandStep

(* The variables only ever hold what the code's maps can hold.              *)
THEOREM TypeCorrect == Spec => []TypeOK
<1>1. Init => TypeOK
  <2> SUFFICES ASSUME Init PROVE TypeOK
    OBVIOUS
  <2>1. (CHOOSE d \in Definitions : TRUE) \in Definitions
    BY TeamRunAssumption
  <2>2. NoFailures \in FailureState /\ Idle \in Command
    BY TeamRunAssumption DEF NoFailures, FailureState, Idle, Command, NoRun
  <2> QED
    BY <2>1, <2>2 DEF Init, TypeOK, CommandTypeOK, RunRecord, Idle
<1> QED
  BY <1>1, TypeStep, PTL DEF Spec

-----------------------------------------------------------------------------
(* Steps that touch neither repository, registry nor locator.               *)
LEMMA RepoUnchanged ==
  RepoInv /\ UNCHANGED <<repoVars, registered>> => RepoInv'
BY DEF RepoInv, repoVars, Live, Started, CurrentVersionIsHighest

LEMMA LocatorUnchanged ==
  LocatorInv /\ UNCHANGED <<runById, locatorVars>> => LocatorInv'
BY DEF LocatorInv, locatorVars, Live, Started

LEMMA HealthUnchanged ==
  HealthInv /\ UNCHANGED <<runById, failureState>> => HealthInv'
BY DEF HealthInv, DegradationAgrees, Live, Started

(* resolveActiveRun only forgets runs that are gone, so whatever an active  *)
(* run needs in the locator survives.                                       *)
LEMMA ResolveActiveRunKeepsLocator ==
  ASSUME TypeOK, LocatorInv, NEW t \in Teams, ResolveActiveRun(t), UNCHANGED runById
  PROVE  LocatorInv'
<1> USE DEF TypeOK, Runs, NoRun
<1>1. CASE recordByTeamId[t] # NoRun /\ ~Live(recordByTeamId[t])
  <2> DEFINE gone == recordByTeamId[t]
  <2>1. gone \in Runs
    BY <1>1
  <2>2. /\ recordByTeamId' = [recordByTeamId EXCEPT ![t] = NoRun]
        /\ recordByRunId' = [recordByRunId EXCEPT ![gone] = NoTeam]
    BY <1>1 DEF ResolveActiveRun
  <2>3. ASSUME NEW u \in Teams, recordByTeamId'[u] # NoRun
        PROVE  /\ Started(recordByTeamId[u])'
               /\ runById'[recordByTeamId'[u]].definition = DefinitionOf[u]
    BY <2>2, <2>3 DEF LocatorInv, Started
  <2>4. ASSUME NEW r \in Runs, Live(r)'
        PROVE  /\ recordByRunId'[r] # NoTeam
               /\ recordByTeamId'[recordByRunId'[r]] = r
    <3>1. Live(r) /\ r # gone
      BY <1>1, <2>4 DEF Live
    <3>2. recordByRunId'[r] = recordByRunId[r] /\ recordByRunId[r] \in Teams
      BY <2>1, <2>2, <3>1 DEF LocatorInv
    <3>3. recordByRunId[r] # t
      BY <3>1 DEF LocatorInv
    <3> QED
      BY <2>2, <3>1, <3>2, <3>3 DEF LocatorInv
  <2> QED
    BY <2>3, <2>4 DEF LocatorInv
<1>2. CASE ~(recordByTeamId[t] # NoRun /\ ~Live(recordByTeamId[t]))
  BY <1>2, LocatorUnchanged DEF ResolveActiveRun, locatorVars
<1> QED
  BY <1>1, <1>2

(* A command suspended elsewhere than in a stop, with a run of its team's   *)
(* definition or none, keeps what is known of the commands.                 *)
LEMMA SuspendKeepsCommands ==
  ASSUME TypeOK, CommandInv, NEW c \in Commands, NEW t \in Teams,
         NEW r \in Runs \cup {NoRun}, NEW coord \in BOOLEAN,
         NEW place \in {"definition", "resolved", "dispatching"},
         Suspend(c, place, t, r, coord),
         r # NoRun => Started(r)' /\ runById'[r].definition = DefinitionOf[t],
         \A s \in Runs : Started(s) =>
           Started(s)' /\ runById'[s].definition = runById[s].definition,
         \A s \in Runs : Live(s) /\ failureState[s].status = "stopped" =>
           Live(s)' /\ failureState'[s].status = "stopped"
  PROVE  CommandInv'
<1> USE DEF TypeOK, CommandTypeOK, Command
<1>1. /\ command'[c].at = place /\ command'[c].team = t /\ command'[c].run = r
      /\ \A b \in Commands : b # c => command'[b] = command[b]
  BY DEF Suspend
<1>2. CommandKeepsDefinition'
  BY <1>1 DEF CommandKeepsDefinition, CommandInv
<1>3. \A b \in Commands : At(b, "stopping")' => b # c /\ At(b, "stopping")
  BY <1>1 DEF At
<1>4. \A b \in Commands : At(b, "stopping")' =>
        Live(command[b].run)' /\ failureState'[command'[b].run].status = "stopped"
  BY <1>1, <1>3 DEF CommandInv, At, Live
<1>5. OneStopInFlight'
  BY <1>1, <1>3 DEF CommandInv, OneStopInFlight
<1> QED
  BY <1>2, <1>4, <1>5 DEF CommandInv

(* So does a command that finishes.                                         *)
LEMMA FinishKeepsCommands ==
  ASSUME TypeOK, CommandInv, NEW c \in Commands, Finish(c),
         \A s \in Runs : Started(s) =>
           Started(s)' /\ runById'[s].definition = runById[s].definition,
         \A b \in Commands : b # c /\ At(b, "stopping") =>
           LiveAfter(command[b].run) /\ failureState'[command[b].run].status = "stopped"
  PROVE  CommandInv'
<1> USE DEF TypeOK, CommandTypeOK, Command
<1>1. /\ command'[c] = Idle
      /\ \A b \in Commands : b # c => command'[b] = command[b]
  BY DEF Finish
<1>2. CommandKeepsDefinition'
  BY <1>1 DEF CommandKeepsDefinition, CommandInv, Idle
<1>3. \A b \in Commands : At(b, "stopping")' => b # c /\ At(b, "stopping")
  BY <1>1 DEF At, Idle
<1>4. \A b \in Commands : At(b, "stopping")' =>
        Live(command[b].run)' /\ failureState'[command'[b].run].status = "stopped"
  BY <1>1, <1>3 DEF Live, LiveAfter
<1>5. OneStopInFlight'
  BY <1>1, <1>3 DEF CommandInv, OneStopInFlight
<1> QED
  BY <1>2, <1>4, <1>5 DEF CommandInv

-----------------------------------------------------------------------------
(* startRunIfMissing answers an active run of the definition, changes no    *)
(* earlier run, and keeps index, adapters and versions consistent.          *)
LEMMA StartRunFacts ==
  ASSUME TypeOK, RepoInv, NEW d \in Definitions, NEW r \in Runs, StartRunIfMissing(d, r)
  PROVE  /\ RepoInv'
         /\ Live(r)' /\ runById'[r].definition = d
         /\ \A s \in Runs : Started(s) => runById'[s] = runById[s]
         /\ \A s \in Runs : s # r => runById'[s] = runById[s]
         /\ runById' = runById \/ (~Started(r) /\ runById'[r].status = "running")
<1> USE DEF TypeOK
<1>1. CASE GetActiveRunByDefinitionId(d) # NoRun
  <2>1. UNCHANGED <<repoVars, registered>> /\ r = runIdByDefinition[d] /\ Live(r)
    BY <1>1 DEF StartRunIfMissing, GetActiveRunByDefinitionId
  <2>2. runById[r].definition = d
    BY <2>1 DEF RepoInv, Runs, NoRun
  <2> QED
    BY <2>1, <2>2, RepoUnchanged DEF repoVars, Live
<1>2. CASE GetActiveRunByDefinitionId(d) = NoRun
  <2> DEFINE new == [definition |-> d, version |-> nextRunVersion[d] + 1,
                     status |-> "running"]
  <2>1. /\ ~Started(r)
        /\ nextRunVersion' = [nextRunVersion EXCEPT ![d] = nextRunVersion[d] + 1]
        /\ runById' = [runById EXCEPT ![r] = new]
        /\ runIdByDefinition' = [runIdByDefinition EXCEPT ![d] = r]
        /\ registered' = registered \cup {r}
    BY <1>2 DEF StartRunIfMissing, Fresh
  <2>2. /\ runById'[r] = new
        /\ \A s \in Runs : s # r => runById'[s] = runById[s]
    BY <2>1
  <2>3. new.definition = d /\ new.version = nextRunVersion[d] + 1 /\ new.status = "running"
    OBVIOUS
  <2> HIDE DEF new
  <2>4. \A s \in Runs : Live(s) => runById[s].definition # d
    BY <1>2 DEF GetActiveRunByDefinitionId, RepoInv, Runs, NoRun
  <2>5. /\ Live(r)' /\ Started(r)' /\ ~Live(r)
        /\ \A s \in Runs : s # r => /\ Live(s)' <=> Live(s)
                                    /\ Started(s)' <=> Started(s)
    BY <2>1, <2>2, <2>3 DEF Live, Started
  <2>6. ASSUME NEW e \in Definitions, runIdByDefinition'[e] # NoRun
        PROVE  /\ Live(runIdByDefinition[e])'
               /\ runById'[runIdByDefinition'[e]].definition = e
    <3>1. CASE e = d
      BY <2>1, <2>2, <2>3, <2>5, <3>1
    <3>2. CASE e # d
      <4>1. runIdByDefinition'[e] = runIdByDefinition[e]
        BY <2>1, <3>2
      <4>2. /\ runIdByDefinition[e] \in Runs /\ Live(runIdByDefinition[e])
            /\ runById[runIdByDefinition[e]].definition = e
        BY <2>6, <4>1 DEF RepoInv
      <4> QED
        BY <2>2, <2>5, <4>1, <4>2 DEF Live
    <3> QED
      BY <3>1, <3>2
  <2>7. ASSUME NEW s \in Runs, Live(s)'
        PROVE  runIdByDefinition'[runById'[s].definition] = s
    <3>1. CASE s = r
      BY <2>1, <2>2, <2>3, <3>1
    <3>2. CASE s # r
      <4>1. Live(s) /\ runById'[s] = runById[s] /\ runById[s].definition # d
        BY <2>2, <2>4, <2>5, <2>7, <3>2
      <4>2. runById[s].definition \in Definitions
        BY DEF RunRecord
      <4> QED
        BY <2>1, <4>1, <4>2 DEF RepoInv
    <3> QED
      BY <3>1, <3>2
  <2>8. \A s \in Runs : Live(s)' <=> s \in registered'
    BY <2>1, <2>5 DEF RepoInv
  <2>9. \A s \in Runs : Started(s) =>
          runById[s].definition \in Definitions /\ runById[s].version \in Nat
    BY DEF RunRecord
  <2>10. ASSUME NEW s \in Runs, Started(s)'
         PROVE  runById'[s].version <= nextRunVersion'[runById'[s].definition]
    <3>1. CASE s = r
      BY <2>1, <2>2, <2>3, <3>1
    <3>2. CASE s # r
      <4>1. Started(s) /\ runById'[s] = runById[s]
        BY <2>2, <2>5, <2>10, <3>2
      <4>2. runById[s].version <= nextRunVersion[runById[s].definition]
        BY <4>1 DEF RepoInv
      <4>3. nextRunVersion[runById[s].definition] \in Nat /\ runById[s].version \in Nat
        BY <2>9, <4>1
      <4>4. \/ nextRunVersion'[runById[s].definition] = nextRunVersion[runById[s].definition]
            \/ nextRunVersion'[runById[s].definition] = nextRunVersion[runById[s].definition] + 1
        BY <2>1, <2>9, <4>1
      <4> QED
        BY <4>1, <4>2, <4>3, <4>4
    <3> QED
      BY <3>1, <3>2
  <2>11. CurrentVersionIsHighest'
    <3> SUFFICES ASSUME NEW u \in Runs, NEW s \in Runs, Live(u)', Started(s)', u # s,
                        runById'[u].definition = runById'[s].definition
                 PROVE  runById'[s].version < runById'[u].version
      BY DEF CurrentVersionIsHighest
    <3>1. CASE u = r
      <4>1. Started(s) /\ runById'[s] = runById[s] /\ runById[s].definition = d
        BY <2>2, <2>3, <2>5, <3>1
      <4>2. runById[s].version <= nextRunVersion[d] /\ runById[s].version \in Nat
        BY <2>9, <4>1 DEF RepoInv
      <4> QED
        BY <2>2, <2>3, <3>1, <4>1, <4>2
    <3>2. CASE s = r
      BY <2>2, <2>3, <2>4, <2>5, <3>2
    <3>3. CASE u # r /\ s # r
      BY <2>2, <2>5, <3>3 DEF RepoInv, CurrentVersionIsHighest
    <3> QED
      BY <3>1, <3>2, <3>3
  <2>12. RepoInv'
    BY <2>6, <2>7, <2>8, <2>10, <2>11 DEF RepoInv
  <2> QED
    BY <2>1, <2>2, <2>3, <2>5, <2>12
<1> QED
  BY <1>1, <1>2

(* A stop that every node acknowledged removes one run and nothing else.    *)
LEMMA ForgetRunFacts ==
  ASSUME TypeOK, RepoInv, NEW r \in Runs, ForgetRun(r), Live(r)
  PROVE  /\ RepoInv'
         /\ ~Live(r)' /\ Started(r)'
         /\ runById'[r].definition = runById[r].definition
         /\ \A s \in Runs : s # r => runById'[s] = runById[s]
<1> USE DEF TypeOK
<1> DEFINE d == runById[r].definition
<1>1. d \in Definitions /\ runIdByDefinition[d] = r
  BY DEF RunRecord, RepoInv
<1>2. /\ runById' = [runById EXCEPT ![r].status = "stopped"]
      /\ runIdByDefinition' = [runIdByDefinition EXCEPT ![d] = NoRun]
      /\ registered' = registered \ {r}
      /\ nextRunVersion' = nextRunVersion
  BY DEF ForgetRun, UpdateRunStatus
<1> HIDE DEF d
<1>3. /\ runById'[r].status = "stopped"
      /\ runById'[r].definition = runById[r].definition
      /\ runById'[r].version = runById[r].version
      /\ \A s \in Runs : s # r => runById'[s] = runById[s]
  BY <1>2 DEF RunRecord
<1>4. /\ ~Live(r)' /\ Started(r)' /\ Started(r)
      /\ \A s \in Runs : s # r => /\ Live(s)' <=> Live(s)
                                  /\ Started(s)' <=> Started(s)
  BY <1>3 DEF Live, Started
<1>5. ASSUME NEW e \in Definitions, runIdByDefinition'[e] # NoRun
      PROVE  /\ Live(runIdByDefinition[e])'
             /\ runById'[runIdByDefinition'[e]].definition = e
  <2>1. e # d /\ runIdByDefinition'[e] = runIdByDefinition[e]
    BY <1>1, <1>2, <1>5
  <2>2. /\ runIdByDefinition[e] \in Runs /\ Live(runIdByDefinition[e])
        /\ runById[runIdByDefinition[e]].definition = e
    BY <1>5, <2>1 DEF RepoInv
  <2>3. runIdByDefinition[e] # r
    BY <2>1, <2>2 DEF d
  <2> QED
    BY <1>3, <1>4, <2>1, <2>2, <2>3 DEF Live
<1>6. ASSUME NEW s \in Runs, Live(s)'
      PROVE  runIdByDefinition'[runById'[s].definition] = s
  <2>1. s # r /\ Live(s) /\ runById'[s] = runById[s]
    BY <1>3, <1>4, <1>6
  <2>2. runIdByDefinition[runById[s].definition] = s /\ runById[s].definition \in Definitions
    BY <2>1 DEF RepoInv, RunRecord
  <2>3. runById[s].definition # d
    BY <1>1, <2>1, <2>2
  <2> QED
    BY <1>2, <2>1, <2>2, <2>3
<1>7. \A s \in Runs : Live(s)' <=> s \in registered'
  BY <1>2, <1>4 DEF RepoInv
<1>8. \A s \in Runs : Started(s)' =>
        runById'[s].version <= nextRunVersion'[runById'[s].definition]
  BY <1>2, <1>3, <1>4 DEF RepoInv
<1>9. CurrentVersionIsHighest'
  BY <1>3, <1>4 DEF RepoInv, CurrentVersionIsHighest
<1>10. RepoInv'
  BY <1>5, <1>6, <1>7, <1>8, <1>9 DEF RepoInv
<1> QED
  BY <1>3, <1>4, <1>10

-----------------------------------------------------------------------------
(* The invariant holds initially.                                           *)
LEMMA IInvInit == Init => IInv
<1> SUFFICES ASSUME Init PROVE IInv
  OBVIOUS
<1>1. TypeOK
  <2>1. (CHOOSE d \in Definitions : TRUE) \in Definitions
    BY TeamRunAssumption
  <2>2. NoFailures \in FailureState /\ Idle \in Command
    BY TeamRunAssumption DEF NoFailures, FailureState, Idle, Command, NoRun
  <2> QED
    BY <2>1, <2>2 DEF Init, TypeOK, CommandTypeOK, RunRecord, Idle
<1>2. \A r \in Runs : ~Live(r) /\ ~Started(r)
  BY DEF Init, Live, Started
<1>3. RepoInv /\ LocatorInv
  BY <1>2 DEF Init, RepoInv, LocatorInv, CurrentVersionIsHighest
<1>4. HealthInv
  BY <1>2 DEF Init, HealthInv, DegradationAgrees, NoFailures
<1>5. CommandInv
  BY DEF Init, CommandInv, CommandKeepsDefinition, OneStopInFlight, At, Idle
<1> QED
  BY <1>1, <1>3, <1>4, <1>5 DEF IInv

(* Steps that leave repository, registry, policy and locator alone.         *)
LEMMA QuietStep ==
  ASSUME IInv, UNCHANGED <<repoVars, registered, failureState, locatorVars>>
  PROVE  RepoInv' /\ LocatorInv' /\ HealthInv'
BY RepoUnchanged, LocatorUnchanged, HealthUnchanged DEF IInv, repoVars

LEMMA CommandsUnchanged ==
  ASSUME IInv, UNCHANGED <<runById, failureState, command>>
  PROVE  CommandInv'
BY DEF IInv, CommandInv, CommandKeepsDefinition, OneStopInFlight, At, Live, Started

(* Every action preserves the invariant.                                    *)
LEMMA IInvStep == IInv /\ [Next]_vars => IInv'
<1> SUFFICES ASSUME IInv, [Next]_vars PROVE IInv'
  OBVIOUS
<1> USE DEF IInv
<1>t. TypeOK'
  BY TypeStep
<1>a. \A c \in Commands : ~At(c, "idle") => command[c].team \in Teams
  BY DEF At, TypeOK, Command, CommandTypeOK
<1>b. \A c \in Commands :
        At(c, "resolved") \/ At(c, "dispatching") \/ At(c, "stopping") => command[c].run \in Runs
  BY DEF At, TypeOK, Command, CommandTypeOK
<1>c. \A t \in Teams : ResolvesTo(t) # NoRun =>
        /\ ResolvesTo(t) \in Runs /\ Live(ResolvesTo(t)) /\ Started(ResolvesTo(t))
        /\ runById[ResolvesTo(t)].definition = DefinitionOf[t]
  <2> TAKE t \in Teams
  <2> HAVE ResolvesTo(t) # NoRun
  <2>1. ResolvesTo(t) = recordByTeamId[t] /\ Live(recordByTeamId[t])
    BY DEF ResolvesTo
  <2> QED
    BY <2>1 DEF LocatorInv, TypeOK, Live, Started
<1>d. ASSUME UNCHANGED <<runById, failureState>>
      PROVE  /\ \A s \in Runs : Started(s) =>
                  Started(s)' /\ runById'[s].definition = runById[s].definition
             /\ \A s \in Runs : Live(s) /\ failureState[s].status = "stopped" =>
                  Live(s)' /\ failureState'[s].status = "stopped"
             /\ \A b \in Commands : At(b, "stopping") =>
                  /\ LiveAfter(command[b].run)
                  /\ failureState'[command[b].run].status = "stopped"
  BY <1>d DEF Started, Live, LiveAfter, CommandInv
<1>1. ASSUME NEW c \in Commands, NEW t \in Teams, ReceiveMessage(c, t) PROVE IInv'
  <2>1. UNCHANGED <<repoVars, registered, failureState>> /\ ResolveActiveRun(t)
    BY <1>1 DEF ReceiveMessage
  <2>2. RepoInv' /\ LocatorInv' /\ HealthInv'
    BY <2>1, RepoUnchanged, ResolveActiveRunKeepsLocator, HealthUnchanged DEF repoVars
  <2>3. CASE ResolvesTo(t) # NoRun /\ Suspend(c, "resolved", t, ResolvesTo(t), FALSE)
    BY <2>1, <2>2, <2>3, <1>t, <1>c, <1>d, SuspendKeepsCommands DEF repoVars, Started
  <2>4. CASE ResolvesTo(t) = NoRun /\ Suspend(c, "definition", t, NoRun, FALSE)
    BY <2>1, <2>2, <2>4, <1>t, <1>d, SuspendKeepsCommands DEF repoVars
  <2> QED
    BY <1>1, <2>3, <2>4 DEF ReceiveMessage
<1>2. ASSUME NEW c \in Commands, NEW t \in Teams, ReceiveApproval(c, t) PROVE IInv'
  <2>1. UNCHANGED <<repoVars, registered, failureState>> /\ ResolveActiveRun(t)
    BY <1>2 DEF ReceiveApproval
  <2>2. RepoInv' /\ LocatorInv' /\ HealthInv'
    BY <2>1, RepoUnchanged, ResolveActiveRunKeepsLocator, HealthUnchanged DEF repoVars
  <2>3. PICK coord \in BOOLEAN :
          ResolvesTo(t) # NoRun /\ Suspend(c, "dispatching", t, ResolvesTo(t), coord)
    BY <1>2 DEF ReceiveApproval
  <2> QED
    BY <2>1, <2>2, <2>3, <1>t, <1>c, <1>d, SuspendKeepsCommands DEF repoVars, Started
<1>3. ASSUME NEW c \in Commands, DefinitionLoaded(c) PROVE IInv'
  <2> DEFINE t == command[c].team
             d == DefinitionOf[t]
  <2>1. t \in Teams /\ d \in Definitions
    BY <1>3, <1>a, TeamRunAssumption DEF DefinitionLoaded, At
  <2>2. PICK r \in Runs : /\ StartRunIfMissing(d, r)
                          /\ RememberRun(t, r)
                          /\ Suspend(c, "resolved", t, r, FALSE)
    BY <1>3 DEF DefinitionLoaded
  <2>3. UNCHANGED failureState
    BY <1>3 DEF DefinitionLoaded
  <2>d. d = DefinitionOf[t]
    OBVIOUS
  <2> HIDE DEF t, d
  <2>4. /\ RepoInv'
        /\ Live(r)' /\ runById'[r].definition = d
        /\ \A s \in Runs : Started(s) => runById'[s] = runById[s]
        /\ \A s \in Runs : s # r => runById'[s] = runById[s]
        /\ runById' = runById \/ (~Started(r) /\ runById'[r].status = "running")
    BY <2>1, <2>2, StartRunFacts
  <2>5. LocatorInv'
    <3>1. /\ recordByTeamId' = [recordByTeamId EXCEPT ![t] = r]
          /\ recordByRunId' = [recordByRunId EXCEPT ![r] = t]
      BY <2>2 DEF RememberRun
    <3>2. Started(r)'
      BY <2>4 DEF Live, Started
    <3>3. ASSUME NEW u \in Teams, recordByTeamId'[u] # NoRun
          PROVE  /\ Started(recordByTeamId[u])'
                 /\ runById'[recordByTeamId'[u]].definition = DefinitionOf[u]
      <4>1. CASE u = t
        BY <2>1, <2>4, <2>d, <3>1, <3>2, <4>1 DEF TypeOK, Started
      <4>2. CASE u # t
        <5>1. /\ recordByTeamId'[u] = recordByTeamId[u] /\ recordByTeamId[u] \in Runs
              /\ Started(recordByTeamId[u])
              /\ runById[recordByTeamId[u]].definition = DefinitionOf[u]
          BY <3>1, <3>3, <4>2 DEF LocatorInv, TypeOK
        <5> QED
          BY <2>4, <5>1 DEF Started
      <4> QED
        BY <4>1, <4>2
    <3>4. ASSUME NEW s \in Runs, Live(s)'
          PROVE  recordByRunId'[s] # NoTeam /\ recordByTeamId'[recordByRunId'[s]] = s
      <4>1. CASE s = r
        BY <2>1, <3>1, <4>1, TeamRunAssumption DEF TypeOK
      <4>2. CASE s # r
        <5>1. Live(s) /\ runById'[s] = runById[s]
          BY <2>4, <3>4, <4>2 DEF Live
        <5>2. /\ recordByRunId'[s] = recordByRunId[s] /\ recordByRunId[s] \in Teams
              /\ recordByTeamId[recordByRunId[s]] = s
          BY <3>1, <4>2, <5>1 DEF LocatorInv, TypeOK
        <5>3. recordByRunId[s] # t
          <6> SUFFICES ASSUME recordByRunId[s] = t PROVE FALSE
            OBVIOUS
          <6>1. runById[s].definition = d
            BY <2>1, <2>d, <5>2 DEF LocatorInv, Runs, NoRun
          <6>2. runIdByDefinition'[d] = s /\ runIdByDefinition'[d] = r
            BY <2>4, <3>4, <5>1, <6>1 DEF RepoInv
          <6> QED
            BY <4>2, <6>2
        <5>4. recordByTeamId'[recordByRunId[s]] = recordByTeamId[recordByRunId[s]]
          BY <3>1, <5>2, <5>3 DEF TypeOK
        <5>5. recordByRunId[s] # NoTeam
          BY <5>2, TeamRunAssumption
        <5> QED
          BY <5>2, <5>4, <5>5
      <4> QED
        BY <4>1, <4>2
    <3> QED
      BY <3>3, <3>4 DEF LocatorInv
  <2>6. HealthInv'
    <3>1. CASE runById' = runById
      BY <2>3, <3>1, HealthUnchanged
    <3>2. CASE ~Started(r) /\ runById'[r].status = "running"
      BY <2>3, <2>4, <3>2 DEF HealthInv, DegradationAgrees, Live, Started
    <3> QED
      BY <2>4, <3>1, <3>2
  <2>7. CommandInv'
    <3>1. \A s \in Runs : Started(s) =>
            Started(s)' /\ runById'[s].definition = runById[s].definition
      BY <2>4 DEF Started
    <3>2. \A s \in Runs : Live(s) /\ failureState[s].status = "stopped" =>
            Live(s)' /\ failureState'[s].status = "stopped"
      BY <2>3, <2>4 DEF Started, Live
    <3>3. Started(r)' /\ runById'[r].definition = DefinitionOf[t]
      BY <2>4, <2>d DEF Live, Started
    <3>4. r \in Runs \cup {NoRun}
      OBVIOUS
    <3> QED
      BY <2>1, <2>2, <3>1, <3>2, <3>3, <3>4, SuspendKeepsCommands
  <2> QED
    BY <1>t, <2>4, <2>5, <2>6, <2>7
<1>4. ASSUME NEW c \in Commands, DefinitionRefused(c) \/ StopFailed(c) PROVE IInv'
  <2>1. UNCHANGED <<repoVars, registered, failureState, locatorVars>> /\ Finish(c)
    BY <1>4 DEF DefinitionRefused, StopFailed
  <2>2. CommandInv'
    BY <2>1, <1>d, FinishKeepsCommands DEF repoVars
  <2> QED
    BY <1>t, <2>1, <2>2, QuietStep
<1>5. ASSUME NEW c \in Commands, BeginDispatch(c) PROVE IInv'
  <2>1. UNCHANGED <<repoVars, registered, failureState, locatorVars>>
    BY <1>5 DEF BeginDispatch
  <2>2. command[c].run \in Runs /\ command[c].team \in Teams
    BY <1>5, <1>a, <1>b DEF BeginDispatch, At
  <2>3. CASE Finish(c)
    BY <1>t, <2>1, <2>3, <1>d, FinishKeepsCommands, QuietStep DEF repoVars
  <2>4. CASE \E coord \in BOOLEAN :
               Suspend(c, "dispatching", command[c].team, command[c].run, coord)
    <3>1. PICK coord \in BOOLEAN :
            Suspend(c, "dispatching", command[c].team, command[c].run, coord)
      BY <2>4
    <3>2. PICK r \in Runs, t \in Teams : r = command[c].run /\ t = command[c].team
      BY <2>2
    <3>3. Started(r)' /\ runById'[r].definition = DefinitionOf[t]
      BY <2>1, <3>2 DEF CommandInv, CommandKeepsDefinition, repoVars, Started, Runs, NoRun
    <3>4. CommandInv'
      <4>1. r \in Runs \cup {NoRun} /\ Suspend(c, "dispatching", t, r, coord)
        BY <3>1, <3>2
      <4> QED
        BY <2>1, <3>3, <4>1, <1>d, SuspendKeepsCommands DEF repoVars
    <3> QED
      BY <1>t, <2>1, <3>4, QuietStep
  <2> QED
    BY <1>5, <2>3, <2>4 DEF BeginDispatch
<1>6. ASSUME NEW c \in Commands, DispatchAccepted(c) PROVE IInv'
  <2>1. /\ UNCHANGED <<repoVars, registered, locatorVars>> /\ Finish(c)
        /\ command[c].run \in Runs
        /\ RecordRouteSuccess(command[c].run, command[c].toCoordinator)
    BY <1>6, <1>b DEF DispatchAccepted
  <2>2. \A s \in Runs : failureState'[s].status = failureState[s].status
    BY <2>1 DEF RecordRouteSuccess, TypeOK, FailureState
  <2>3. HealthInv'
    BY <2>1, <2>2 DEF HealthInv, DegradationAgrees, Live, Started, repoVars
  <2>4. CommandInv'
    <3>1. \A s \in Runs : Started(s) =>
            Started(s)' /\ runById'[s].definition = runById[s].definition
      BY <2>1 DEF Started, repoVars
    <3>2. \A b \in Commands : At(b, "stopping") =>
            LiveAfter(command[b].run) /\ failureState'[command[b].run].status = "stopped"
      BY <2>1, <2>2, <1>b DEF CommandInv, Live, LiveAfter, repoVars
    <3> QED
      BY <2>1, <3>1, <3>2, FinishKeepsCommands
  <2> QED
    BY <1>t, <2>1, <2>3, <2>4, RepoUnchanged, LocatorUnchanged DEF repoVars
<1>7. ASSUME NEW c \in Commands, DispatchFailed(c) PROVE IInv'
  <2>0. command[c].run \in Runs /\ command[c].team \in Teams
    BY <1>7, <1>a, <1>b DEF DispatchFailed, At
  <2>r. PICK r \in Runs : r = command[c].run
    BY <2>0
  <2> DEFINE old == failureState[r]
             coord == command[c].toCoordinator
  <2>1. /\ command[c].team \in Teams /\ coord \in BOOLEAN
        /\ old \in FailureState
    BY <2>0 DEF TypeOK, Command, CommandTypeOK
  <2>2. PICK kept \in 0 .. old.recent :
          LET new == AfterFailure(old, kept, coord)
          IN  /\ failureState' = [failureState EXCEPT ![r] = new]
              /\ \/ /\ old.status = "none"
                    /\ runById' = UpdateRunStatus(r, "degraded")
                    /\ Finish(c)
                 \/ /\ old.status = "degraded" /\ new.status = "stopped" /\ Live(r)
                    /\ Suspend(c, "stopping", command[c].team, r, FALSE)
                    /\ UNCHANGED runById
                 \/ /\ old.status # "none"
                    /\ Finish(c)
                    /\ UNCHANGED runById
    BY <1>7, <2>r DEF DispatchFailed
  <2> DEFINE new == AfterFailure(old, kept, coord)
  <2>3. /\ UNCHANGED <<runIdByDefinition, nextRunVersion, registered, locatorVars>>
        /\ At(c, "dispatching")
    BY <1>7 DEF DispatchFailed
  <2>4. /\ new \in FailureState /\ new.status \in {"degraded", "stopped"}
        /\ old.status = "none" => new.status = "degraded"
        /\ old.status = "stopped" => new.status = "stopped"
    BY <2>1, AfterFailureFacts
  <2>5. /\ failureState'[r] = new
        /\ \A s \in Runs : s # r => failureState'[s] = failureState[s]
    BY <2>1, <2>2 DEF TypeOK
  <2>6. /\ Started(r) /\ runById[r].definition = DefinitionOf[command[c].team]
    BY <2>1, <2>r DEF CommandInv, CommandKeepsDefinition, Runs, NoRun
  <2>7. \A s \in Runs : /\ Live(s)' <=> Live(s)
                        /\ Started(s)' <=> Started(s)
                        /\ runById'[s].definition = runById[s].definition
                        /\ runById'[s].version = runById[s].version
    <3>1. \/ runById' = [runById EXCEPT ![r].status = "degraded"] /\ Live(r)
          \/ runById' = runById
      BY <2>2 DEF UpdateRunStatus
    <3>2. CASE runById' = [runById EXCEPT ![r].status = "degraded"] /\ Live(r)
      <4>1. /\ runById'[r].status = "degraded"
            /\ runById'[r].definition = runById[r].definition
            /\ runById'[r].version = runById[r].version
            /\ \A s \in Runs : s # r => runById'[s] = runById[s]
        BY <3>2 DEF TypeOK, RunRecord
      <4> QED
        BY <3>2, <4>1 DEF Live, Started
    <3> QED
      BY <3>1, <3>2 DEF Live, Started
  <2>8. RepoInv' /\ LocatorInv'
    <3>1. RepoInv'
      <4>1. \A d \in Definitions : runIdByDefinition[d] # NoRun => runIdByDefinition[d] \in Runs
        BY DEF TypeOK
      <4> QED
        BY <2>3, <2>7, <4>1 DEF RepoInv, CurrentVersionIsHighest
    <3>2. \A t \in Teams : recordByTeamId[t] # NoRun => recordByTeamId[t] \in Runs
      BY DEF TypeOK
    <3> QED
      BY <2>3, <2>7, <3>1, <3>2 DEF LocatorInv, locatorVars
  <2>9. HealthInv'
    <3>1. \A s \in Runs : s # r => runById'[s] = runById[s]
      BY <2>1, <2>2 DEF UpdateRunStatus, TypeOK
    <3>2. Live(r)' => runById'[r].status = "degraded"
      <4>1. CASE old.status = "none"
        BY <2>1, <2>2, <2>7, <4>1 DEF UpdateRunStatus, TypeOK, RunRecord
      <4>2. CASE old.status # "none"
        BY <2>1, <2>2, <2>7, <4>2 DEF HealthInv, DegradationAgrees
      <4> QED
        BY <4>1, <4>2
    <3>3. failureState'[r].status # "none"
      BY <2>4, <2>5
    <3> HIDE DEF old, new
    <3> QED
      BY <2>5, <2>6, <2>7, <3>1, <3>2, <3>3 DEF HealthInv, DegradationAgrees
  <2>10. CommandInv'
    <3> HIDE DEF old, new
    <3>1. \A s \in Runs : Live(s) /\ failureState[s].status = "stopped" =>
            Live(s)' /\ failureState'[s].status = "stopped"
      BY <2>1, <2>4, <2>5, <2>7 DEF old
    <3>2. CASE Finish(c)
      <4>1. \A b \in Commands : At(b, "stopping") =>
              LiveAfter(command[b].run) /\ failureState'[command[b].run].status = "stopped"
        BY <1>b, <3>1 DEF CommandInv, Live, LiveAfter
      <4> QED
        BY <2>7, <3>2, <4>1, FinishKeepsCommands
    <3>3. CASE /\ old.status = "degraded" /\ new.status = "stopped" /\ Live(r)
               /\ Suspend(c, "stopping", command[c].team, r, FALSE)
      <4>1. /\ command'[c].at = "stopping" /\ command'[c].run = r
            /\ command'[c].team = command[c].team
            /\ \A b \in Commands : b # c => command'[b] = command[b]
        BY <3>3 DEF Suspend, TypeOK, CommandTypeOK
      <4>2. \A b \in Commands : b # c /\ At(b, "stopping")' =>
              /\ At(b, "stopping") /\ command'[b].run \in Runs /\ command'[b].run # r
              /\ command'[b].run = command[b].run
        BY <3>3, <4>1, <1>b DEF CommandInv, At, old
      <4>3. CommandKeepsDefinition'
        <5>1. \A b \in Commands : command[b].run # NoRun => command[b].run \in Runs
          BY DEF TypeOK, CommandTypeOK, Command
        <5> QED
          BY <2>1, <2>6, <2>7, <4>1, <5>1 DEF CommandInv, CommandKeepsDefinition
      <4>4. \A b \in Commands : At(b, "stopping")' =>
              Live(command[b].run)' /\ failureState'[command'[b].run].status = "stopped"
        <5> TAKE b \in Commands
        <5> HAVE At(b, "stopping")'
        <5>1. CASE b = c
          BY <2>5, <2>1, <2>7, <3>3, <4>1, <5>1 DEF Live
        <5>2. CASE b # c
          BY <3>1, <4>1, <4>2, <5>2 DEF CommandInv, Live
        <5> QED
          BY <5>1, <5>2
      <4>5. OneStopInFlight'
        <5> SUFFICES ASSUME NEW b1 \in Commands, NEW b2 \in Commands,
                            At(b1, "stopping")', At(b2, "stopping")',
                            command'[b1].run = command'[b2].run
                     PROVE  b1 = b2
          BY DEF OneStopInFlight
        <5> QED
          BY <4>1, <4>2 DEF CommandInv, OneStopInFlight
      <4> QED
        BY <4>3, <4>4, <4>5 DEF CommandInv
    <3> QED
      BY <2>2, <3>2, <3>3 DEF old, new
  <2> QED
    BY <1>t, <2>8, <2>9, <2>10
<1>8. ASSUME NEW c \in Commands, StopAccepted(c) PROVE IInv'
  <2>r. PICK r \in Runs : r = command[c].run
    BY <1>8, <1>b DEF StopAccepted
  <2>1. /\ Live(r) /\ At(c, "stopping") /\ ForgetRun(r) /\ Finish(c)
        /\ UNCHANGED locatorVars
    BY <1>8, <2>r DEF StopAccepted, CommandInv
  <2>2. /\ RepoInv' /\ ~Live(r)' /\ Started(r)'
        /\ runById'[r].definition = runById[r].definition
        /\ \A s \in Runs : s # r => runById'[s] = runById[s]
    BY <2>1, ForgetRunFacts
  <2>3. \A s \in Runs : s # r => failureState'[s] = failureState[s]
    BY <2>1 DEF ForgetRun, TypeOK
  <2>4. \A s \in Runs : /\ Started(s) => Started(s)'
                        /\ runById'[s].definition = runById[s].definition
                        /\ Live(s)' => Live(s)
                        /\ s # r /\ Live(s) => Live(s)'
    BY <2>2 DEF Started, Live
  <2>5. LocatorInv'
    <3>1. \A t \in Teams : recordByTeamId[t] # NoRun => recordByTeamId[t] \in Runs
      BY DEF TypeOK
    <3> QED
      BY <2>1, <2>4, <3>1 DEF LocatorInv, locatorVars
  <2>6. HealthInv'
    BY <2>2, <2>3, <2>4 DEF HealthInv, DegradationAgrees, Started, Live
  <2>7. CommandInv'
    <3>1. \A b \in Commands : b # c /\ At(b, "stopping") =>
            /\ command[b].run \in Runs /\ command[b].run # r
            /\ Live(command[b].run) /\ failureState[command[b].run].status = "stopped"
      BY <2>1, <2>r, <1>b DEF CommandInv, OneStopInFlight
    <3>2. \A b \in Commands : b # c /\ At(b, "stopping") =>
            LiveAfter(command[b].run) /\ failureState'[command[b].run].status = "stopped"
      BY <2>3, <2>4, <3>1 DEF Live, LiveAfter
    <3> QED
      BY <2>1, <2>4, <3>2, FinishKeepsCommands
  <2> QED
    BY <1>t, <2>2, <2>5, <2>6, <2>7
<1>9. ASSUME NEW t \in Teams, LookupTeam(t) PROVE IInv'
  <2>1. UNCHANGED <<repoVars, registered, failureState, command>> /\ ResolveActiveRun(t)
    BY <1>9 DEF LookupTeam
  <2> QED
    BY <1>t, <2>1, RepoUnchanged, ResolveActiveRunKeepsLocator, HealthUnchanged,
       CommandsUnchanged DEF repoVars
<1>10. ASSUME NEW r \in Runs, LookupRun(r) PROVE IInv'
  <2>1. /\ UNCHANGED <<repoVars, registered, failureState, command>>
        /\ recordByRunId[r] \in Teams /\ ResolveActiveRun(recordByRunId[r])
    BY <1>10 DEF LookupRun, TypeOK
  <2> QED
    BY <1>t, <2>1, RepoUnchanged, ResolveActiveRunKeepsLocator, HealthUnchanged,
       CommandsUnchanged DEF repoVars
<1>11. ASSUME NEW t \in Teams, TerminateTeam(t) \/ CreateTeam(t) PROVE IInv'
  BY <1>t, <1>11, QuietStep, CommandsUnchanged DEF TerminateTeam, CreateTeam, repoVars
<1>12. CASE UNCHANGED vars
  BY <1>t, <1>12, QuietStep, CommandsUnchanged DEF vars, repoVars
<1> QED
  BY <1>1, <1>2, <1>3, <1>4, <1>5, <1>6, <1>7, <1>8, <1>9, <1>10, <1>11, <1>12
  DEF Next, CommandStep

THEOREM Invariance == Spec => []IInv
BY IInvInit, IInvStep, PTL DEF Spec

-----------------------------------------------------------------------------
(* At most one active run per definition, for any number of teams and       *)
(* commands in flight (TeamRunRepository, TeamRunLocator).                  *)
THEOREM OneRunPerDefinition == Spec => []OneActiveRunPerDefinition
<1>1. IInv => OneActiveRunPerDefinition
  BY DEF IInv, RepoInv, OneActiveRunPerDefinition
<1> QED
  BY <1>1, Invariance, PTL

(* Every active run is indexed, has an adapter and resolves to a team whose *)
(* own record is that run.                                                  *)
THEOREM RunsAreServed == Spec => []LiveRunIsServed
<1>1. IInv => LiveRunIsServed
  <2> SUFFICES ASSUME IInv, NEW r \in Runs, Live(r)
               PROVE  /\ runIdByDefinition[runById[r].definition] = r
                      /\ r \in registered
                      /\ ResolveByRun(r) = r
    BY DEF LiveRunIsServed
  <2>1. recordByRunId[r] # NoTeam /\ recordByTeamId[recordByRunId[r]] = r
    BY DEF IInv, LocatorInv
  <2>2. ResolveByRun(r) = r
    BY <2>1 DEF ResolveByRun, ResolvesTo, Runs, NoRun
  <2> QED
    BY <2>2 DEF IInv, RepoInv
<1> QED
  BY <1>1, Invariance, PTL

(* The active run of a definition outranks every run it ever had.           *)
THEOREM VersionsFence == Spec => []CurrentVersionIsHighest
<1>1. IInv => CurrentVersionIsHighest
  BY DEF IInv, RepoInv
<1> QED
  BY <1>1, Invariance, PTL

(* Repository status and policy state never disagree about an active run.   *)
THEOREM HealthAgrees == Spec => []DegradationAgrees
<1>1. IInv => DegradationAgrees
  BY DEF IInv, HealthInv
<1> QED
  BY <1>1, Invariance, PTL

(* One run is never being stopped by two commands at once.                  *)
THEOREM StopsDoNotOverlap == Spec => []OneStopInFlight
<1>1. IInv => OneStopInFlight
  BY DEF IInv, CommandInv
<1> QED
  BY <1>1, Invariance, PTL

(* A command works for a run of its own team's definition only.             *)
THEOREM CommandsStayInDefinition == Spec => []CommandKeepsDefinition
<1>1. IInv => CommandKeepsDefinition
  BY DEF IInv, CommandInv
<1> QED
  BY <1>1, Invariance, PTL

(* What one step may do to one run record.                                  *)
LEMMA RunRecordStep ==
  ASSUME IInv, [Next]_vars, NEW r \in Runs
  PROVE  \/ runById'[r] = runById[r]
         \/ ~Started(r)
         \/ Live(r) /\ Live(r)'
         \/ Live(r) /\ failureState[r].status = "stopped"
<1> USE DEF IInv
<1>1. CASE UNCHANGED runById
  BY <1>1
<1>2. ASSUME NEW c \in Commands, DefinitionLoaded(c) PROVE \/ runById'[r] = runById[r]
                                                           \/ ~Started(r)
  BY <1>2 DEF DefinitionLoaded, StartRunIfMissing, Fresh, repoVars, TypeOK
<1>3. ASSUME NEW c \in Commands, DispatchFailed(c) PROVE \/ runById'[r] = runById[r]
                                                         \/ Live(r) /\ Live(r)'
  <2>1. command[c].run \in Runs
    BY <1>3 DEF DispatchFailed, At, TypeOK, CommandTypeOK, Command
  <2>2. PICK s \in Runs : s = command[c].run
    BY <2>1
  <2>3. \/ UNCHANGED runById
        \/ runById' = [runById EXCEPT ![s].status = "degraded"] /\ Live(s)
    BY <1>3, <2>2 DEF DispatchFailed, UpdateRunStatus
  <2> QED
    BY <2>3 DEF TypeOK, RunRecord, Live
<1>4. ASSUME NEW c \in Commands, StopAccepted(c)
      PROVE  \/ runById'[r] = runById[r]
             \/ Live(r) /\ failureState[r].status = "stopped"
  <2>1. command[c].run \in Runs /\ Live(command[c].run)
        /\ failureState[command[c].run].status = "stopped"
    BY <1>4 DEF StopAccepted, At, TypeOK, CommandTypeOK, Command, CommandInv
  <2> QED
    BY <1>4, <2>1 DEF StopAccepted, ForgetRun, UpdateRunStatus, TypeOK
<1> QED
  BY <1>1, <1>2, <1>3, <1>4
  DEF Next, CommandStep, ReceiveMessage, ReceiveApproval, DefinitionRefused, BeginDispatch,
      DispatchAccepted, StopFailed, LookupTeam, LookupRun, TerminateTeam, CreateTeam,
      vars, repoVars

(* A run that is gone is never revived.                                     *)
THEOREM DeadRunsStayDead == Spec => DeadRunStaysDead
<1>1. IInv /\ IInv' /\ [Next]_vars
      => [\A r \in Runs : Started(r) /\ ~Live(r) => /\ ~Live(r)'
                                                    /\ r \notin registered']_vars
  <2> SUFFICES ASSUME IInv, IInv', [Next]_vars, NEW r \in Runs, Started(r), ~Live(r)
               PROVE  ~Live(r)' /\ r \notin registered'
    OBVIOUS
  <2>1. ~Live(r)'
    BY RunRecordStep DEF Live
  <2> QED
    BY <2>1 DEF IInv, RepoInv
<1> QED
  BY <1>1, Invariance, PTL DEF Spec, DeadRunStaysDead

(* Only a degraded run whose policy asked for the stop is removed.          *)
THEOREM StopsAreEarned == Spec => OnlyFailingRunsStop
<1>1. IInv /\ [Next]_vars
      => [\A r \in Runs : Live(r) /\ ~Live(r)' =>
            /\ runById[r].status = "degraded"
            /\ failureState[r].status = "stopped"]_vars
  <2> SUFFICES ASSUME IInv, [Next]_vars, NEW r \in Runs, Live(r), ~Live(r)'
               PROVE  runById[r].status = "degraded" /\ failureState[r].status = "stopped"
    OBVIOUS
  <2>1. failureState[r].status = "stopped"
    BY RunRecordStep DEF Live, Started
  <2> QED
    BY <2>1 DEF IInv, HealthInv, DegradationAgrees
<1> QED
  BY <1>1, Invariance, PTL DEF Spec, OnlyFailingRunsStop

-----------------------------------------------------------------------------
(* One step of the host seen from one definition.                           *)
LEMMA StartIsLeaseStep ==
  ASSUME IInv, NEW d \in Definitions, NEW r \in Runs, StartRunIfMissing(d, r)
  PROVE  Lease!Start(d) \/ UNCHANGED Lease!vars
<1> USE DEF IInv, TypeOK
<1>1. CASE GetActiveRunByDefinitionId(d) # NoRun
  BY <1>1 DEF StartRunIfMissing, repoVars, Lease!vars, PhaseOf
<1>2. CASE GetActiveRunByDefinitionId(d) = NoRun
  <2> DEFINE new == [definition |-> d, version |-> nextRunVersion[d] + 1,
                     status |-> "running"]
  <2>1. /\ ~Started(r)
        /\ nextRunVersion' = [nextRunVersion EXCEPT ![d] = nextRunVersion[d] + 1]
        /\ runById' = [runById EXCEPT ![r] = new]
        /\ runIdByDefinition' = [runIdByDefinition EXCEPT ![d] = r]
    BY <1>2 DEF StartRunIfMissing, Fresh
  <2>2. runIdByDefinition[d] = NoRun
    BY <1>2 DEF GetActiveRunByDefinitionId, RepoInv
  <2>3. PhaseOf(d) = "none" /\ PhaseOf(d)' = "running"
    BY <2>1, <2>2 DEF PhaseOf, Runs, NoRun
  <2>4. ASSUME NEW e \in Definitions, e # d PROVE PhaseOf(e)' = PhaseOf(e)
    <3>1. runIdByDefinition'[e] = runIdByDefinition[e]
      BY <2>1, <2>4
    <3>2. runIdByDefinition[e] # NoRun => runIdByDefinition[e] \in Runs /\ runIdByDefinition[e] # r
      BY <2>1 DEF RepoInv, Live, Started
    <3> QED
      BY <2>1, <3>1, <3>2 DEF PhaseOf
  <2>5. [e \in Definitions |-> PhaseOf(e)]'
          = [[e \in Definitions |-> PhaseOf(e)] EXCEPT ![d] = "running"]
    BY <2>3, <2>4
  <2> QED
    BY <2>1, <2>3, <2>5 DEF Lease!Start, Lease!Move
<1> QED
  BY <1>1, <1>2

(* A status change of an active run is a change of its definition's phase.  *)
LEMMA StatusIsPhase ==
  ASSUME IInv, NEW r \in Runs, Live(r), NEW st, NEW d \in Definitions,
         d = runById[r].definition,
         runById' = UpdateRunStatus(r, st)
  PROVE  /\ runIdByDefinition[d] = r
         /\ runById'[r].status = st
         /\ \A e \in Definitions : e # d /\ runIdByDefinition[e] # NoRun =>
              runById'[runIdByDefinition[e]] = runById[runIdByDefinition[e]]
<1> USE DEF IInv, UpdateRunStatus
<1>1. runIdByDefinition[d] = r
  BY DEF RepoInv
<1>2. runById'[r].status = st
  BY DEF TypeOK, RunRecord
<1>3. ASSUME NEW e \in Definitions, e # d, runIdByDefinition[e] # NoRun
      PROVE  runById'[runIdByDefinition[e]] = runById[runIdByDefinition[e]]
  <2>1. runIdByDefinition[e] # r
    BY <1>3 DEF RepoInv
  <2>2. runIdByDefinition[e] \in Runs
    BY <1>3 DEF TypeOK
  <2> QED
    BY <2>1, <2>2 DEF TypeOK
<1> QED
  BY <1>1, <1>2, <1>3

(* Every step of the host is a step of the lease or leaves it unchanged.    *)
LEMMA StepIsLeaseStep ==
  ASSUME IInv, [Next]_vars
  PROVE  [Lease!Next]_(Lease!vars)
<1> USE DEF IInv
<1>1. CASE UNCHANGED repoVars
  BY <1>1 DEF repoVars, Lease!vars, PhaseOf
<1>2. ASSUME NEW c \in Commands, DefinitionLoaded(c) PROVE [Lease!Next]_(Lease!vars)
  <2>1. DefinitionOf[command[c].team] \in Definitions
    BY <1>2, TeamRunAssumption DEF DefinitionLoaded, At, TypeOK, CommandTypeOK, Command
  <2>2. PICK d \in Definitions : \E r \in Runs : StartRunIfMissing(d, r)
    BY <1>2, <2>1 DEF DefinitionLoaded
  <2> QED
    BY <2>2, StartIsLeaseStep DEF Lease!Next
<1>3. ASSUME NEW c \in Commands, DispatchFailed(c) PROVE [Lease!Next]_(Lease!vars)
  <2>1. command[c].run \in Runs
    BY <1>3 DEF DispatchFailed, At, TypeOK, CommandTypeOK, Command
  <2>2. PICK r \in Runs : r = command[c].run
    BY <2>1
  <2>3. /\ UNCHANGED <<runIdByDefinition, nextRunVersion>>
        /\ \/ UNCHANGED runById
           \/ /\ Live(r) /\ failureState[r].status = "none"
              /\ runById' = UpdateRunStatus(r, "degraded")
    BY <1>3, <2>2 DEF DispatchFailed, UpdateRunStatus
  <2>4. CASE UNCHANGED runById
    BY <1>1, <2>3, <2>4 DEF repoVars
  <2>5. CASE /\ Live(r) /\ failureState[r].status = "none"
             /\ runById' = UpdateRunStatus(r, "degraded")
    <3>1. PICK d \in Definitions : d = runById[r].definition
      BY DEF TypeOK, RunRecord
    <3>2. /\ runIdByDefinition[d] = r /\ runById'[r].status = "degraded"
          /\ \A e \in Definitions : e # d /\ runIdByDefinition[e] # NoRun =>
                    runById'[runIdByDefinition[e]] = runById[runIdByDefinition[e]]
      BY <2>5, <3>1, StatusIsPhase
    <3>3. runById[r].status = "running"
      BY <2>5 DEF Live, HealthInv, DegradationAgrees
    <3>4. PhaseOf(d) = "running" /\ PhaseOf(d)' = "degraded"
      BY <2>3, <3>2, <3>3 DEF PhaseOf, Runs, NoRun
    <3>5. \A e \in Definitions : e # d => PhaseOf(e)' = PhaseOf(e)
      BY <2>3, <3>2 DEF PhaseOf
    <3>6. Lease!Degrade(d)
      BY <2>3, <3>4, <3>5 DEF Lease!Degrade, Lease!Move
    <3> QED
      BY <3>6 DEF Lease!Next
  <2> QED
    BY <2>3, <2>4, <2>5
<1>4. ASSUME NEW c \in Commands, StopAccepted(c) PROVE [Lease!Next]_(Lease!vars)
  <2>1. /\ command[c].run \in Runs /\ Live(command[c].run)
        /\ failureState[command[c].run].status = "stopped"
    BY <1>4 DEF StopAccepted, At, TypeOK, CommandTypeOK, Command, CommandInv
  <2>2. PICK r \in Runs : r = command[c].run
    BY <2>1
  <2>3. PICK d \in Definitions : d = runById[r].definition
    BY DEF TypeOK, RunRecord
  <2>4. /\ runById' = UpdateRunStatus(r, "stopped")
        /\ runIdByDefinition' = [runIdByDefinition EXCEPT ![d] = NoRun]
        /\ UNCHANGED nextRunVersion
    BY <1>4, <2>1, <2>2, <2>3 DEF StopAccepted, ForgetRun
  <2>5. /\ runIdByDefinition[d] = r
        /\ \A e \in Definitions : e # d /\ runIdByDefinition[e] # NoRun =>
                  runById'[runIdByDefinition[e]] = runById[runIdByDefinition[e]]
    BY <2>1, <2>2, <2>3, <2>4, StatusIsPhase
  <2>6. runById[r].status = "degraded"
    BY <2>1, <2>2 DEF HealthInv, DegradationAgrees
  <2>7. PhaseOf(d) = "degraded" /\ PhaseOf(d)' = "none"
    BY <2>4, <2>5, <2>6 DEF PhaseOf, TypeOK, Runs, NoRun
  <2>8. \A e \in Definitions : e # d => PhaseOf(e)' = PhaseOf(e)
    <3>1. \A e \in Definitions : e # d => runIdByDefinition'[e] = runIdByDefinition[e]
      BY <2>4 DEF TypeOK
    <3> QED
      BY <2>5, <3>1 DEF PhaseOf
  <2>9. Lease!Stop(d)
    BY <2>4, <2>7, <2>8 DEF Lease!Stop, Lease!Move
  <2> QED
    BY <2>9 DEF Lease!Next
<1> QED
  BY <1>1, <1>2, <1>3, <1>4
  DEF Next, CommandStep, ReceiveMessage, ReceiveApproval, DefinitionRefused, BeginDispatch,
      DispatchAccepted, StopFailed, LookupTeam, LookupRun, TerminateTeam, CreateTeam, vars

(* The host control plane implements the run lease of every definition.     *)
THEOREM Refinement == Spec => ImplementsLease
<1>1. Init => Lease!Init
  BY DEF Init, Lease!Init, PhaseOf
<1>2. IInv /\ [Next]_vars => [Lease!Next]_(Lease!vars)
  BY StepIsLeaseStep
<1> QED
  BY <1>1, <1>2, Invariance, PTL DEF Spec, ImplementsLease, Lease!Spec

(****************************************************************************)
(* The uplink of events for any number of handlers, events and entries of   *)
(* the idempotency policy.  The remembered places are the last ones of the  *)
(* log; what was forgotten is expired or was pushed out.  While bootstraps  *)
(* and stops do not overlap one handler at a time closes a forwarder, and   *)
(* each forwarder starts behind all that its predecessors may still post.   *)
(* So an event whose sender still waits for it is the latest of all that    *)
(* were posted.                                                             *)
(****************************************************************************)
Forwarder == [at : {"none", "waiting", "posting", "ended"}, next : Nat \ {0},
              closed : BOOLEAN, until : Nat]

Handler == [kind : {"replace", "teardown"}, at : {"new", "closing", "done"},
            closes : Handlers \cup {None}]

PostState == {"none", "sent", "astray", "refused", "stale", "checked", "duplicate", "accepted"}

UplinkTypeOK ==
  /\ handler \in [Handlers -> Handler]
  /\ overlapped \in BOOLEAN /\ tracked \in BOOLEAN /\ active \in BOOLEAN
  /\ current \in Handlers \cup {None}
  /\ forwarder \in [Handlers -> Forwarder]
  /\ produced \in 0 .. MaxEvents
  /\ post \in [Handlers -> [Events -> PostState]]
  /\ log \in Seq(0 .. MaxEvents)

-----------------------------------------------------------------------------
(* The idempotency policy                                                   *)

(* what was forgotten had its time, or Capacity events came after it        *)
Forgotten(i) == i \in expired \/ Len(log) - i >= Capacity

WindowInv ==
  \E k \in 1 .. Len(log) + 1 :
    /\ remembered = k .. Len(log)
    /\ \A i \in 1 .. k - 1 : Forgotten(i)

-----------------------------------------------------------------------------
(* The forwarders                                                           *)

Working(f) == forwarder[f].at \in {"waiting", "posting"}
Closing(h) == handler[h].at = "closing"

(* a forwarder starts when its handler is done, and posts in order          *)
ForwarderInv ==
  /\ current # None => handler[current].at = "done"
  /\ \A h \in Handlers : handler[h].at # "done" =>
       forwarder[h].at = "none" /\ \A e \in Events : post[h][e] = "none"
  /\ \A h \in Handlers, e \in Events : post[h][e] # "none" =>
       /\ e <= produced /\ e <= forwarder[h].next
       /\ forwarder[h].at # "posting" => e < forwarder[h].next

(* a request that is under way is awaited by its forwarder, or was given up *)
AwaitedInv ==
  \A h \in Handlers, e \in Events :
    (post[h][e] \in {"sent", "checked"} /\ <<h, e>> \notin aborted) =>
      forwarder[h].at = "posting" /\ forwarder[h].next = e

(* an event in the log was accepted by its route                            *)
LoggedInv ==
  \A i \in 1 .. Len(log) : log[i] # Other => \E h \in Handlers : post[h][log[i]] = "accepted"

(* handlers take turns: one closes what was registered before               *)
TurnsInv ==
  /\ \A g, h \in Handlers : Closing(g) /\ Closing(h) => g = h
  /\ \A h \in Handlers : Closing(h) =>
       /\ current = None
       /\ handler[h].kind = "replace" => tracked
       /\ handler[h].closes # None => /\ forwarder[handler[h].closes].closed
                                      /\ forwarder[handler[h].closes].until < forwarder[h].next
  /\ \A f \in Handlers : Working(f) =>
       /\ tracked
       /\ current = f \/ \E h \in Handlers : Closing(h) /\ handler[h].closes = f

(* ... and a forwarder begins behind all that was or may be posted          *)
BehindInv ==
  \A h \in Handlers : Closing(h) \/ Working(h) =>
    \A g \in Handlers \ {h}, e \in Events : post[g][e] # "none" => e < forwarder[h].next

NotAstray == \A h \in Handlers, e \in Events : post[h][e] # "astray"

FlowInv ==
  /\ UplinkTypeOK /\ ForwarderInv /\ AwaitedInv /\ LoggedInv
  /\ ~ overlapped => TurnsInv /\ BehindInv /\ NotAstray
  /\ OrderKeptUnlessAborted

UplinkInv == FlowInv /\ WindowInv /\ AcceptedOnceInWindow

-----------------------------------------------------------------------------
(* Nothing was emitted or posted yet.                                       *)
LEMMA UplinkInitInv == UplinkInit => UplinkInv
<1> SUFFICES ASSUME UplinkInit PROVE UplinkInv
  OBVIOUS
<1> USE EventUplinkAssumption DEF UplinkInit
<1>1. UplinkTypeOK
  <2>1. handler \in [Handlers -> Handler]
    BY DEF Handler
  <2>2. forwarder \in [Handlers -> Forwarder] /\ produced \in 0 .. MaxEvents
    BY DEF Forwarder
  <2>3. post \in [Handlers -> [Events -> PostState]] /\ log \in Seq(0 .. MaxEvents)
    BY DEF PostState
  <2> QED
    BY <2>1, <2>2, <2>3 DEF UplinkTypeOK
<1>2. ForwarderInv /\ AwaitedInv /\ LoggedInv
  BY DEF ForwarderInv, AwaitedInv, LoggedInv
<1>3. WindowInv
  <2>1. 1 \in 1 .. Len(log) + 1 /\ remembered = 1 .. Len(log) /\ 1 .. 1 - 1 = {}
    OBVIOUS
  <2> QED
    BY <2>1 DEF WindowInv
<1>4. AcceptedOnceInWindow /\ OrderKeptUnlessAborted
  BY DEF AcceptedOnceInWindow, OrderKeptUnlessAborted
<1>5. TurnsInv /\ BehindInv /\ NotAstray
  BY DEF TurnsInv, BehindInv, NotAstray, Closing, Working
<1> QED
  BY <1>1, <1>2, <1>3, <1>4, <1>5 DEF UplinkInv, FlowInv

-----------------------------------------------------------------------------
(* What the idempotency policy remembers                                    *)

(* The oldest entry is the first of the remembered places.                  *)
LEMMA OldestIsFirst ==
  ASSUME NEW k \in Nat, NEW n \in Nat, k <= n, remembered = k .. n
  PROVE  Oldest = k /\ remembered \ {Oldest} = (k + 1) .. n
<1>1. k \in remembered /\ \A j \in remembered : k <= j
  OBVIOUS
<1>2. \A i \in remembered : (\A j \in remembered : i <= j) => i = k
  BY <1>1
<1>3. Oldest = k
  BY <1>1, <1>2 DEF Oldest
<1> QED
  BY <1>3

LEMMA LogFacts ==
  ASSUME UplinkTypeOK, NEW e \in 0 .. MaxEvents, log' = Append(log, e)
  PROVE  /\ log' \in Seq(0 .. MaxEvents) /\ Len(log) \in Nat /\ Len(log') = Len(log) + 1
         /\ log'[Len(log) + 1] = e
         /\ \A i \in 1 .. Len(log) : log'[i] = log[i] /\ log[i] \in 0 .. MaxEvents
<1> DEFINE T == 0 .. MaxEvents
<1>1. log \in Seq(T) /\ e \in T
  BY DEF UplinkTypeOK
<1> HIDE DEF T
<1>2. /\ Append(log, e) \in Seq(T) /\ Len(log) \in Nat /\ Len(Append(log, e)) = Len(log) + 1
      /\ Append(log, e)[Len(log) + 1] = e
      /\ \A i \in 1 .. Len(log) : Append(log, e)[i] = log[i] /\ log[i] \in T
  BY <1>1
<1> QED
  BY <1>2 DEF T

(* Accepting keeps the window, and repeats no event of it.                  *)
LEMMA AcceptWindow ==
  ASSUME UplinkTypeOK, WindowInv, AcceptedOnceInWindow,
         NEW e \in 0 .. MaxEvents, Accept(e), e = Other \/ e \notin Keys, expired' = expired
  PROVE  WindowInv' /\ AcceptedOnceInWindow'
<1> DEFINE n == Len(log)
<1>1. PICK k \in 1 .. n + 1 : remembered = k .. n /\ \A i \in 1 .. k - 1 : Forgotten(i)
  BY DEF WindowInv
<1>2. /\ n \in Nat /\ Len(log') = n + 1 /\ log'[n + 1] = e
      /\ \A i \in 1 .. n : log'[i] = log[i]
  BY LogFacts DEF Accept
<1>3. k \in Nat /\ 1 <= k /\ k <= n + 1 /\ Capacity \in Nat \ {0}
  BY <1>1, <1>2, EventUplinkAssumption
<1>4. \A i \in 1 .. k - 1 : Forgotten(i)'
  BY <1>1, <1>2, <1>3 DEF Forgotten
<1>5. WindowInv'
  <2>1. CASE Cardinality(remembered) >= Capacity
    <3>1. k <= n /\ n - k + 1 >= Capacity
      <4>1. k \in Int /\ n \in Int
        BY <1>2, <1>3
      <4>2. Cardinality(k .. n) = IF k > n THEN 0 ELSE n - k + 1
        BY <4>1, FS_Interval
      <4>3. Cardinality(k .. n) >= Capacity
        BY <1>1, <2>1
      <4> QED
        BY <1>2, <1>3, <4>2, <4>3
    <3>2. remembered' = (k + 1) .. (n + 1)
      <4>1. remembered' = (remembered \ {Oldest}) \cup {Len(log) + 1}
        BY <2>1 DEF Accept
      <4>2. remembered \ {Oldest} = (k + 1) .. n
        BY <1>1, <1>2, <1>3, <3>1, OldestIsFirst
      <4>3. (k + 1) .. (n + 1) = ((k + 1) .. n) \cup {n + 1}
        BY <1>2, <1>3, <3>1
      <4> QED
        BY <4>1, <4>2, <4>3
    <3>3. Forgotten(k)'
      BY <1>2, <1>3, <3>1 DEF Forgotten
    <3>4. k + 1 \in 1 .. Len(log') + 1 /\ \A i \in 1 .. (k + 1) - 1 : Forgotten(i)'
      BY <1>2, <1>3, <1>4, <3>1, <3>3
    <3> QED
      BY <1>2, <3>2, <3>4 DEF WindowInv
  <2>2. CASE ~ (Cardinality(remembered) >= Capacity)
    <3>1. remembered' = k .. (n + 1)
      BY <1>1, <1>2, <1>3, <2>2 DEF Accept
    <3>2. k \in 1 .. Len(log') + 1
      BY <1>2, <1>3
    <3> QED
      BY <1>2, <1>4, <3>1, <3>2 DEF WindowInv
  <2> QED
    BY <2>1, <2>2
<1>6. AcceptedOnceInWindow'
  <2> SUFFICES ASSUME NEW i \in 1 .. Len(log'), NEW j \in 1 .. Len(log'),
                      i < j, log'[i] = log'[j], log'[i] # Other
               PROVE  i \in expired' \/ j - i > Capacity
    BY DEF AcceptedOnceInWindow
  <2>1. CASE j <= n
    <3>1. i \in 1 .. n /\ j \in 1 .. n /\ log[i] = log[j] /\ log[i] # Other
      BY <1>2, <2>1
    <3> QED
      BY <3>1 DEF AcceptedOnceInWindow
  <2>2. CASE j = n + 1
    <3>1. i \in 1 .. n /\ log[i] = e /\ e # Other
      BY <1>2, <2>2
    <3>2. i \notin remembered
      BY <3>1 DEF Keys
    <3>3. Forgotten(i)
      BY <1>1, <1>2, <1>3, <3>1, <3>2
    <3> QED
      BY <1>2, <1>3, <2>2, <3>1, <3>3 DEF Forgotten
  <2> QED
    BY <1>2, <2>1, <2>2
<1> QED
  BY <1>5, <1>6

LEMMA PruneWindow ==
  ASSUME UplinkTypeOK, WindowInv, AcceptedOnceInWindow, PruneExpired
  PROVE  WindowInv' /\ AcceptedOnceInWindow'
<1>1. PICK k \in 1 .. Len(log) + 1 :
        remembered = k .. Len(log) /\ \A i \in 1 .. k - 1 : Forgotten(i)
  BY DEF WindowInv
<1>2. Len(log) \in Nat /\ log' = log /\ expired \subseteq expired'
  BY DEF UplinkTypeOK, PruneExpired
<1>3. k <= Len(log) /\ k \in Nat
  BY <1>1, <1>2 DEF PruneExpired
<1>4. remembered' = (k + 1) .. Len(log) /\ k \in expired'
  BY <1>1, <1>2, <1>3, OldestIsFirst DEF PruneExpired
<1>5. \A i \in 1 .. (k + 1) - 1 : Forgotten(i)'
  BY <1>1, <1>2, <1>3, <1>4 DEF Forgotten
<1>6. k + 1 \in 1 .. Len(log') + 1
  BY <1>1, <1>2, <1>3
<1>7. WindowInv'
  BY <1>2, <1>4, <1>5, <1>6 DEF WindowInv
<1>8. AcceptedOnceInWindow'
  BY <1>2 DEF AcceptedOnceInWindow
<1> QED
  BY <1>7, <1>8

LEMMA WindowStep ==
  ASSUME UplinkTypeOK, WindowInv, AcceptedOnceInWindow, [UplinkNext]_uplinkVars
  PROVE  WindowInv' /\ AcceptedOnceInWindow'
<1>1. CASE UNCHANGED <<log, remembered, expired>>
  BY <1>1 DEF WindowInv, AcceptedOnceInWindow, Forgotten
<1>2. ASSUME NEW h \in Handlers, NEW e \in Events, Ingest(h, e)
      PROVE  WindowInv' /\ AcceptedOnceInWindow'
  <2>1. e \in 0 .. MaxEvents
    BY DEF Events
  <2>2. CASE e \notin Keys /\ Accept(e)
    BY <1>2, <2>1, <2>2, AcceptWindow DEF Ingest
  <2> QED
    BY <1>1, <1>2, <2>2 DEF Ingest
<1>3. CASE IngestOther
  <2>1. Other \in 0 .. MaxEvents
    BY EventUplinkAssumption DEF Other
  <2> QED
    BY <1>3, <2>1, AcceptWindow DEF IngestOther
<1>4. CASE PruneExpired
  BY <1>4, PruneWindow
<1> QED
  BY <1>1, <1>2, <1>3, <1>4
     DEF UplinkNext, uplinkVars, hostVars, Begin, Teardown, Attach, NoStream, Publish, Answered, Abort,
         EndLoop, Refuse, Fence, Produce, StopRun

-----------------------------------------------------------------------------
(* The order of events                                                      *)

LEMMA ForwarderFacts ==
  ASSUME UplinkTypeOK, NEW h \in Handlers
  PROVE  /\ forwarder[h].at \in {"none", "waiting", "posting", "ended"}
         /\ forwarder[h].next \in Nat \ {0} /\ forwarder[h].closed \in BOOLEAN
         /\ forwarder[h].until \in Nat
         /\ handler[h].kind \in {"replace", "teardown"}
         /\ handler[h].at \in {"new", "closing", "done"}
         /\ handler[h].closes \in Handlers \cup {None}
         /\ produced \in Nat
BY EventUplinkAssumption DEF UplinkTypeOK, Forwarder, Handler

(* The history grows; without a new entry its order stays as good.          *)
LEMMA OrderRests ==
  ASSUME FlowInv, log' = log, aborted \subseteq aborted', overlapped => overlapped'
  PROVE  OrderKeptUnlessAborted'
BY DEF FlowInv, OrderKeptUnlessAborted

LEMMA LoggedRests ==
  ASSUME FlowInv, log' = log,
         \A h \in Handlers, e \in Events : post[h][e] = "accepted" => post'[h][e] = "accepted"
  PROVE  LoggedInv'
<1> SUFFICES ASSUME NEW i \in 1 .. Len(log), log[i] # Other
             PROVE  \E h \in Handlers : post'[h][log[i]] = "accepted"
  BY DEF LoggedInv
<1>1. PICK h \in Handlers : post[h][log[i]] = "accepted"
  BY DEF FlowInv, LoggedInv
<1>2. log[i] \in Events
  BY EventUplinkAssumption DEF FlowInv, UplinkTypeOK, Events, Other
<1> QED
  BY <1>1, <1>2

(* The bootstrap or stop takes what is registered, if nobody else closes.   *)
LEMMA BeginStep ==
  ASSUME FlowInv, NEW h \in Handlers, Begin(h)
  PROVE  FlowInv'
<1> USE EventUplinkAssumption
<1>1. UplinkTypeOK /\ ForwarderInv /\ AwaitedInv
  BY DEF FlowInv
<1>2. current # h /\ forwarder[h].at = "none" /\ \A e \in Events : post[h][e] = "none"
  BY <1>1 DEF Begin, ForwarderInv
<1>3. /\ handler'[h].kind = handler[h].kind /\ handler'[h].at = "closing"
      /\ handler'[h].closes = current
      /\ \A g \in Handlers \ {h} : handler'[g] = handler[g]
      /\ handler' \in [Handlers -> Handler]
  <2>1. handler' = [handler EXCEPT ![h] = [@ EXCEPT !.at = "closing", !.closes = current]]
    BY DEF Begin
  <2>2. handler[h] \in Handler /\ current \in Handlers \cup {None}
    BY <1>1 DEF UplinkTypeOK
  <2> DEFINE record == [handler[h] EXCEPT !.at = "closing", !.closes = current]
  <2>3. record.kind = handler[h].kind /\ record.at = "closing" /\ record.closes = current
    BY <2>2 DEF Handler
  <2>4. record \in Handler
    BY <2>2 DEF Handler
  <2>5. handler' = [handler EXCEPT ![h] = record]
    BY <2>1
  <2>6. handler \in [Handlers -> Handler]
    BY <1>1 DEF UplinkTypeOK
  <2> HIDE DEF record
  <2>7. /\ handler'[h] = record /\ \A g \in Handlers \ {h} : handler'[g] = handler[g]
        /\ handler' \in [Handlers -> Handler]
    BY <2>4, <2>5, <2>6
  <2> QED
    BY <2>3, <2>7
<1>4. /\ \A g \in Handlers : forwarder'[g].at = forwarder[g].at
      /\ \A g \in Handlers \ {h} : forwarder'[g].next = forwarder[g].next
      /\ forwarder'[h].next = produced + 1
      /\ current # None =>
           forwarder'[current].closed /\ forwarder'[current].until = produced
      /\ forwarder' \in [Handlers -> Forwarder]
  <2>1. ASSUME NEW g \in Handlers
        PROVE  forwarder[g] \in Forwarder /\ produced \in Nat
    BY <1>1 DEF UplinkTypeOK
  <2> DEFINE stopped == [forwarder[current] EXCEPT !.closed = TRUE, !.until = produced]
  <2>2. ASSUME NEW g \in Handlers, g = current
        PROVE  forwarder'[g] = stopped
    <3>1. forwarder' = [f \in Handlers |->
            CASE f = current -> stopped
              [] f = h -> [forwarder[h] EXCEPT !.next = produced + 1]
              [] OTHER -> forwarder[f]]
      BY DEF Begin, StopForwarder
    <3> HIDE DEF stopped
    <3> QED
      BY <1>2, <2>2, <3>1
  <2>3. ASSUME NEW g \in Handlers, g # current, g = h
        PROVE  forwarder'[g] = [forwarder[g] EXCEPT !.next = produced + 1]
    BY <2>3 DEF Begin, StopForwarder
  <2>4. ASSUME NEW g \in Handlers, g # current, g # h PROVE forwarder'[g] = forwarder[g]
    BY <2>4 DEF Begin, StopForwarder
  <2>5. DOMAIN forwarder' = Handlers /\ forwarder' = [g \in Handlers |-> forwarder'[g]]
    BY DEF Begin, StopForwarder
  <2>6. ASSUME NEW g \in Handlers, g = current
        PROVE  /\ forwarder'[g] \in Forwarder /\ forwarder'[g].at = forwarder[g].at
               /\ forwarder'[g].next = forwarder[g].next
               /\ forwarder'[g].closed /\ forwarder'[g].until = produced
    <3>1. forwarder'[g] = [forwarder[g] EXCEPT !.closed = TRUE, !.until = produced]
      BY <2>2, <2>6
    <3> QED
      BY <2>1, <3>1 DEF Forwarder
  <2>7. /\ forwarder'[h] \in Forwarder /\ forwarder'[h].at = forwarder[h].at
        /\ forwarder'[h].next = produced + 1
    <3>1. forwarder'[h] = [forwarder[h] EXCEPT !.next = produced + 1]
      BY <1>2, <2>3
    <3> QED
      BY <2>1, <3>1 DEF Forwarder
  <2>8. current \in Handlers \cup {None}
    BY <1>1 DEF UplinkTypeOK
  <2> QED
    BY <1>2, <2>1, <2>4, <2>5, <2>6, <2>7, <2>8
<1>5. UNCHANGED <<produced, post, aborted, active, log, remembered, expired>>
  BY DEF Begin, hostVars
<1>6. UplinkTypeOK'
  BY <1>1, <1>3, <1>4, <1>5 DEF Begin, StopForwarder, UplinkTypeOK
<1>7. ForwarderInv' /\ AwaitedInv'
  BY <1>1, <1>2, <1>3, <1>4, <1>5 DEF Begin, StopForwarder, ForwarderInv, AwaitedInv
<1>8. LoggedInv' /\ OrderKeptUnlessAborted'
  BY <1>5, LoggedRests, OrderRests DEF Begin
<1>9. ASSUME ~ overlapped' PROVE TurnsInv' /\ BehindInv' /\ NotAstray'
  <2>1. TurnsInv /\ BehindInv /\ NotAstray /\ \A g \in Handlers : ~ Closing(g)
    BY <1>9 DEF Begin, FlowInv, Closing
  <2>2. \A g \in Handlers : (Closing(g)' <=> g = h) /\ (Working(g)' <=> Working(g))
    BY <1>3, <1>4, <2>1 DEF Closing, Working
  <2>3. \A f \in Handlers : Working(f) => tracked' /\ f = current
    BY <2>1 DEF TurnsInv, Begin
  <2>4. TurnsInv'
    <3>1. produced < produced + 1
      BY <1>1, ForwarderFacts
    <3>2. current' = None /\ (handler[h].kind = "replace" => tracked') /\ (tracked => tracked')
      BY DEF Begin, StopForwarder
    <3>3. \A g \in Handlers : Closing(g)' =>
            /\ handler'[g].kind = "replace" => tracked'
            /\ handler'[g].closes # None =>
                 /\ forwarder'[handler'[g].closes].closed
                 /\ forwarder'[handler'[g].closes].until < forwarder'[g].next
      BY <1>3, <1>4, <2>2, <3>1, <3>2
    <3>4. \A f \in Handlers : Working(f)' => tracked' /\ Closing(h)' /\ handler'[h].closes = f
      BY <1>3, <2>1, <2>2, <2>3, <3>2 DEF TurnsInv
    <3> QED
      BY <2>2, <3>2, <3>3, <3>4 DEF TurnsInv
  <2>5. BehindInv'
    <3>1. ASSUME NEW g \in Handlers, NEW e \in Events, post[g][e] # "none"
          PROVE  e < produced + 1
      BY <1>1, <3>1, ForwarderFacts DEF ForwarderInv, Events
    <3>2. \A g \in Handlers : Working(g) => g # h
      BY <1>2 DEF Working
    <3> QED
      BY <1>4, <1>5, <2>1, <2>2, <3>1, <3>2 DEF BehindInv
  <2> QED
    BY <1>5, <2>1, <2>4, <2>5 DEF NotAstray
<1> QED
  BY <1>6, <1>7, <1>8, <1>9 DEF FlowInv

(* When the only closing handler is done, nothing is at work but what it attaches. *)
LEMMA ClosedFacts ==
  ASSUME FlowInv, ~ overlapped, NEW h \in Handlers, Closed(h)
  PROVE  /\ current = None /\ handler[h].at = "closing" /\ Closing(h)
         /\ \A f \in Handlers : ~ Working(f)
         /\ \A g \in Handlers \ {h} : ~ Closing(g)
<1>1. handler[h].at = "closing" /\ Closing(h) /\ TurnsInv
  BY DEF Closed, FlowInv, Closing
<1>2. current = None /\ \A g \in Handlers \ {h} : ~ Closing(g)
  BY <1>1 DEF TurnsInv
<1>3. ASSUME NEW f \in Handlers, Working(f) PROVE FALSE
  <2>1. handler[h].closes = f
    BY <1>1, <1>2, <1>3, EventUplinkAssumption DEF TurnsInv
  <2> QED
    BY <1>3, <2>1, EventUplinkAssumption DEF Closed, Working
<1> QED
  BY <1>1, <1>2, <1>3

LEMMA DoneFacts ==
  ASSUME UplinkTypeOK, NEW h \in Handlers, Closed(h)
  PROVE  /\ handler'[h].at = "done" /\ \A g \in Handlers \ {h} : handler'[g] = handler[g]
         /\ handler' \in [Handlers -> Handler]
<1> DEFINE record == [handler[h] EXCEPT !.at = "done"]
<1>1. handler \in [Handlers -> Handler] /\ handler[h] \in Handler
  BY DEF UplinkTypeOK
<1>2. record \in Handler /\ record.at = "done"
  BY <1>1 DEF Handler
<1>3. handler' = [handler EXCEPT ![h] = record]
  BY DEF Closed
<1> HIDE DEF record
<1> QED
  BY <1>1, <1>2, <1>3

LEMMA HandlerEndsStep ==
  ASSUME FlowInv, NEW h \in Handlers, Teardown(h) \/ NoStream(h)
  PROVE  FlowInv'
<1>1. /\ Closed(h) /\ tracked' \in BOOLEAN
      /\ UNCHANGED <<overlapped, current, forwarder, produced, post, aborted,
                     active, log, remembered, expired>>
  BY DEF Teardown, NoStream, FlowInv, UplinkTypeOK, hostVars
<1>2. UplinkTypeOK /\ ForwarderInv /\ AwaitedInv
  BY DEF FlowInv
<1>3. /\ handler'[h].at = "done" /\ \A g \in Handlers \ {h} : handler'[g] = handler[g]
      /\ handler' \in [Handlers -> Handler]
  BY <1>1, <1>2, DoneFacts
<1>4. UplinkTypeOK'
  BY <1>1, <1>2, <1>3 DEF UplinkTypeOK
<1>5. ForwarderInv' /\ AwaitedInv'
  <2>1. AwaitedInv'
    BY <1>1, <1>2 DEF AwaitedInv
  <2>2. current # None => handler'[current].at = "done"
    BY <1>2, <1>3 DEF UplinkTypeOK, ForwarderInv
  <2>3. \A g \in Handlers : handler'[g].at # "done" => handler[g].at # "done"
    BY <1>3
  <2> QED
    BY <1>1, <1>2, <2>1, <2>2, <2>3 DEF ForwarderInv
<1>6. LoggedInv' /\ OrderKeptUnlessAborted'
  BY <1>1, LoggedRests, OrderRests
<1>7. ASSUME ~ overlapped' PROVE TurnsInv' /\ BehindInv' /\ NotAstray'
  <2>1. \A g \in Handlers : ~ Closing(g)' /\ ~ Working(g)'
    BY <1>1, <1>3, <1>7, ClosedFacts DEF Closing, Working
  <2> QED
    BY <1>1, <1>7, <2>1 DEF TurnsInv, BehindInv, NotAstray, FlowInv
<1> QED
  BY <1>4, <1>5, <1>6, <1>7 DEF FlowInv

LEMMA AttachStep ==
  ASSUME FlowInv, NEW h \in Handlers, Attach(h)
  PROVE  FlowInv'
<1>1. /\ Closed(h) /\ handler[h].kind = "replace" /\ current' = h
      /\ UNCHANGED <<overlapped, tracked, produced, post, aborted,
                     active, log, remembered, expired>>
  BY DEF Attach, hostVars
<1>2. UplinkTypeOK /\ ForwarderInv /\ AwaitedInv
  BY DEF FlowInv
<1>3. /\ handler'[h].at = "done" /\ \A g \in Handlers \ {h} : handler'[g] = handler[g]
      /\ handler' \in [Handlers -> Handler]
  BY <1>1, <1>2, DoneFacts
<1>4. /\ forwarder'[h].at = "waiting" /\ forwarder'[h].next = forwarder[h].next
      /\ \A g \in Handlers \ {h} : forwarder'[g] = forwarder[g]
      /\ forwarder' \in [Handlers -> Forwarder]
  BY <1>2 DEF Attach, UplinkTypeOK, Forwarder
<1>5. \A e \in Events : post[h][e] = "none"
  BY <1>1, <1>2 DEF Closed, ForwarderInv
<1>6. UplinkTypeOK'
  BY <1>1, <1>2, <1>3, <1>4 DEF UplinkTypeOK
<1>7. ForwarderInv' /\ AwaitedInv'
  BY <1>1, <1>2, <1>3, <1>4, <1>5 DEF ForwarderInv, AwaitedInv
<1>8. LoggedInv' /\ OrderKeptUnlessAborted'
  BY <1>1, LoggedRests, OrderRests
<1>9. ASSUME ~ overlapped' PROVE TurnsInv' /\ BehindInv' /\ NotAstray'
  <2>1. TurnsInv /\ BehindInv /\ NotAstray /\ ~ overlapped
    BY <1>1, <1>9 DEF FlowInv
  <2>2. \A g \in Handlers : ~ Closing(g)' /\ (Working(g)' <=> g = h)
    BY <1>1, <1>3, <1>4, <2>1, ClosedFacts DEF Closing, Working
  <2>3. Closing(h) /\ tracked
    BY <1>1, <2>1, ClosedFacts DEF TurnsInv
  <2>4. TurnsInv'
    BY <1>1, <2>2, <2>3 DEF TurnsInv
  <2>5. BehindInv'
    BY <1>1, <1>4, <2>1, <2>2, <2>3 DEF BehindInv
  <2> QED
    BY <1>1, <2>1, <2>4, <2>5 DEF NotAstray
<1> QED
  BY <1>6, <1>7, <1>8, <1>9 DEF FlowInv

-----------------------------------------------------------------------------
(* The forwarding loops                                                     *)

(* Only one forwarder is at work, and one that a handler closes stays behind it. *)
LEMMA WorkingFacts ==
  ASSUME FlowInv, ~ overlapped, NEW h \in Handlers, Working(h)
  PROVE  /\ tracked
         /\ \A g \in Handlers : Working(g) => g = h
         /\ \A g \in Handlers : Closing(g) =>
              handler[g].closes = h /\ forwarder[h].closed /\ forwarder[h].until < forwarder[g].next
<1>1. TurnsInv /\ None \notin Handlers
  BY EventUplinkAssumption DEF FlowInv
<1>2. ASSUME NEW g \in Handlers, Working(g) PROVE g = h
  BY <1>1, <1>2 DEF TurnsInv
<1>3. ASSUME NEW g \in Handlers, Closing(g)
      PROVE  handler[g].closes = h /\ forwarder[h].closed /\ forwarder[h].until < forwarder[g].next
  BY <1>1, <1>3 DEF TurnsInv
<1> QED
  BY <1>1, <1>2, <1>3 DEF TurnsInv

(* A loop that takes an event, goes on to the next, or ends.                *)
LEMMA LoopChange ==
  ASSUME UplinkTypeOK, NEW h \in Handlers,
         NEW at \in {"waiting", "posting", "ended"}, NEW next \in Nat \ {0},
         forwarder' = [forwarder EXCEPT ![h] = [@ EXCEPT !.at = at, !.next = next]]
  PROVE  /\ forwarder' \in [Handlers -> Forwarder]
         /\ forwarder'[h].at = at /\ forwarder'[h].next = next
         /\ forwarder'[h].closed = forwarder[h].closed /\ forwarder'[h].until = forwarder[h].until
         /\ \A g \in Handlers \ {h} : forwarder'[g] = forwarder[g]
<1> DEFINE record == [forwarder[h] EXCEPT !.at = at, !.next = next]
<1>1. forwarder \in [Handlers -> Forwarder] /\ forwarder[h] \in Forwarder
  BY DEF UplinkTypeOK
<1>2. record \in Forwarder
  BY <1>1 DEF Forwarder
<1>3. record.at = at /\ record.next = next
  BY <1>1 DEF Forwarder
<1>4. record.closed = forwarder[h].closed /\ record.until = forwarder[h].until
  BY <1>1 DEF Forwarder
<1>5. forwarder' = [forwarder EXCEPT ![h] = record]
  OBVIOUS
<1> HIDE DEF record
<1> QED
  BY <1>1, <1>2, <1>3, <1>4, <1>5

(* The turns of handlers do not depend on how far a loop has come.          *)
LEMMA TurnsRest ==
  ASSUME FlowInv, TurnsInv, UNCHANGED <<handler, current, tracked>>,
         \A h \in Handlers :
           /\ Working(h)' => Working(h)
           /\ forwarder'[h].closed = forwarder[h].closed
           /\ forwarder'[h].until = forwarder[h].until
           /\ forwarder'[h].next >= forwarder[h].next /\ forwarder'[h].next \in Nat
  PROVE  TurnsInv'
<1>1. \A h \in Handlers : Closing(h)' <=> Closing(h)
  BY DEF Closing
<1>2. ASSUME NEW h \in Handlers, Closing(h), handler[h].closes # None
      PROVE  /\ forwarder'[handler[h].closes].closed
             /\ forwarder'[handler[h].closes].until < forwarder'[h].next
  <2>1. UplinkTypeOK
    BY DEF FlowInv
  <2>2. handler[h].closes \in Handlers
    BY <1>2, <2>1, ForwarderFacts
  <2>3. forwarder[handler[h].closes].until \in Nat /\ forwarder[h].next \in Nat
    BY <2>1, <2>2, ForwarderFacts
  <2>4. forwarder[handler[h].closes].closed
        /\ forwarder[handler[h].closes].until < forwarder[h].next
    BY <1>2 DEF TurnsInv
  <2> QED
    BY <2>2, <2>3, <2>4
<1> QED
  BY <1>1, <1>2 DEF TurnsInv

LEMMA PublishStep ==
  ASSUME FlowInv, NEW h \in Handlers, Publish(h)
  PROVE  FlowInv'
<1>1. UplinkTypeOK /\ ForwarderInv /\ AwaitedInv
  BY DEF FlowInv
<1>2. forwarder[h].at = "waiting" /\ forwarder[h].next <= produced
      /\ forwarder[h].next <= forwarder[h].until
  BY DEF Publish
<1>3. PICK e \in Events : e = forwarder[h].next
  <2>1. forwarder[h].next \in Nat \ {0}
    BY <1>1, ForwarderFacts
  <2>2. produced \in Nat /\ produced <= MaxEvents /\ MaxEvents \in Nat
    BY <1>1, EventUplinkAssumption DEF UplinkTypeOK
  <2>3. forwarder[h].next \in Events
    BY <1>2, <2>1, <2>2 DEF Events
  <2> QED
    BY <2>3
<1>4. UNCHANGED <<handler, overlapped, current, tracked, produced, aborted,
                  active, log, remembered, expired>>
  BY DEF Publish, hostVars
<1>5. /\ forwarder' \in [Handlers -> Forwarder]
      /\ forwarder'[h].at = "posting" /\ forwarder'[h].next = e
      /\ forwarder'[h].closed = forwarder[h].closed /\ forwarder'[h].until = forwarder[h].until
      /\ \A g \in Handlers \ {h} : forwarder'[g] = forwarder[g]
  <2>1. e \in Nat \ {0}
    BY DEF Events
  <2>2. forwarder' = [forwarder EXCEPT ![h] = [@ EXCEPT !.at = "posting", !.next = e]]
    <3>1. forwarder[h] \in Forwarder /\ forwarder \in [Handlers -> Forwarder]
      BY <1>1 DEF UplinkTypeOK
    <3>2. [forwarder[h] EXCEPT !.at = "posting"] = [forwarder[h] EXCEPT !.at = "posting", !.next = e]
      BY <1>3, <3>1 DEF Forwarder
    <3>3. forwarder' = [forwarder EXCEPT ![h] = [forwarder[h] EXCEPT !.at = "posting"]]
      BY DEF Publish
    <3> QED
      BY <3>2, <3>3
  <2> QED
    BY <1>1, <2>1, <2>2, LoopChange
<1>6. /\ post' \in [Handlers -> [Events -> PostState]]
      /\ post'[h][e] = (IF tracked THEN "sent" ELSE "astray")
      /\ \A g \in Handlers, k \in Events : (g # h \/ k # e) => post'[g][k] = post[g][k]
  BY <1>1, <1>3 DEF Publish, UplinkTypeOK, PostState
<1>7. /\ post[h][e] = "none" /\ e <= produced /\ e <= forwarder[h].until
      /\ handler[h].at = "done"
      /\ \A k \in Events : post[h][k] # "none" => k < e
  BY <1>1, <1>2, <1>3 DEF ForwarderInv, Events
<1>8. UplinkTypeOK'
  BY <1>1, <1>4, <1>5, <1>6 DEF UplinkTypeOK
<1>9. ForwarderInv'
  <2>1. ASSUME NEW g \in Handlers, NEW k \in Events, post'[g][k] # "none"
        PROVE  /\ k <= produced /\ k <= forwarder'[g].next
               /\ forwarder'[g].at # "posting" => k < forwarder'[g].next
    <3>1. CASE g = h
      BY <1>1, <1>5, <1>6, <1>7, <2>1, <3>1 DEF ForwarderInv, Events
    <3>2. CASE g # h
      <4>1. forwarder'[g] = forwarder[g] /\ post'[g][k] = post[g][k]
        BY <1>5, <1>6, <3>2
      <4> QED
        BY <1>1, <2>1, <4>1 DEF ForwarderInv
    <3> QED
      BY <3>1, <3>2
  <2>2. ASSUME NEW g \in Handlers, handler[g].at # "done"
        PROVE  forwarder'[g].at = "none" /\ \A k \in Events : post'[g][k] = "none"
    BY <1>1, <1>5, <1>6, <1>7, <2>2 DEF ForwarderInv
  <2> QED
    BY <1>1, <1>4, <2>1, <2>2 DEF ForwarderInv
<1>10. AwaitedInv'
  <2> SUFFICES ASSUME NEW g \in Handlers, NEW k \in Events,
                      post'[g][k] \in {"sent", "checked"}, <<g, k>> \notin aborted
               PROVE  forwarder'[g].at = "posting" /\ forwarder'[g].next = k
    BY <1>4 DEF AwaitedInv
  <2>1. CASE g = h /\ k = e
    BY <1>5, <2>1
  <2>2. CASE g = h /\ k # e
    BY <1>1, <1>2, <1>6, <2>2 DEF AwaitedInv
  <2>3. CASE g # h
    BY <1>1, <1>5, <1>6, <2>3 DEF AwaitedInv
  <2> QED
    BY <2>1, <2>2, <2>3
<1>11. LoggedInv' /\ OrderKeptUnlessAborted'
  <2>1. \A g \in Handlers, k \in Events : post[g][k] = "accepted" => post'[g][k] = "accepted"
    BY <1>6, <1>7
  <2> QED
    BY <1>4, <2>1, LoggedRests, OrderRests
<1>12. ASSUME ~ overlapped' PROVE TurnsInv' /\ BehindInv' /\ NotAstray'
  <2>1. TurnsInv /\ BehindInv /\ NotAstray /\ ~ overlapped /\ Working(h)
    BY <1>2, <1>4, <1>12 DEF FlowInv, Working
  <2>2. \A g \in Handlers : (Working(g)' <=> Working(g)) /\ (Closing(g)' <=> Closing(g))
    BY <1>2, <1>4, <1>5 DEF Working, Closing
  <2>3. \A g \in Handlers : forwarder'[g].next = forwarder[g].next
    BY <1>3, <1>5
  <2>4. TurnsInv'
    BY <1>1, <1>4, <1>5, <2>1, <2>2, <2>3, ForwarderFacts, TurnsRest
  <2>5. BehindInv'
    <3>1. ASSUME NEW g \in Handlers \ {h}, Closing(g) \/ Working(g)
          PROVE  e < forwarder[g].next
      <4>1. forwarder[h].until < forwarder[g].next
        BY <2>1, <3>1, WorkingFacts
      <4> QED
        BY <1>1, <1>7, <4>1, ForwarderFacts DEF Events
    <3> QED
      BY <1>6, <2>1, <2>2, <2>3, <3>1 DEF BehindInv
  <2>6. NotAstray'
    BY <1>6, <2>1, WorkingFacts DEF NotAstray
  <2> QED
    BY <2>4, <2>5, <2>6
<1> QED
  BY <1>8, <1>9, <1>10, <1>11, <1>12 DEF FlowInv

LEMMA NextEventStep ==
  ASSUME FlowInv, NEW h \in Handlers, Answered(h) \/ Abort(h)
  PROVE  FlowInv'
<1>1. UplinkTypeOK /\ ForwarderInv /\ AwaitedInv
  BY DEF FlowInv
<1>2. /\ forwarder[h].at = "posting" /\ aborted \subseteq aborted'
      /\ UNCHANGED <<handler, overlapped, current, tracked, produced, post,
                     active, log, remembered, expired>>
      /\ \/ post[h][forwarder[h].next] \notin {"sent", "checked"}
         \/ <<h, forwarder[h].next>> \in aborted'
  BY DEF Answered, Abort, hostVars
<1>3. PICK e \in Nat \ {0} : e = forwarder[h].next
  BY <1>1, ForwarderFacts
<1>4. /\ forwarder' \in [Handlers -> Forwarder]
      /\ forwarder'[h].at = "waiting" /\ forwarder'[h].next = e + 1
      /\ forwarder'[h].closed = forwarder[h].closed /\ forwarder'[h].until = forwarder[h].until
      /\ \A g \in Handlers \ {h} : forwarder'[g] = forwarder[g]
  <2>1. forwarder' = [forwarder EXCEPT ![h] = [@ EXCEPT !.at = "waiting", !.next = e + 1]]
    <3>1. forwarder[h] \in Forwarder
      BY <1>1 DEF UplinkTypeOK
    <3> QED
      BY <1>3, <3>1 DEF Answered, Abort, NextEvent, Forwarder
  <2>2. e + 1 \in Nat \ {0}
    OBVIOUS
  <2> QED
    BY <1>1, <2>1, <2>2, LoopChange
<1>5. UplinkTypeOK'
  BY <1>1, <1>2, <1>4 DEF UplinkTypeOK
<1>6. ForwarderInv'
  <2>1. ASSUME NEW k \in Events, post[h][k] # "none" PROVE k <= produced /\ k < e + 1
    BY <1>1, <1>3, <2>1 DEF ForwarderInv, Events
  <2>2. handler[h].at = "done"
    BY <1>1, <1>2 DEF ForwarderInv
  <2> QED
    BY <1>1, <1>2, <1>4, <2>1, <2>2 DEF ForwarderInv, Events
<1>7. AwaitedInv'
  BY <1>1, <1>2, <1>3, <1>4 DEF AwaitedInv
<1>8. LoggedInv' /\ OrderKeptUnlessAborted'
  BY <1>2, LoggedRests, OrderRests
<1>9. ASSUME ~ overlapped' PROVE TurnsInv' /\ BehindInv' /\ NotAstray'
  <2>1. TurnsInv /\ BehindInv /\ NotAstray
    BY <1>2, <1>9 DEF FlowInv
  <2>2. \A g \in Handlers : (Working(g)' <=> Working(g)) /\ (Closing(g)' <=> Closing(g))
    BY <1>2, <1>4 DEF Working, Closing
  <2>3. \A g \in Handlers : /\ forwarder'[g].next >= forwarder[g].next
                            /\ forwarder'[g].next \in Nat /\ forwarder[g].next \in Nat
    BY <1>1, <1>3, <1>4, ForwarderFacts
  <2>4. TurnsInv'
    BY <1>2, <1>4, <2>1, <2>2, <2>3, TurnsRest
  <2>5. BehindInv'
    BY <1>2, <2>1, <2>2, <2>3 DEF BehindInv, Events
  <2> QED
    BY <1>2, <2>1, <2>4, <2>5 DEF NotAstray
<1> QED
  BY <1>5, <1>6, <1>7, <1>8, <1>9 DEF FlowInv

LEMMA EndLoopStep ==
  ASSUME FlowInv, NEW h \in Handlers, EndLoop(h)
  PROVE  FlowInv'
<1>1. UplinkTypeOK /\ ForwarderInv /\ AwaitedInv
  BY DEF FlowInv
<1>2. /\ forwarder[h].at = "waiting"
      /\ UNCHANGED <<handler, overlapped, current, tracked, produced, post, aborted,
                     active, log, remembered, expired>>
  BY DEF EndLoop, hostVars
<1>3. PICK e \in Nat \ {0} : e = forwarder[h].next
  BY <1>1, ForwarderFacts
<1>4. /\ forwarder' \in [Handlers -> Forwarder]
      /\ forwarder'[h].at = "ended" /\ forwarder'[h].next = e
      /\ forwarder'[h].closed = forwarder[h].closed /\ forwarder'[h].until = forwarder[h].until
      /\ \A g \in Handlers \ {h} : forwarder'[g] = forwarder[g]
  <2>1. forwarder' = [forwarder EXCEPT ![h] = [@ EXCEPT !.at = "ended", !.next = e]]
    <3>1. forwarder[h] \in Forwarder
      BY <1>1 DEF UplinkTypeOK
    <3>2. [forwarder[h] EXCEPT !.at = "ended"] = [forwarder[h] EXCEPT !.at = "ended", !.next = e]
      BY <1>3, <3>1 DEF Forwarder
    <3>3. forwarder' = [forwarder EXCEPT ![h] = [forwarder[h] EXCEPT !.at = "ended"]]
      BY DEF EndLoop
    <3> QED
      BY <3>2, <3>3
  <2> QED
    BY <1>1, <2>1, LoopChange
<1>5. UplinkTypeOK'
  BY <1>1, <1>2, <1>4 DEF UplinkTypeOK
<1>6. ForwarderInv' /\ AwaitedInv'
  BY <1>1, <1>2, <1>3, <1>4 DEF ForwarderInv, AwaitedInv
<1>7. LoggedInv' /\ OrderKeptUnlessAborted'
  BY <1>2, LoggedRests, OrderRests
<1>8. ASSUME ~ overlapped' PROVE TurnsInv' /\ BehindInv' /\ NotAstray'
  <2>1. TurnsInv /\ BehindInv /\ NotAstray
    BY <1>2, <1>8 DEF FlowInv
  <2>2. \A g \in Handlers : (Working(g)' => Working(g)) /\ (Closing(g)' <=> Closing(g))
    BY <1>2, <1>4 DEF Working, Closing
  <2>3. \A g \in Handlers : forwarder'[g].next = forwarder[g].next
    BY <1>3, <1>4
  <2>4. TurnsInv'
    BY <1>1, <1>2, <1>4, <2>1, <2>2, <2>3, ForwarderFacts, TurnsRest
  <2>5. BehindInv'
    BY <1>2, <2>1, <2>2, <2>3 DEF BehindInv
  <2> QED
    BY <1>2, <2>1, <2>4, <2>5 DEF NotAstray
<1> QED
  BY <1>5, <1>6, <1>7, <1>8 DEF FlowInv

LEMMA ProduceStep ==
  ASSUME FlowInv, Produce
  PROVE  FlowInv'
<1>1. UplinkTypeOK /\ ForwarderInv /\ AwaitedInv
  BY DEF FlowInv
<1>2. /\ produced \in Nat /\ produced' = produced + 1 /\ produced' \in 0 .. MaxEvents
      /\ UNCHANGED <<handler, overlapped, current, tracked, forwarder, post, aborted,
                     active, log, remembered, expired>>
  BY <1>1, EventUplinkAssumption DEF UplinkTypeOK, Produce, hostVars
<1>3. UplinkTypeOK'
  BY <1>1, <1>2 DEF UplinkTypeOK
<1>4. ForwarderInv' /\ AwaitedInv'
  BY <1>1, <1>2 DEF ForwarderInv, AwaitedInv, Events
<1>5. LoggedInv' /\ OrderKeptUnlessAborted'
  BY <1>2, LoggedRests, OrderRests
<1>6. ~ overlapped' => TurnsInv' /\ BehindInv' /\ NotAstray'
  BY <1>2 DEF FlowInv, TurnsInv, BehindInv, NotAstray, Closing, Working
<1> QED
  BY <1>3, <1>4, <1>5, <1>6 DEF FlowInv

-----------------------------------------------------------------------------
(* The host's event route                                                   *)

(* What becomes of a request that is under way concerns no forwarder.       *)
LEMMA PostMoves ==
  ASSUME FlowInv, NEW h \in Handlers, NEW e \in Events, NEW p \in PostState \ {"none", "astray"},
         post[h][e] \in {"sent", "checked"}, Becomes(h, e, p), UNCHANGED workerVars
  PROVE  /\ post' \in [Handlers -> [Events -> PostState]]
         /\ post'[h][e] = p
         /\ \A g \in Handlers, k \in Events : post[g][k] = "accepted" => post'[g][k] = "accepted"
         /\ ForwarderInv' /\ AwaitedInv'
         /\ ~ overlapped' => TurnsInv' /\ BehindInv' /\ NotAstray'
<1>1. UplinkTypeOK /\ ForwarderInv /\ AwaitedInv
  BY DEF FlowInv
<1>2. UNCHANGED <<handler, overlapped, current, tracked, forwarder, produced, aborted>>
  BY DEF workerVars
<1>3. /\ post' \in [Handlers -> [Events -> PostState]] /\ post'[h][e] = p
      /\ \A g \in Handlers, k \in Events : (g # h \/ k # e) => post'[g][k] = post[g][k]
  BY <1>1 DEF UplinkTypeOK, Becomes
<1>4. \A g \in Handlers, k \in Events :
        /\ post'[g][k] = "none" <=> post[g][k] = "none"
        /\ post'[g][k] = "astray" <=> post[g][k] = "astray"
        /\ post[g][k] = "accepted" => post'[g][k] = "accepted"
        /\ post'[g][k] \in {"sent", "checked"} => post[g][k] \in {"sent", "checked"}
  <2> SUFFICES ASSUME NEW g \in Handlers, NEW k \in Events
               PROVE  /\ post'[g][k] = "none" <=> post[g][k] = "none"
                      /\ post'[g][k] = "astray" <=> post[g][k] = "astray"
                      /\ post[g][k] = "accepted" => post'[g][k] = "accepted"
                      /\ post'[g][k] \in {"sent", "checked"} => post[g][k] \in {"sent", "checked"}
    OBVIOUS
  <2>1. CASE g = h /\ k = e
    BY <1>3, <2>1
  <2>2. CASE g # h \/ k # e
    BY <1>3, <2>2
  <2> QED
    BY <2>1, <2>2
<1>5. ForwarderInv' /\ AwaitedInv'
  BY <1>1, <1>2, <1>4 DEF ForwarderInv, AwaitedInv
<1>6. ASSUME ~ overlapped' PROVE TurnsInv' /\ BehindInv' /\ NotAstray'
  <2>1. TurnsInv /\ BehindInv /\ NotAstray
    BY <1>2, <1>6 DEF FlowInv
  <2>2. TurnsInv'
    BY <1>2, <2>1 DEF TurnsInv, Closing, Working
  <2>3. BehindInv' /\ NotAstray'
    BY <1>2, <1>4, <2>1 DEF BehindInv, NotAstray, Closing, Working
  <2> QED
    BY <2>1, <2>2, <2>3
<1> QED
  BY <1>3, <1>4, <1>5, <1>6

LEMMA AnsweredStep ==
  ASSUME FlowInv, NEW h \in Handlers, NEW e \in Events,
         NEW p \in PostState \ {"none", "astray"}, post[h][e] \in {"sent", "checked"},
         Becomes(h, e, p), UNCHANGED workerVars, UNCHANGED <<active, log>>
  PROVE  FlowInv'
<1>1. UplinkTypeOK'
  BY PostMoves DEF FlowInv, UplinkTypeOK, workerVars
<1>2. LoggedInv' /\ OrderKeptUnlessAborted'
  BY PostMoves, LoggedRests, OrderRests DEF workerVars
<1> QED
  BY <1>1, <1>2, PostMoves DEF FlowInv

(* An accepted event is later than all the log has, unless it was given up: *)
(* its forwarder still waits for it, and none has posted a later one.       *)
LEMMA AcceptStep ==
  ASSUME FlowInv, NEW h \in Handlers, NEW e \in Events, post[h][e] = "checked",
         Becomes(h, e, "accepted"), log' = Append(log, e),
         UNCHANGED workerVars, active' = active
  PROVE  FlowInv'
<1>1. UplinkTypeOK /\ ForwarderInv /\ AwaitedInv /\ LoggedInv /\ OrderKeptUnlessAborted
  BY DEF FlowInv
<1>2. "accepted" \in PostState \ {"none", "astray"}
  BY DEF PostState
<1>3. /\ post' \in [Handlers -> [Events -> PostState]] /\ post'[h][e] = "accepted"
      /\ \A g \in Handlers, k \in Events : post[g][k] = "accepted" => post'[g][k] = "accepted"
      /\ ForwarderInv' /\ AwaitedInv'
      /\ ~ overlapped' => TurnsInv' /\ BehindInv' /\ NotAstray'
  BY <1>2, PostMoves
<1>4. e \in 0 .. MaxEvents /\ e \in Nat /\ e # Other
  BY EventUplinkAssumption DEF Events, Other
<1>5. /\ log' \in Seq(0 .. MaxEvents) /\ Len(log) \in Nat /\ Len(log') = Len(log) + 1
      /\ log'[Len(log) + 1] = e
      /\ \A i \in 1 .. Len(log) : log'[i] = log[i] /\ log[i] \in 0 .. MaxEvents
  BY <1>1, <1>4, LogFacts
<1>6. UplinkTypeOK'
  BY <1>1, <1>3, <1>5 DEF UplinkTypeOK, workerVars
<1>7. \A i \in 1 .. Len(log) : log[i] # Other => log[i] \in Events
  BY <1>5, EventUplinkAssumption DEF Other, Events
<1>8. LoggedInv'
  <2> SUFFICES ASSUME NEW i \in 1 .. Len(log'), log'[i] # Other
               PROVE  \E g \in Handlers : post'[g][log'[i]] = "accepted"
    BY DEF LoggedInv
  <2>1. CASE i = Len(log) + 1
    BY <1>3, <1>5, <2>1
  <2>2. CASE i # Len(log) + 1
    <3>1. i \in 1 .. Len(log) /\ log'[i] = log[i]
      BY <1>5, <2>2
    <3>2. PICK g \in Handlers : post[g][log[i]] = "accepted"
      BY <1>1, <2>2, <3>1 DEF LoggedInv
    <3>3. log[i] \in Events
      BY <1>7, <3>1
    <3> QED
      BY <1>3, <3>1, <3>2, <3>3
  <2> QED
    BY <2>1, <2>2
<1>9. OrderKeptUnlessAborted'
  <2> SUFFICES ASSUME ~ overlapped', NEW i \in 1 .. Len(log'), NEW j \in 1 .. Len(log'),
                      i < j, log'[j] # Other, log'[j] < log'[i]
               PROVE  \E g \in Handlers : <<g, log'[j]>> \in aborted'
    BY DEF OrderKeptUnlessAborted
  <2>1. ~ overlapped /\ aborted' = aborted /\ BehindInv
    BY DEF workerVars, FlowInv
  <2>2. i \in 1 .. Len(log) /\ log'[i] = log[i]
    BY <1>5
  <2>3. CASE j # Len(log) + 1
    <3>1. j \in 1 .. Len(log) /\ log'[j] = log[j]
      BY <1>5, <2>3
    <3> QED
      BY <1>1, <2>1, <2>2, <3>1 DEF OrderKeptUnlessAborted
  <2>4. CASE j = Len(log) + 1
    <3>1. log'[j] = e /\ log[i] \in Events /\ e < log[i]
      BY <1>4, <1>5, <1>7, <2>2, <2>4 DEF Other
    <3>2. ASSUME <<h, e>> \notin aborted PROVE FALSE
      <4>1. forwarder[h].at = "posting" /\ forwarder[h].next = e /\ Working(h)
        BY <1>1, <3>2 DEF AwaitedInv, Working
      <4>2. PICK g \in Handlers : post[g][log[i]] = "accepted"
        BY <1>1, <2>2, <3>1 DEF LoggedInv, Events, Other
      <4>3. log[i] <= e
        <5>1. CASE g = h
          BY <1>1, <3>1, <4>1, <4>2, <5>1 DEF ForwarderInv
        <5>2. CASE g # h
          BY <1>4, <2>1, <3>1, <4>1, <4>2, <5>2 DEF BehindInv, Events
        <5> QED
          BY <5>1, <5>2
      <4> QED
        BY <1>4, <3>1, <4>3 DEF Events
    <3> QED
      BY <2>1, <3>1, <3>2
  <2> QED
    BY <2>3, <2>4
<1> QED
  BY <1>3, <1>6, <1>8, <1>9 DEF FlowInv

LEMMA RouteStep ==
  ASSUME FlowInv, NEW h \in Handlers, NEW e \in Events,
         Refuse(h, e) \/ Fence(h, e) \/ Ingest(h, e)
  PROVE  FlowInv'
<1>1. {"refused", "stale", "checked", "duplicate"} \subseteq PostState \ {"none", "astray"}
  BY DEF PostState
<1>2. CASE Refuse(h, e)
  BY <1>1, <1>2, AnsweredStep DEF Refuse, hostVars
<1>3. CASE Fence(h, e)
  <2>1. CASE active
    BY <1>1, <1>3, <2>1, AnsweredStep DEF Fence, hostVars
  <2>2. CASE ~ active
    BY <1>1, <1>3, <2>2, AnsweredStep DEF Fence, hostVars
  <2> QED
    BY <2>1, <2>2
<1>4. CASE Ingest(h, e)
  <2>1. CASE Becomes(h, e, "duplicate") /\ log' = log
    BY <1>1, <1>4, <2>1, AnsweredStep DEF Ingest
  <2>2. CASE Becomes(h, e, "accepted") /\ log' = Append(log, e)
    BY <1>4, <2>2, AcceptStep DEF Ingest
  <2> QED
    BY <1>4, <2>1, <2>2 DEF Ingest, Accept
<1> QED
  BY <1>2, <1>3, <1>4

(* The other runs, the time and the end of the run.                         *)
LEMMA HostStep ==
  ASSUME FlowInv, IngestOther \/ PruneExpired \/ StopRun
  PROVE  FlowInv'
<1>1. /\ UNCHANGED <<handler, overlapped, current, tracked, forwarder, produced, aborted, post>>
      /\ active' \in BOOLEAN
      /\ log' = log \/ log' = Append(log, Other)
  BY DEF FlowInv, UplinkTypeOK, IngestOther, PruneExpired, StopRun, Accept, workerVars
<1>2. UplinkTypeOK /\ Other \in 0 .. MaxEvents
  BY EventUplinkAssumption DEF FlowInv, Other
<1>3. ForwarderInv' /\ AwaitedInv'
  BY <1>1 DEF FlowInv, ForwarderInv, AwaitedInv
<1>4. ~ overlapped' => TurnsInv' /\ BehindInv' /\ NotAstray'
  BY <1>1 DEF FlowInv, TurnsInv, BehindInv, NotAstray, Closing, Working
<1>5. CASE log' = log
  <2>1. UplinkTypeOK'
    BY <1>1, <1>2, <1>5 DEF UplinkTypeOK
  <2>2. LoggedInv' /\ OrderKeptUnlessAborted'
    BY <1>1, <1>5, LoggedRests, OrderRests
  <2> QED
    BY <1>3, <1>4, <2>1, <2>2 DEF FlowInv
<1>6. CASE log' = Append(log, Other)
  <2>1. /\ log' \in Seq(0 .. MaxEvents) /\ Len(log) \in Nat /\ Len(log') = Len(log) + 1
        /\ log'[Len(log) + 1] = Other
        /\ \A i \in 1 .. Len(log) : log'[i] = log[i] /\ log[i] \in 0 .. MaxEvents
    BY <1>2, <1>6, LogFacts
  <2>2. UplinkTypeOK'
    <3>1. log' \in Seq(0 .. MaxEvents)
      BY <2>1
    <3> QED
      BY <1>1, <1>2, <3>1 DEF UplinkTypeOK
  <2>3. LoggedInv'
    BY <1>1, <2>1 DEF FlowInv, LoggedInv
  <2>4. OrderKeptUnlessAborted'
    <3> SUFFICES ASSUME ~ overlapped', NEW i \in 1 .. Len(log'), NEW j \in 1 .. Len(log'),
                        i < j, log'[j] # Other, log'[j] < log'[i]
                 PROVE  \E g \in Handlers : <<g, log'[j]>> \in aborted'
      BY DEF OrderKeptUnlessAborted
    <3>1. i \in 1 .. Len(log) /\ j \in 1 .. Len(log) /\ log'[i] = log[i] /\ log'[j] = log[j]
      BY <2>1
    <3> QED
      BY <1>1, <3>1 DEF FlowInv, OrderKeptUnlessAborted
  <2> QED
    BY <1>3, <1>4, <2>2, <2>3, <2>4 DEF FlowInv
<1> QED
  BY <1>1, <1>5, <1>6

-----------------------------------------------------------------------------
LEMMA FlowStep ==
  ASSUME FlowInv, [UplinkNext]_uplinkVars
  PROVE  FlowInv'
<1>1. ASSUME NEW h \in Handlers,
             \/ Begin(h) \/ Teardown(h) \/ Attach(h) \/ NoStream(h)
             \/ Publish(h) \/ Answered(h) \/ Abort(h) \/ EndLoop(h)
      PROVE  FlowInv'
  BY <1>1, BeginStep, HandlerEndsStep, AttachStep, PublishStep, NextEventStep, EndLoopStep
<1>2. ASSUME NEW h \in Handlers, NEW e \in Events, Refuse(h, e) \/ Fence(h, e) \/ Ingest(h, e)
      PROVE  FlowInv'
  BY <1>2, RouteStep
<1>3. CASE UNCHANGED uplinkVars
  <2>1. UNCHANGED <<handler, overlapped, current, tracked, forwarder, produced, post, aborted,
                    active, log>>
    BY <1>3 DEF uplinkVars
  <2>2. UplinkTypeOK'
    BY <2>1 DEF FlowInv, UplinkTypeOK
  <2>3. ForwarderInv' /\ AwaitedInv'
    BY <2>1 DEF FlowInv, ForwarderInv, AwaitedInv
  <2>5. LoggedInv'
    BY <2>1 DEF FlowInv, LoggedInv
  <2>6. OrderKeptUnlessAborted'
    BY <2>1 DEF FlowInv, OrderKeptUnlessAborted
  <2>4. ~ overlapped' => TurnsInv' /\ BehindInv' /\ NotAstray'
    BY <2>1 DEF FlowInv, TurnsInv, BehindInv, NotAstray, Closing, Working
  <2> QED
    BY <2>2, <2>3, <2>4, <2>5, <2>6 DEF FlowInv
<1> QED
  BY <1>1, <1>2, <1>3, ProduceStep, HostStep DEF UplinkNext

LEMMA UplinkInvStep ==
  ASSUME UplinkInv, [UplinkNext]_uplinkVars
  PROVE  UplinkInv'
<1>1. FlowInv'
  BY FlowStep DEF UplinkInv
<1>2. WindowInv' /\ AcceptedOnceInWindow'
  BY WindowStep DEF UplinkInv, FlowInv
<1> QED
  BY <1>1, <1>2 DEF UplinkInv

-----------------------------------------------------------------------------
(* The inductive invariant holds throughout.                                *)
THEOREM UplinkInvariance == UplinkSpec => []UplinkInv
<1>1. UplinkInit => UplinkInv
  BY UplinkInitInv
<1>2. UplinkInv /\ [UplinkNext]_uplinkVars => UplinkInv'
  BY UplinkInvStep
<1> QED
  BY <1>1, <1>2, PTL DEF UplinkSpec

(* The variables keep their types.                                          *)
THEOREM UplinkTypeCorrect == UplinkSpec => []UplinkTypeOK
<1>1. UplinkInv => UplinkTypeOK
  BY DEF UplinkInv, FlowInv
<1> QED
  BY <1>1, UplinkInvariance, PTL

(* The host accepts an event a second time only when its first entry's time *)
(* was up or Capacity later events have pushed it out, whatever the number  *)
(* of forwarders and of late requests                                       *)
(* (remote-event-idempotency-policy.ts:38).                                 *)
THEOREM AcceptedOnce == UplinkSpec => []AcceptedOnceInWindow
<1>1. UplinkInv => AcceptedOnceInWindow
  BY DEF UplinkInv
<1> QED
  BY <1>1, UplinkInvariance, PTL

(* While the run's bootstraps and stops do not overlap, the forwarder at    *)
(* work is the registered one or the one a handler closes, and no event is  *)
(* sent to the worker itself                                                *)
(* (worker-run-lifecycle-coordinator.ts, replaceEventForwarder).            *)
THEOREM OneForwarderAtWork == UplinkSpec => []OneForwarder
<1>1. UplinkInv => OneForwarder
  BY DEF UplinkInv, FlowInv, OneForwarder, TurnsInv, NotAstray, Working, Closing
<1> QED
  BY <1>1, UplinkInvariance, PTL

(* ... and the host's numbering follows the order in which the team emitted *)
(* its events, except for an event whose POST the worker had given up       *)
(* (team-event-aggregator.ts, worker-event-uplink-client.ts).               *)
THEOREM NumberingKeepsOrder == UplinkSpec => []OrderKeptUnlessAborted
<1>1. UplinkInv => OrderKeptUnlessAborted
  BY DEF UplinkInv, FlowInv
<1> QED
  BY <1>1, UplinkInvariance, PTL

==============================================================================
