------------------------------- MODULE RunHistory -------------------------------
(****************************************************************************)
(* The history of runs of single agents and of teams: a manifest per run    *)
(* and an index file per kind, which callers read, rebuild and rewrite      *)
(* while runs are created, continued, terminated and deleted and while      *)
(* their events are recorded on the way to the sockets that follow them.    *)
(*                                                                          *)
(* A store has a queue of write tasks; each reads the whole index, changes  *)
(* a row and replaces the file.  The index of the agents has two stores,    *)
(* that of the history service and one of the continuation service, each    *)
(* with a queue of its own.  Whether the runtime (autobyteus-ts) refuses or *)
(* replaces a run that is restored while it lives is left open.             *)
(*                                                                          *)
(* Bounds: MaxCalls calls, MaxEvents events, MaxFaults failures or crashes. *)
(****************************************************************************)
EXTENDS Naturals, Sequences, FiniteSets

CONSTANTS
  Callers, Sessions,
  Runs, KindOf,       \* "agent" or "team"
  Starts,             \* what there may be at the start: the runs with a history, and the live ones
  MaxCalls, MaxEvents, MaxFaults,
  None

ASSUME RunHistoryAssumption ==
  /\ KindOf \in [Runs -> {"agent", "team"}]
  /\ \A start \in Starts : start.made \subseteq Runs /\ start.alive \subseteq start.made
  /\ MaxCalls \in Nat /\ MaxEvents \in Nat /\ MaxFaults \in Nat
  /\ None \notin Runs \cup {"ACTIVE", "IDLE", "agent", "team"}

Actors == Callers \cup Sessions
Stores == {"history", "continuation", "teams"}
FileOf == [history |-> "agent", continuation |-> "agent", teams |-> "team"]
StoreOf(r) == IF KindOf[r] = "agent" THEN "history" ELSE "teams"
Of(kind) == {r \in Runs : KindOf[r] = kind}
AgentRuns == Of("agent")
TeamRuns == Of("team")

VARIABLES
  index,     \* per run, the status in its row, or None
  manifest,  \* per run "none", "partial" or "whole"
  alive,     \* the runs of the runtime
  made,      \* the runs ever created
  queue,     \* per store, the write tasks and the readers that wait for them
  act,       \* per actor, the operation under way
  watched,   \* per session, the run it streams, or None
  inbox,     \* per session, the events that wait
  calls, events, faults,
  known,     \* history: runs made or restored without a deletion of them meanwhile, not deleted since
  gone,      \* history: runs deleted while no other call was about them
  ended,     \* history: runs terminated while nothing else was done with them
  lost       \* history: runs whose row or manifest suffered from another's write, a failed read or
             \* a crash, or whose row was made again

bounds == <<calls, events, faults>>
history == <<known, gone, ended, lost>>
vars == <<index, manifest, alive, made, queue, act, watched, inbox, bounds, history>>

(* a manifest that is missing, torn or not of the right shape is none       *)
Readable(r) == manifest[r] = "whole"

Nobody == [op |-> "none", run |-> None, kind |-> None, at |-> "idle", status |-> None,
           restored |-> FALSE, company |-> "nobody"]
Fault == faults < MaxFaults /\ faults' = faults + 1

Init ==
  /\ \E start \in Starts :
       /\ manifest = [r \in Runs |-> IF r \in start.made THEN "whole" ELSE "none"]
       /\ index = [r \in Runs |-> IF r \in start.alive THEN "ACTIVE" ELSE IF r \in start.made THEN "IDLE" ELSE None]
       /\ alive = start.alive /\ made = start.made /\ known = start.made
  /\ queue = [s \in Stores |-> <<>>]
  /\ act = [a \in Actors |-> Nobody]
  /\ watched = [s \in Sessions |-> None] /\ inbox = [s \in Sessions |-> 0]
  /\ calls = 0 /\ events = 0 /\ faults = 0
  /\ gone = {} /\ ended = {} /\ lost = {}

Busy(r, a) == \E b \in Actors \ {a} : act[b].run = r /\ act[b].op # "event" /\ act[b].at # "idle"

(* a takes up op on r.  The company is history: what else was done with the *)
(* run meanwhile, the most disturbing of it.                                *)
Take(a, op, r, at, status) ==
  LET with == IF \E b \in Actors \ {a} : act[b].run = r /\ act[b].op = "delete" THEN "deletion"
              ELSE IF Busy(r, a) THEN "calls"
              ELSE IF \E b \in Actors \ {a} : act[b].run = r \/ r \in {watched[s] : s \in Sessions} THEN "events"
              ELSE "nobody"
      joined(b) == IF op = "delete" \/ act[b].company = "deletion" THEN "deletion"
                   ELSE IF op # "event" \/ act[b].company = "calls" THEN "calls"
                   ELSE "events"
  IN  act' = [b \in Actors |->
                CASE b = a -> [Nobody EXCEPT !.op = op, !.run = r, !.at = at, !.status = status, !.company = with]
                  [] b # a /\ act[b].run = r -> [act[b] EXCEPT !.company = joined(b)]
                  [] OTHER -> act[b]]

-----------------------------------------------------------------------------
(* The index stores                                                         *)

(* what a file that is missing, cannot be read or holds another thing than  *)
(* rows is read as                                                          *)
NoRows == [r \in Runs |-> None]

Task(who, what, r, status) ==
  [who |-> who, what |-> what, run |-> r, status |-> status, at |-> "queued",
   seen |-> NoRows, torn |-> FALSE]

Enqueue(s, task) == queue' = [queue EXCEPT ![s] = Append(@, task)]
Move(a, at) == act' = [act EXCEPT ![a].at = at]

(* the actor goes on when its task is done                                  *)
Save(a, s, what, r, status) == Enqueue(s, Task(a, what, r, status)) /\ Move(a, "saving")

(* a reader waits for the writes queued before it                           *)
AwaitWrites(a, s) == Enqueue(s, Task(a, "reader", None, None))

(* (slip: the tasks of a store do not wait for each other)                  *)
AnyOf(s) == DOMAIN queue[s]

Turn(s) == DOMAIN queue[s] \cap {1}

Without(s, i) == SubSeq(queue[s], 1, i - 1) \o SubSeq(queue[s], i + 1, Len(queue[s]))

Ready(s, i) ==
  /\ queue[s][i].what = "reader"
  /\ queue' = [queue EXCEPT ![s] = Without(s, i)]
  /\ Move(queue[s][i].who, "reading")
  /\ UNCHANGED <<index, manifest, alive, made, watched, inbox, bounds, history>>

(* a read error of any kind makes an empty index                            *)
TaskReads(s, i) ==
  LET t == queue[s][i]
      rows(seen, torn) ==
        queue' = [queue EXCEPT ![s][i].at = "read", ![s][i].seen = seen, ![s][i].torn = torn]
  IN  /\ t.what # "reader" /\ t.at = "queued"
      /\ \/ rows(index, t.what = "rebuild") /\ UNCHANGED faults
         \/ t.what # "rebuild" /\ Fault /\ rows(NoRows, TRUE)
      /\ UNCHANGED <<index, manifest, alive, made, act, watched, inbox, calls, events, history>>

Written(t) ==
  CASE t.what = "upsert"  -> [t.seen EXCEPT ![t.run] = t.status]
    [] t.what = "update"  -> [t.seen EXCEPT ![t.run] = t.status]
    [] t.what = "remove"  -> [t.seen EXCEPT ![t.run] = None]
    [] t.what = "rebuild" -> t.status

(* a row that is not there is neither updated nor removed                   *)
Idle(t) == t.what \in {"update", "remove"} /\ t.seen[t.run] = None

TaskIdles(s, i) ==
  LET t == queue[s][i]
  IN  /\ t.what # "reader" /\ t.at = "read" /\ Idle(t)
      /\ queue' = [queue EXCEPT ![s] = Without(s, i)]
      /\ lost' = IF t.torn THEN lost \cup {t.run} ELSE lost
      /\ Move(t.who, "saved")
      /\ UNCHANGED <<index, manifest, alive, made, watched, inbox, bounds, known, gone, ended>>

(* the file is replaced as a whole; a task of the other store of the same   *)
(* file that has read it by then will put back what it read                 *)
TaskWrites(s, i) ==
  LET t == queue[s][i]
      new == Written(t)
      written == [r \in Runs |-> IF KindOf[r] = FileOf[s] THEN new[r] ELSE index[r]]
      others == {o \in Stores \ {s} : FileOf[o] = FileOf[s] /\ queue[o] # <<>>}
      torn(q) == [j \in DOMAIN q |-> IF q[j].at = "read" THEN [q[j] EXCEPT !.torn = TRUE] ELSE q[j]]
  IN  /\ t.what # "reader" /\ t.at = "read" /\ ~Idle(t)
      /\ index' = written
      /\ lost' = IF t.torn THEN lost \cup {r \in Runs \ {t.run} : written[r] # index[r]} ELSE lost
      /\ queue' = [o \in Stores |-> CASE o = s -> Without(s, i)
                                      [] o \in others /\ written # index -> torn(queue[o])
                                      [] OTHER -> queue[o]]
      /\ Move(t.who, "saved")
      /\ UNCHANGED <<manifest, alive, made, watched, inbox, bounds, known, gone, ended>>

(* the failure is the caller's only                                         *)
TaskFails(s, i) ==
  LET t == queue[s][i]
  IN  /\ t.what # "reader" /\ t.at = "read" /\ Fault
      /\ queue' = [queue EXCEPT ![s] = Without(s, i)]
      /\ Move(t.who, "unsaved")
      /\ UNCHANGED <<index, manifest, alive, made, watched, inbox, calls, events, history>>

StoreStep(s) == \E i \in Turn(s) : Ready(s, i) \/ TaskReads(s, i) \/ TaskIdles(s, i) \/ TaskWrites(s, i) \/ TaskFails(s, i)

-----------------------------------------------------------------------------
(* What the operations begin with                                           *)

Begin(a, op, r, at) ==
  /\ act[a].at = "idle" /\ calls < MaxCalls /\ calls' = calls + 1
  /\ Take(a, op, r, at, None)
  /\ gone' = gone \ (IF op = "create" THEN {r} ELSE {})
  /\ ended' = ended \ {r}

Unread == UNCHANGED <<index, manifest, alive, queue, watched, inbox, events, faults, lost>>

Opens(a, op, r) == made' = made \cup {r} /\ Begin(a, op, r, "restoring") /\ UNCHANGED known /\ Unread
Turns(a, op, r, at) == Begin(a, op, r, at) /\ UNCHANGED <<made, known>> /\ Unread

(* continueRun without an id                                                *)
CreateRun(a) == \E r \in AgentRuns \ made : Opens(a, "create", r)

(* sendAgentUserInput: a run it makes has no history                        *)
SendInput(a) ==
  \E r \in AgentRuns :
    \/ r \notin made /\ Opens(a, "send", r)
    \/ r \in alive /\ Turns(a, "send", r, "posting")

(* createAgentTeamInstance and the lazy creation of a team                  *)
CreateTeam(a) == \E r \in TeamRuns \ made : Opens(a, "create", r)

ContinueRun(a) ==
  \E r \in made \cap AgentRuns : Turns(a, "continue", r, IF r \in alive THEN "posting" ELSE "manifest")

(* sendMessageToTeam with an id; with a definition besides, it restores     *)
(* nothing                                                                  *)
SendToTeam(a) ==
  \E r \in made \cap TeamRuns, at \in {"manifest", "dispatching"} :
    (r \in alive => at = "dispatching") /\ Turns(a, "continue", r, at)

TerminateRun(a) == \E r \in alive \cap AgentRuns : Turns(a, "terminate", r, "ending")
TerminateTeam(a) == \E r \in alive \cap TeamRuns : Turns(a, "terminate", r, "ending")

(* a live run is not deleted                                                *)
Deletes(a, r) == r \notin alive /\ Begin(a, "delete", r, "removing") /\ known' = known \ {r} /\ UNCHANGED made /\ Unread

DeleteRun(a) == \E r \in made \cap AgentRuns : Deletes(a, r)
DeleteTeam(a) == \E r \in made \cap TeamRuns : Deletes(a, r)

List(a, kind) ==
  /\ act[a].at = "idle" /\ calls < MaxCalls /\ calls' = calls + 1
  /\ act' = [act EXCEPT ![a] = [Nobody EXCEPT !.op = "list", !.kind = kind, !.at = "waiting"]]
  /\ AwaitWrites(a, IF kind = "agent" THEN "history" ELSE "teams")
  /\ UNCHANGED <<index, manifest, alive, made, watched, inbox, events, faults, history>>

-----------------------------------------------------------------------------
(* Restoring, creating and addressing runs                                  *)

Over(a) == act' = [act EXCEPT ![a] = Nobody]

Succeeds(a) ==
  LET r == act[a].run
  IN  /\ Over(a)
      /\ known' = IF (act[a].op = "create" \/ act[a].restored) /\ act[a].company # "deletion"
                  THEN known \cup {r} ELSE known
      /\ gone' = IF act[a].op = "delete" /\ act[a].company \notin {"calls", "deletion"} THEN gone \cup {r} ELSE gone
      /\ ended' = IF act[a].op = "terminate" /\ act[a].company = "nobody" THEN ended \cup {r} ELSE ended

Fails(a) == Over(a) /\ UNCHANGED <<known, gone, ended>>

Quiet == UNCHANGED <<made, watched, inbox, calls, events, lost>>

(* a continuation needs a readable manifest                                 *)
NeedsManifest(a) ==
  /\ act[a].at = "manifest"
  /\ \/ Readable(act[a].run) /\ Move(a, "restoring") /\ UNCHANGED <<known, gone, ended, faults>>
     \/ ~Readable(act[a].run) /\ Fails(a) /\ UNCHANGED faults
     \/ Readable(act[a].run) /\ Fault /\ Fails(a)
  /\ UNCHANGED <<index, manifest, alive, queue>> /\ Quiet

ReadManifest(a) == act[a].run \in AgentRuns /\ NeedsManifest(a)
ReadTeamManifest(a) == act[a].run \in TeamRuns /\ NeedsManifest(a)

(* the configuration is built, and the run is in the runtime                *)
Restore(a) ==
  LET r == act[a].run
  IN  /\ act[a].at = "restoring"
      /\ \/ alive' = alive \cup {r} /\ Move(a, "idling") /\ UNCHANGED <<known, gone, ended, faults>>
         \/ r \in alive /\ Fails(a) /\ UNCHANGED <<alive, faults>>
         \/ Fault /\ Fails(a) /\ UNCHANGED alive
      /\ UNCHANGED <<index, manifest, queue>> /\ Quiet

(* the wait for an idle run may time out, which leaves the run              *)
BecomesIdle(a) ==
  LET r == act[a].run
  IN  /\ act[a].at = "idling" /\ r \in AgentRuns
      /\ \/ /\ r \in alive /\ Move(a, IF act[a].op = "send" THEN "posting" ELSE "writing")
            /\ UNCHANGED <<known, gone, ended, faults>>
         \/ r \notin alive /\ Fails(a) /\ UNCHANGED faults
         \/ Fault /\ Fails(a)
      /\ UNCHANGED <<index, manifest, alive, queue>> /\ Quiet

TeamBecomesIdle(a) ==
  /\ act[a].at = "idling" /\ act[a].run \in TeamRuns
  /\ \/ /\ act' = [act EXCEPT ![a].at = IF act[a].op = "create" THEN "writing" ELSE "dispatching",
                             ![a].restored = act[a].op = "continue"]
        /\ UNCHANGED <<known, gone, ended, faults>>
     \/ Fault /\ Fails(a)
  /\ UNCHANGED <<index, manifest, alive, queue>> /\ Quiet

(* An agent's manifest is written in place: it is not whole while it is,    *)
(* nor, perhaps, after a failure.                                           *)
WriteManifest(a) ==
  LET r == act[a].run
      torn == manifest' = [manifest EXCEPT ![r] = "partial"]
  IN  /\ act[a].at = "writing" /\ r \in AgentRuns /\ UNCHANGED queue
      /\ \/ torn /\ Move(a, "completing") /\ UNCHANGED <<lost, faults>>
         \/ Fault /\ Move(a, "unsaved") /\ UNCHANGED <<manifest, lost>>
         \/ Fault /\ Move(a, "unsaved") /\ torn /\ lost' = lost \cup {r}
      /\ UNCHANGED <<index, alive, made, watched, inbox, calls, events, known, gone, ended>>

(* a team's is moved there, and its row is written                          *)
WriteTeamManifest(a) ==
  LET r == act[a].run
  IN  /\ act[a].at = "writing" /\ r \in TeamRuns
      /\ \/ /\ manifest' = [manifest EXCEPT ![r] = "whole"]
            /\ Save(a, "teams", "upsert", r, "IDLE") /\ UNCHANGED faults
         \/ Fault /\ Move(a, "unsaved") /\ UNCHANGED <<manifest, queue>>
      /\ UNCHANGED <<index, alive, made, watched, inbox, calls, events, history>>

CompleteManifest(a) ==
  LET r == act[a].run
  IN  /\ act[a].at = "completing"
      /\ manifest' = [manifest EXCEPT ![r] = "whole"]
      /\ IF act[a].op = "create"
         THEN Move(a, "naming")
         ELSE act' = [act EXCEPT ![a].at = "posting", ![a].restored = TRUE]
      /\ UNCHANGED <<index, alive, queue, known, gone, ended, faults>> /\ Quiet

(* the name of the definition is looked up before an agent's row is written *)
Name(a) ==
  /\ act[a].at = "naming"
  /\ \/ Save(a, "history", "upsert", act[a].run, "ACTIVE") /\ UNCHANGED <<known, gone, ended, faults>>
     \/ Fault /\ Fails(a) /\ UNCHANGED queue
  /\ UNCHANGED <<index, manifest, alive>> /\ Quiet

(* a live run's row is updated by the continuation's store, a restored      *)
(* one's is written by the history's                                        *)
Post(a) ==
  LET r == act[a].run
  IN  /\ act[a].at = "posting"
      /\ \/ /\ act[a].op = "continue" /\ UNCHANGED <<known, gone, ended, faults>>
            /\ IF act[a].restored THEN Move(a, "naming") /\ UNCHANGED queue
                                  ELSE Save(a, "continuation", "update", r, "ACTIVE")
         \/ act[a].op # "continue" /\ Succeeds(a) /\ UNCHANGED <<queue, faults>>
         \/ Fault /\ Fails(a) /\ UNCHANGED queue
      /\ UNCHANGED <<index, manifest, alive>> /\ Quiet

(* the command ingress: a failure takes a restored team down again          *)
Dispatch(a) ==
  LET r == act[a].run
  IN  /\ act[a].at = "dispatching"
      /\ \/ /\ r \in alive /\ act' = [act EXCEPT ![a].at = "waiting", ![a].status = "ACTIVE"]
            /\ AwaitWrites(a, "teams") /\ UNCHANGED <<known, gone, ended, faults>>
         \/ /\ r \notin alive \/ Fault
            /\ UNCHANGED queue /\ (r \notin alive => UNCHANGED faults)
            /\ IF act[a].restored THEN Move(a, "undoing") /\ UNCHANGED <<known, gone, ended>> ELSE Fails(a)
      /\ UNCHANGED <<index, manifest, alive>> /\ Quiet

Undo(a) ==
  /\ act[a].at = "undoing" /\ Fails(a)
  /\ \/ alive' = alive \ {act[a].run} /\ UNCHANGED faults
     \/ Fault /\ UNCHANGED alive
  /\ UNCHANGED <<index, manifest, queue>> /\ Quiet

-----------------------------------------------------------------------------
(* Terminating, deleting, listing and recording                             *)

Ends(a, s) ==
  LET r == act[a].run
  IN  /\ act[a].at = "ending"
      /\ \/ /\ r \in alive /\ alive' = alive \ {r}
            /\ Save(a, s, "update", r, "IDLE") /\ UNCHANGED <<known, gone, ended, faults>>
         \/ r \notin alive /\ Fails(a) /\ UNCHANGED <<alive, queue, faults>>
         \/ Fault /\ Fails(a) /\ UNCHANGED <<alive, queue>>
      /\ UNCHANGED <<index, manifest>> /\ Quiet

EndRun(a) == act[a].run \in AgentRuns /\ Ends(a, "history")
EndTeam(a) == act[a].run \in TeamRuns /\ Ends(a, "teams")

(* the directory goes first, then the row                                   *)
Removes(a, s) ==
  LET r == act[a].run
  IN  /\ act[a].at = "removing"
      /\ \/ /\ manifest' = [manifest EXCEPT ![r] = "none"]
            /\ Save(a, s, "remove", r, None) /\ UNCHANGED <<known, gone, ended, faults>>
         \/ Fault /\ Fails(a) /\ UNCHANGED <<manifest, queue>>
      /\ UNCHANGED <<index, alive>> /\ Quiet

RemoveRun(a) == act[a].run \in AgentRuns /\ Removes(a, "history")
RemoveTeam(a) == act[a].run \in TeamRuns /\ Removes(a, "teams")

OnDisk(kind) == {r \in Of(kind) : Readable(r)}

(* An index without rows, or one that could not be read, is rebuilt from    *)
(* the manifests; it is written when all of them have been read.            *)
ReadRows(a) ==
  LET rebuilt == [r \in Runs |-> IF r \notin OnDisk(act[a].kind) THEN None
                                  ELSE IF r \in alive THEN "ACTIVE" ELSE "IDLE"]
      rebuild == act' = [act EXCEPT ![a].at = "rebuilding", ![a].status = rebuilt]
      empty == \A r \in Of(act[a].kind) : index[r] = None
  IN  /\ act[a].at = "reading" /\ act[a].op = "list"
      /\ \/ empty /\ rebuild /\ UNCHANGED faults
         \/ ~empty /\ Over(a) /\ UNCHANGED faults
         \/ ~empty /\ Fault /\ rebuild
      /\ UNCHANGED <<index, manifest, alive, queue, known, gone, ended>> /\ Quiet

Rebuilds(a, s) ==
  /\ act[a].at = "rebuilding"
  /\ Save(a, s, "rebuild", None, act[a].status)
  /\ UNCHANGED <<index, manifest, alive, known, gone, ended, faults>> /\ Quiet

RebuildRuns(a) == act[a].kind = "agent" /\ Rebuilds(a, "history")
RebuildTeams(a) == act[a].kind = "team" /\ Rebuilds(a, "teams")

(* The row of an event: an event without a status keeps the one that was    *)
(* read.                                                                    *)
KeepsRow(a) ==
  LET r == act[a].run
  IN  /\ index[r] # None
      /\ Save(a, StoreOf(r), "update", r, IF act[a].status # None THEN act[a].status ELSE index[r])
      /\ UNCHANGED <<known, gone, ended, lost, faults>>

(* A row that is missing, or cannot be read, is made again from the         *)
(* manifest; without a manifest it is not.                                  *)
MakesRow(a) ==
  LET r == act[a].run
  IN  /\ Readable(r) /\ (IF index[r] = None THEN UNCHANGED faults ELSE Fault)
      /\ lost' = lost \cup {r} /\ UNCHANGED <<known, gone, ended>>

NoRow(a) ==
  /\ index[act[a].run] = None /\ ~Readable(act[a].run)
  /\ Succeeds(a) /\ UNCHANGED <<queue, lost, faults>>

Recording(a) ==
  /\ act[a].at = "reading" /\ act[a].op # "list"
  /\ UNCHANGED <<index, manifest, alive, made, watched, inbox, calls, events>>

(* (slip: a missing row is written without a look at the manifest)          *)
RecordBlindly(a) ==
  LET r == act[a].run
      status == IF act[a].status = None THEN "ACTIVE" ELSE act[a].status
  IN  /\ act[a].at = "reading" /\ act[a].op # "list" /\ r \in AgentRuns
      /\ Save(a, "history", "upsert", r, status)
      /\ UNCHANGED <<index, manifest, alive, known, gone, ended, faults>> /\ Quiet

(* onAgentEvent: the agent's name is looked up first                        *)
RecordRun(a) ==
  /\ Recording(a) /\ act[a].run \in AgentRuns
  /\ KeepsRow(a) \/ NoRow(a) \/ (MakesRow(a) /\ Move(a, "naming") /\ UNCHANGED queue)

(* onTeamEvent                                                              *)
RecordTeam(a) ==
  LET status == IF act[a].status # None THEN act[a].status ELSE "ACTIVE"
  IN  /\ Recording(a) /\ act[a].run \in TeamRuns
      /\ KeepsRow(a) \/ NoRow(a) \/ (MakesRow(a) /\ Save(a, "teams", "upsert", act[a].run, status))

WriteIsOver(a) == act[a].at \in {"saved", "unsaved"} /\ UNCHANGED <<index, manifest, alive, queue, faults>> /\ Quiet

(* a failed write fails the operation                                       *)
SavedRun(a) ==
  LET new == act[a].op = "create"
  IN  /\ WriteIsOver(a) /\ act[a].run \notin TeamRuns
      /\ \/ new /\ act[a].at = "saved" /\ Move(a, "posting") /\ UNCHANGED <<known, gone, ended>>
         \/ ~new /\ act[a].at = "saved" /\ Succeeds(a)
         \/ act[a].at = "unsaved" /\ Fails(a)

(* A team was created, terminated or reached all the same.  One that        *)
(* sendMessageToTeam made is then addressed.                                *)
SavedTeam(a) ==
  /\ WriteIsOver(a) /\ act[a].run \in TeamRuns
  /\ \/ /\ act[a].op = "create" /\ act' = [act EXCEPT ![a].at = "dispatching", ![a].op = "continue"]
        /\ known' = IF act[a].at = "saved" /\ act[a].company # "deletion" THEN known \cup {act[a].run} ELSE known
        /\ UNCHANGED <<gone, ended>>
     \/ act[a].at = "saved" /\ Succeeds(a)
     \/ act[a].at = "unsaved" /\ Fails(a)

-----------------------------------------------------------------------------
(* Sockets and events                                                       *)

Statuses == {"ACTIVE", "IDLE", None}

Connect(s, r) ==
  /\ watched[s] = None /\ act[s].at = "idle" /\ events < MaxEvents
  /\ r \in alive /\ KindOf[r] = "agent"
  /\ watched' = [watched EXCEPT ![s] = r]
  /\ act' = [b \in Actors |-> IF act[b].run = r /\ act[b].company = "nobody" THEN [act[b] EXCEPT !.company = "events"]
                              ELSE act[b]]
  /\ UNCHANGED <<index, manifest, alive, made, queue, inbox, bounds, history>>

Disconnect(s) ==
  /\ watched[s] # None
  /\ watched' = [watched EXCEPT ![s] = None] /\ inbox' = [inbox EXCEPT ![s] = 0]
  /\ UNCHANGED <<index, manifest, alive, made, queue, act, bounds, history>>

(* an agent's event goes to every stream                                    *)
Emit(r) ==
  /\ events < MaxEvents /\ events' = events + 1 /\ r \in alive \cap AgentRuns
  /\ \E s \in Sessions : watched[s] = r
  /\ inbox' = [s \in Sessions |-> IF watched[s] = r THEN inbox[s] + 1 ELSE inbox[s]]
  /\ ended' = ended \ {r}
  /\ UNCHANGED <<act, queue, index, manifest, alive, made, watched, calls, faults, known, gone, lost>>

TeamStatuses == {"ACTIVE", "IDLE"}

(* a team's, on its way through a stream of the team, to the activity sink, *)
(* which any free caller stands for                                         *)
TeamEmit(r) ==
  /\ events < MaxEvents /\ events' = events + 1 /\ r \in alive \cap TeamRuns
  /\ \E a \in Callers, status \in TeamStatuses :
       act[a].at = "idle" /\ Take(a, "event", r, "waiting", status) /\ AwaitWrites(a, "teams")
  /\ ended' = ended \ {r}
  /\ UNCHANGED <<inbox, index, manifest, alive, made, watched, calls, faults, known, gone, lost>>

(* the stream loop records an event before it is sent, and takes the next   *)
(* one when that is done                                                    *)
TakeEvent(s) ==
  /\ watched[s] # None /\ inbox[s] > 0 /\ act[s].at = "idle"
  /\ inbox' = [inbox EXCEPT ![s] = @ - 1]
  /\ \E status \in Statuses : Take(s, "event", watched[s], "waiting", status)
  /\ AwaitWrites(s, "history")
  /\ ended' = ended \ {watched[s]}
  /\ UNCHANGED <<index, manifest, alive, made, watched, bounds, known, gone, lost>>

(* The server dies: what is in memory is gone, a manifest that was being    *)
(* written stays as it is.                                                  *)
Crash ==
  /\ Fault
  /\ alive' = {} /\ queue' = [s \in Stores |-> <<>>] /\ act' = [a \in Actors |-> Nobody]
  /\ watched' = [s \in Sessions |-> None] /\ inbox' = [s \in Sessions |-> 0]
  /\ lost' = lost \cup {r \in Runs : manifest[r] = "partial"}
  /\ UNCHANGED <<index, manifest, made, calls, events, known, gone, ended>>

Call(a) ==
  \/ CreateRun(a) \/ SendInput(a) \/ ContinueRun(a) \/ TerminateRun(a) \/ DeleteRun(a) \/ List(a, "agent")
  \/ CreateTeam(a) \/ SendToTeam(a) \/ TerminateTeam(a) \/ DeleteTeam(a) \/ List(a, "team")

Proceed(a) ==
  \/ ReadManifest(a) \/ ReadTeamManifest(a) \/ Restore(a) \/ BecomesIdle(a) \/ WriteManifest(a) \/ CompleteManifest(a) \/ Name(a)
  \/ TeamBecomesIdle(a) \/ WriteTeamManifest(a)
  \/ Post(a) \/ Dispatch(a) \/ Undo(a) \/ EndRun(a) \/ EndTeam(a) \/ RemoveRun(a) \/ RemoveTeam(a)
  \/ ReadRows(a) \/ RebuildRuns(a) \/ RebuildTeams(a)
  \/ RecordRun(a) \/ RecordTeam(a) \/ SavedRun(a) \/ SavedTeam(a)

Next ==
  \/ \E a \in Callers : Call(a)
  \/ \E a \in Actors : Proceed(a)
  \/ \E s \in Stores : StoreStep(s)
  \/ \E s \in Sessions : Disconnect(s) \/ TakeEvent(s) \/ \E r \in Runs : Connect(s, r)
  \/ \E r \in Runs : Emit(r) \/ TeamEmit(r)
  \/ Crash

Spec == Init /\ [][Next]_vars

-----------------------------------------------------------------------------
(* Properties                                                               *)

(* A run that was created or restored while nobody deleted it has its       *)
(* manifest and its row until somebody does: writes of the index never drop the row of *)
(* another run, except a rebuild, a write after a failed read, and a write  *)
(* by the other store of the file between reading and writing; nor does a   *)
(* crash, except in the middle of a manifest.                               *)
ListedUntilDeleted ==
  \A r \in known \ lost : manifest[r] # "none" /\ index[r] # None

(* A run that was deleted while no other call was about it stays away: the  *)
(* events of it that still wait, and later calls, do not bring it back,     *)
(* unless an event or a listing had begun to make its row again.            *)
DeletedIsGone ==
  \A r \in gone : manifest[r] = "none" /\ (index[r] = None \/ r \in lost)

(* A run that was terminated while nothing else was done with it is not     *)
(* taken for active, unless a write between reading and writing put back an *)
(* older row.                                                               *)
IdleOnceTerminated ==
  \A r \in ended \ lost : index[r] # "ACTIVE"

=============================================================================
