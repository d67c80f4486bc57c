--------------------------- MODULE RunHistoryProofs ---------------------------
(****************************************************************************)
(* The history of runs, for any number of callers, sockets, runs, calls,    *)
(* events, failures and crashes: rows stay until somebody deletes their     *)
(* run, deleted runs stay away and terminated ones are idle.                *)
(*                                                                          *)
(* The history variables of the model carry the argument.  An operation's   *)
(* company bounds who else works on its run, and what a task of a store has *)
(* read is what the index says, unless the task is torn: so a row changes   *)
(* by a task for its own run, which the company restricts, or by a torn one *)
(* of another, which the run is lost to.                                    *)
(****************************************************************************)
EXTENDS RunHistory, TLAPS

Row == {"ACTIVE", "IDLE", None}
Rows == [Runs -> Row]

Ops == {"none", "create", "send", "continue", "terminate", "delete", "list", "event"}
Places == {"idle", "restoring", "idling", "writing", "completing", "naming", "saving", "saved", "unsaved", "posting",
           "manifest", "dispatching", "undoing", "waiting", "reading", "rebuilding", "ending", "removing"}
Saves == {"saving", "saved", "unsaved"}

(* where the operations may be                                              *)
PlacesOf(op) ==
  CASE op = "none"      -> {"idle"}
    [] op = "create"    -> {"restoring", "idling", "writing", "completing", "naming", "posting"} \cup Saves
    [] op = "send"      -> {"restoring", "idling", "posting"}
    [] op = "continue"  -> {"manifest", "restoring", "idling", "writing", "completing", "posting", "naming",
                            "dispatching", "undoing", "waiting", "reading"} \cup Saves
    [] op = "terminate" -> {"ending"} \cup Saves
    [] op = "delete"    -> {"removing"} \cup Saves
    [] op = "list"      -> {"waiting", "reading", "rebuilding"} \cup Saves
    [] op = "event"     -> {"waiting", "reading", "naming"} \cup Saves

Companies == {"nobody", "events", "calls", "deletion"}

Operation ==
  [op : Ops, run : Runs \cup {None}, kind : {"agent", "team", None},
   at : Places, status : Row \cup Rows, restored : BOOLEAN, company : Companies]

TaskKind ==
  [who : Actors, what : {"reader", "upsert", "update", "remove", "rebuild"}, run : Runs \cup {None},
   status : Row \cup Rows, at : {"queued", "read"}, seen : Rows, torn : BOOLEAN]

HistoryTypeOK ==
  /\ index \in Rows /\ manifest \in [Runs -> {"none", "partial", "whole"}]
  /\ alive \subseteq made /\ made \subseteq Runs
  /\ queue \in [Stores -> Seq(TaskKind)]
  /\ act \in [Actors -> Operation]
  /\ watched \in [Sessions -> made \cup {None}] /\ inbox \in [Sessions -> Nat]
  /\ calls \in 0 .. MaxCalls /\ events \in 0 .. MaxEvents /\ faults \in 0 .. MaxFaults
  /\ known \subseteq Runs /\ gone \subseteq made /\ ended \subseteq Runs /\ lost \subseteq Runs

(* an operation is where operations of its kind may be                      *)
Placed(o) ==
  /\ o.at \in PlacesOf(o.op)
  /\ o.op \in {"none", "list"} <=> o.run = None
  /\ o.run # None => o.run \in made
  /\ o.op = "list" <=> o.kind # None
  /\ o.restored => o.op = "continue"
  /\ o.op = "list" /\ o.at = "rebuilding" => o.status \in Rows
  /\ o.op = "event" /\ o.at = "naming" => o.run \in lost
  /\ o.op # "list" => o.status \in Row
  /\ o.op = "continue" /\ o.at = "naming" => o.restored
  /\ o.op = "continue" /\ o.at = "writing" => o.run \in AgentRuns
  /\ o.op = "send" \/ o.at \in {"completing", "posting", "naming"} => o.run \in AgentRuns
  /\ o.op = "continue" /\ o.at \in {"dispatching", "undoing", "waiting", "reading"} => o.run \in TeamRuns
PlacesInv == \A a \in Actors : Placed(act[a])

(* what else is done with the run of an operation                           *)
CompanyInv ==
  \A a, b \in Actors : a # b /\ act[a].run # None /\ act[b].run = act[a].run =>
    /\ act[a].company # "nobody"
    /\ act[b].op # "event" => act[a].company \in {"calls", "deletion"}
    /\ act[b].op = "delete" => act[a].company = "deletion"

(* a task is one its operation waits for                                    *)
TaskOf(s, t, o) ==
  /\ t.what = "reader" => o.at = "waiting"
  /\ t.what # "reader" =>
       /\ o.at = "saving" /\ o.run = t.run
       /\ t.what = "remove" <=> o.op = "delete"
       /\ t.what = "rebuild" <=> o.op = "list"
       /\ t.what # "rebuild" => KindOf[t.run] = FileOf[s]
       /\ t.what \in {"update", "upsert"} => t.status \in {"ACTIVE", "IDLE"}
       /\ t.what = "rebuild" => t.status \in Rows
       /\ s = "continuation" => o.op = "continue"
       /\ o.op = "create" => t.what = "upsert"
       /\ o.op = "continue" /\ o.restored /\ t.run \in AgentRuns => t.what = "upsert"
       /\ o.op = "terminate" => t.what = "update" /\ t.status = "IDLE"
       /\ o.op = "event" /\ t.what = "upsert" => t.run \in lost

(* what it has read is so, unless it is torn                                *)
SeenByTask(s, t) ==
  t.at = "read" =>
    /\ t.what # "reader"
    /\ t.what = "rebuild" => t.torn
    /\ ~t.torn => \A r \in Runs : KindOf[r] = FileOf[s] => t.seen[r] = index[r]
    /\ s # "continuation" /\ t.what = "update" /\ t.seen[t.run] # None => index[t.run] # None \/ t.run \in lost

Sound(s, t) == TaskOf(s, t, act[t.who]) /\ SeenByTask(s, t)
TasksInv ==
  \A s \in Stores : \A i \in DOMAIN queue[s] :
    Sound(s, queue[s][i]) /\ (queue[s][i].at = "read" => i = 1)
OneTaskEach ==
  \A s, o \in Stores : \A i \in DOMAIN queue[s], j \in DOMAIN queue[o] :
    queue[s][i].who = queue[o][j].who => s = o /\ i = j
QueueInv == TasksInv /\ OneTaskEach

(* the manifest and the row of a run that is created or restored, once they *)
(* are written, while nobody deletes it                                     *)
HasManifest(o) ==
  \/ o.op = "create" /\ o.at \in {"completing", "naming", "saving", "saved", "posting"}
  \/ o.op = "continue" /\ o.at = "completing"
  \/ o.op = "continue" /\ o.run \in TeamRuns /\ o.at \in {"restoring", "idling"}
  \/ o.restored
HasRow(o) ==
  \/ o.op = "create" /\ o.at \in {"saved", "posting"}
  \/ o.restored /\ o.at = "saved"
  \/ o.restored /\ o.at = "saving" /\ o.run \in TeamRuns
WrittenInv ==
  /\ \A a \in Actors : act[a].company # "deletion" /\ act[a].run # None =>
       /\ HasManifest(act[a]) => manifest[act[a].run] # "none"
       /\ HasRow(act[a]) => index[act[a].run] # None \/ act[a].run \in lost
  /\ \A r \in TeamRuns : manifest[r] # "partial"

KnownInv ==
  /\ \A r \in known, a \in Actors : act[a].run = r => act[a].op # "delete"
  /\ ListedUntilDeleted

(* a deletion without other calls, and what it leaves                       *)
Undisturbed(o) == o.op = "delete" /\ o.company \in {"nobody", "events"}
Away(r) == index[r] = None \/ r \in lost
GoneInv ==
  /\ \A a \in Actors : Undisturbed(act[a]) =>
       /\ act[a].run \notin alive
       /\ act[a].at \in {"saving", "saved"} => manifest[act[a].run] = "none"
       /\ act[a].at = "saved" => Away(act[a].run)
  /\ \A r \in gone :
       /\ r \notin alive /\ manifest[r] = "none" /\ Away(r)
       /\ \A a \in Actors : act[a].run = r =>
            \/ act[a].op \in {"delete", "event"}
            \/ act[a].op = "continue" /\ act[a].at \in {"manifest", "dispatching"} /\ ~act[a].restored

AtRest(r) == index[r] # "ACTIVE" \/ r \in lost
EndedInv ==
  /\ \A a \in Actors : act[a].op = "terminate" /\ act[a].company = "nobody" /\ act[a].at = "saved" => AtRest(act[a].run)
  /\ \A r \in ended : AtRest(r) /\ \A a \in Actors : act[a].run # r

HistoryInv ==
  /\ HistoryTypeOK /\ PlacesInv /\ CompanyInv /\ QueueInv /\ WrittenInv /\ KnownInv /\ GoneInv /\ EndedInv

-----------------------------------------------------------------------------
(* Initially nothing is under way, and what was made is whole.              *)
LEMMA HistoryInitInv == Init => HistoryInv
<1> SUFFICES ASSUME Init PROVE HistoryInv
  OBVIOUS
<1>1. PICK start \in Starts :
        /\ manifest = [r \in Runs |-> IF r \in start.made THEN "whole" ELSE "none"]
        /\ index = [r \in Runs |-> IF r \in start.alive THEN "ACTIVE" ELSE IF r \in start.made THEN "IDLE" ELSE None]
        /\ alive = start.alive /\ made = start.made /\ known = start.made
  BY DEF Init
<1>2. start.made \subseteq Runs /\ start.alive \subseteq start.made
  BY RunHistoryAssumption
<1>3. Nobody \in Operation
  BY DEF Nobody, Operation, Ops, Places, Companies, Row
<1>4. \A a \in Actors : act[a] = Nobody
  BY DEF Init
<1>5. \A s \in Stores : queue[s] = <<>> /\ DOMAIN queue[s] = {}
  BY DEF Init
<1>6. HistoryTypeOK
  <2>1. index \in Rows
    BY <1>1 DEF Rows, Row
  <2>2. queue \in [Stores -> Seq(TaskKind)]
    BY DEF Init
  <2>3. act \in [Actors -> Operation] /\ manifest \in [Runs -> {"none", "partial", "whole"}]
    BY <1>1, <1>3 DEF Init
  <2> QED
    BY <1>1, <1>2, <2>1, <2>2, <2>3, RunHistoryAssumption DEF HistoryTypeOK, Init
<1>7. PlacesInv
  BY <1>4 DEF PlacesInv, Placed, PlacesOf, Nobody, Row
<1>8. CompanyInv /\ WrittenInv
  BY <1>1, <1>4 DEF CompanyInv, WrittenInv, Nobody, TeamRuns, Of
<1>9. QueueInv
  BY <1>5 DEF QueueInv, TasksInv, OneTaskEach
<1>10. KnownInv
  BY <1>1, <1>2, <1>4, RunHistoryAssumption DEF KnownInv, ListedUntilDeleted, Nobody
<1>11. GoneInv /\ EndedInv
  BY <1>4 DEF Init, GoneInv, EndedInv, Undisturbed, Nobody
<1> QED
  BY <1>6, <1>7, <1>8, <1>9, <1>10, <1>11 DEF HistoryInv

-----------------------------------------------------------------------------
(* Steps of one operation                                                   *)

(* What every step of an operation a does that is under way: o is what it   *)
(* is afterwards.                                                           *)
Goes(a, o) ==
  /\ o \in Operation /\ act' = [act EXCEPT ![a] = o]
  /\ act[a].at \notin {"idle", "saving", "waiting"} /\ o.at # "saved"
  /\ \/ o = Nobody
     \/ /\ o.run = act[a].run /\ o.company = act[a].company
        /\ o.op = act[a].op \/ (act[a].op = "create" /\ o.op = "continue")
  /\ Placed(o)'
  /\ UNCHANGED <<index, made, watched, inbox, calls, events>>
  /\ faults' \in 0 .. MaxFaults /\ lost \subseteq lost' /\ lost' \subseteq Runs

(* it asks a store to write, or waits for the writes before it              *)
Asks(a, o) ==
  \/ UNCHANGED queue
  \/ \E s \in Stores : \E t \in TaskKind :
       /\ Enqueue(s, t) /\ t.who = a /\ t.at = "queued" /\ TaskOf(s, t, o)'

(* it changes the manifest and the life of its own run only                 *)
Touches(a) ==
  /\ manifest' \in [Runs -> {"none", "partial", "whole"}]
  /\ \A r \in Runs : manifest'[r] # manifest[r] =>
       /\ r = act[a].run
       /\ \/ act[a].op = "delete" /\ manifest'[r] = "none"
          \/ act[a].at \in {"writing", "completing"} /\ manifest'[r] # "none"
       /\ r \in TeamRuns => manifest'[r] # "partial"
  /\ \A r \in alive' \ alive : r = act[a].run /\ act[a].at = "restoring"

(* what it has done by then, and what is said of its run when it is over    *)
Leaves(a, o) ==
  LET r == act[a].run
  IN  /\ o.company # "deletion" /\ o.run # None =>
           /\ HasManifest(o) => manifest'[r] # "none"
           /\ HasRow(o) => index[r] # None \/ r \in lost'
      /\ Undisturbed(o) => o.at # "saving" \/ manifest'[r] = "none"
      /\ act[a].op = "continue" /\ ~act[a].restored =>
           /\ act[a].at = "manifest" /\ ~Readable(r) => o = Nobody
           /\ act[a].at = "dispatching" /\ r \notin alive => o = Nobody
      /\ \A x \in known' \ known :
           /\ x = r /\ act[a].op \in {"create", "continue"} /\ act[a].company # "deletion"
           /\ manifest'[x] # "none" /\ (index[x] # None \/ x \in lost')
      /\ \A x \in gone' \ gone : x = r /\ Undisturbed(act[a]) /\ act[a].at = "saved" /\ o = Nobody
      /\ \A x \in ended' \ ended :
           x = r /\ act[a].op = "terminate" /\ act[a].company = "nobody" /\ act[a].at = "saved" /\ o = Nobody

Moves(a, o) == Goes(a, o) /\ Asks(a, o) /\ Touches(a) /\ Leaves(a, o)

(* the run of an operation under way                                        *)
LEMMA RunFacts ==
  ASSUME HistoryTypeOK, PlacesInv, NEW a \in Actors
  PROVE  /\ act[a] \in Operation
         /\ act[a].op \notin {"none", "list"} => act[a].run \in made /\ act[a].run \in Runs /\ act[a].run # None
         /\ act[a].op \in {"none", "list"} => act[a].run = None
BY RunHistoryAssumption DEF HistoryTypeOK, PlacesInv, Placed, Operation

(* a queue with one task more                                               *)
LEMMA EnqueueFacts ==
  ASSUME HistoryTypeOK, NEW s \in Stores, NEW t \in TaskKind, Enqueue(s, t)
  PROVE  /\ queue' \in [Stores -> Seq(TaskKind)]
         /\ \A o \in Stores : \A i \in DOMAIN queue'[o] :
              \/ i \in DOMAIN queue[o] /\ queue'[o][i] = queue[o][i]
              \/ o = s /\ i = Len(queue[s]) + 1 /\ queue'[o][i] = t
<1>1. queue \in [Stores -> Seq(TaskKind)]
  BY DEF HistoryTypeOK
<1>2. queue' = [queue EXCEPT ![s] = Append(queue[s], t)]
  BY DEF Enqueue
<1>3. queue[s] \in Seq(TaskKind) /\ Append(queue[s], t) \in Seq(TaskKind)
  BY <1>1
<1>4. queue'[s] = Append(queue[s], t) /\ \A o \in Stores \ {s} : queue'[o] = queue[o]
  BY <1>1, <1>2
<1>5. \A i \in DOMAIN queue'[s] :
        \/ i \in DOMAIN queue[s] /\ queue'[s][i] = queue[s][i]
        \/ i = Len(queue[s]) + 1 /\ queue'[s][i] = t
  BY <1>3, <1>4
<1> QED
  BY <1>1, <1>2, <1>3, <1>4, <1>5

(* a step of one operation keeps the types                                  *)
LEMMA MovesTypes ==
  ASSUME HistoryInv, NEW a \in Actors, NEW o, Moves(a, o)
  PROVE  HistoryTypeOK'
<1>1. HistoryTypeOK /\ PlacesInv
  BY DEF HistoryInv
<1>2. act' \in [Actors -> Operation]
  BY <1>1 DEF HistoryTypeOK, Moves, Goes
<1>3. queue' \in [Stores -> Seq(TaskKind)]
  BY <1>1, EnqueueFacts DEF HistoryTypeOK, Moves, Asks
<1>4. act[a].at = "restoring" => act[a].run \in made
  BY <1>1, RunFacts DEF PlacesInv, Placed, PlacesOf, Saves
<1>5. alive' \subseteq made' /\ made' \subseteq Runs
  BY <1>1, <1>4 DEF HistoryTypeOK, Moves, Touches, Goes
<1>6. known' \subseteq Runs /\ gone' \subseteq made' /\ ended' \subseteq Runs
  BY <1>1, RunFacts DEF HistoryTypeOK, Moves, Leaves, Goes, Undisturbed
<1> QED
  BY <1>1, <1>2, <1>3, <1>5, <1>6 DEF HistoryTypeOK, Moves, Goes, Touches

(* it changes no other operation                                            *)
LEMMA MovesOthers ==
  ASSUME HistoryTypeOK, NEW a \in Actors, NEW o, Goes(a, o)
  PROVE  act'[a] = o /\ \A b \in Actors \ {a} : act'[b] = act[b]
BY DEF HistoryTypeOK, Goes

(* it keeps the operations in their places and their company bounded        *)
LEMMA MovesPlaces ==
  ASSUME HistoryInv, NEW a \in Actors, NEW o, Moves(a, o)
  PROVE  PlacesInv' /\ CompanyInv'
<1>1. HistoryTypeOK /\ PlacesInv /\ CompanyInv
  BY DEF HistoryInv
<1>2. act'[a] = o /\ \A b \in Actors \ {a} : act'[b] = act[b]
  BY <1>1, MovesOthers DEF Moves
<1>3. PlacesInv'
  <2> SUFFICES ASSUME NEW b \in Actors PROVE Placed(act[b])'
    BY DEF PlacesInv
  <2>1. CASE b = a
    BY <1>2, <2>1 DEF Moves, Goes, Placed
  <2>2. CASE b # a
    BY <1>1, <1>2, <2>2 DEF PlacesInv, Placed, Moves, Goes
  <2> QED
    BY <2>1, <2>2
<1>4. CompanyInv'
  <2>1. \/ o.run = None
        \/ /\ o.run = act[a].run /\ o.company = act[a].company
           /\ o.op = act[a].op \/ (act[a].op = "create" /\ o.op = "continue")
    BY DEF Moves, Goes, Nobody
  <2> SUFFICES ASSUME NEW b \in Actors, NEW c \in Actors, b # c, act'[b].run # None, act'[c].run = act'[b].run
               PROVE  /\ act'[b].company # "nobody"
                      /\ act'[c].op # "event" => act'[b].company \in {"calls", "deletion"}
                      /\ act'[c].op = "delete" => act'[b].company = "deletion"
    BY DEF CompanyInv
  <2>2. act[b].run = act'[b].run /\ act[b].company = act'[b].company /\ act[c].run = act'[c].run
    BY <1>2, <2>1
  <2>3. (act'[c].op # "event" => act[c].op # "event") /\ (act'[c].op = "delete" => act[c].op = "delete")
    BY <1>2, <2>1
  <2> QED
    BY <1>1, <2>2, <2>3 DEF CompanyInv
<1> QED
  BY <1>3, <1>4

(* its new task is one it waits for, and its only one                       *)
LEMMA MovesQueue ==
  ASSUME HistoryInv, NEW a \in Actors, NEW o, Moves(a, o)
  PROVE  QueueInv'
<1>1. HistoryTypeOK /\ TasksInv /\ OneTaskEach
  BY DEF HistoryInv, QueueInv
<1>2. act'[a] = o /\ \A b \in Actors \ {a} : act'[b] = act[b]
  BY <1>1, MovesOthers DEF Moves
<1>3. \A s \in Stores : \A i \in DOMAIN queue[s] : queue[s][i].who \in Actors \ {a}
  <2> SUFFICES ASSUME NEW s \in Stores, NEW i \in DOMAIN queue[s] PROVE queue[s][i].who \in Actors \ {a}
    OBVIOUS
  <2>1. queue[s][i] \in TaskKind
    BY <1>1 DEF HistoryTypeOK
  <2>2. act[queue[s][i].who].at \in {"waiting", "saving"}
    BY <1>1 DEF TasksInv, Sound, TaskOf
  <2> QED
    BY <2>1, <2>2 DEF TaskKind, Moves, Goes
<1>4. ASSUME NEW s \in Stores, NEW i \in DOMAIN queue[s], NEW t, t = queue[s][i]
      PROVE  Sound(s, t)' /\ (t.at = "read" => i = 1)
  <2>1. Sound(s, t) /\ (t.at = "read" => i = 1) /\ act'[t.who] = act[t.who]
    BY <1>1, <1>2, <1>3, <1>4 DEF TasksInv
  <2> QED
    BY <2>1 DEF Sound, TaskOf, SeenByTask, Moves, Goes
<1>5. CASE UNCHANGED queue
  <2>1. TasksInv'
    BY <1>4, <1>5 DEF TasksInv
  <2> QED
    BY <1>1, <1>5, <2>1 DEF QueueInv, OneTaskEach
<1>6. ASSUME NEW s \in Stores, NEW t \in TaskKind, Enqueue(s, t), t.who = a, t.at = "queued", TaskOf(s, t, o)'
      PROVE  QueueInv'
  <2>1. \A x \in Stores : \A i \in DOMAIN queue'[x] :
          \/ i \in DOMAIN queue[x] /\ queue'[x][i] = queue[x][i]
          \/ x = s /\ i = Len(queue[s]) + 1 /\ queue'[x][i] = t
    BY <1>1, <1>6, EnqueueFacts
  <2>2. Sound(s, t)'
    BY <1>2, <1>6 DEF Sound, SeenByTask, TaskOf
  <2>3. ASSUME NEW x \in Stores, NEW i \in DOMAIN queue'[x], NEW u, u = queue'[x][i]
        PROVE  Sound(x, u)' /\ (u.at = "read" => i = 1)
    BY <1>4, <1>6, <2>1, <2>2, <2>3
  <2>4. TasksInv'
    BY <2>3 DEF TasksInv
  <2>5. OneTaskEach'
    BY <1>1, <1>3, <1>6, <2>1 DEF OneTaskEach
  <2> QED
    BY <2>4, <2>5 DEF QueueInv
<1> QED
  BY <1>5, <1>6 DEF Moves, Asks

(* Only a deletion of the run takes a manifest away, and who is not disturbed *)
(* by one knows of none.                                                    *)
LEMMA ManifestStays ==
  ASSUME HistoryInv, NEW a \in Actors, NEW o, Moves(a, o), NEW r \in Runs, manifest[r] # "none",
         act[a].op = "delete" => act[a].run # r
  PROVE  manifest'[r] # "none"
BY DEF Moves, Touches

(* what a run made or restored has, it keeps, and what is written is there  *)
LEMMA MovesWritten ==
  ASSUME HistoryInv, NEW a \in Actors, NEW o, Moves(a, o)
  PROVE  WrittenInv'
<1>1. HistoryTypeOK /\ PlacesInv /\ CompanyInv /\ WrittenInv
  BY DEF HistoryInv
<1>2. act'[a] = o /\ \A b \in Actors \ {a} : act'[b] = act[b]
  BY <1>1, MovesOthers DEF Moves
<1>3. index' = index /\ lost \subseteq lost'
  BY DEF Moves, Goes
<1>6. \A r \in TeamRuns : manifest'[r] # "partial"
  BY <1>1 DEF WrittenInv, Moves, Touches, TeamRuns, Of
<1> SUFFICES ASSUME NEW b \in Actors, act'[b].company # "deletion", act'[b].run # None
             PROVE  /\ HasManifest(act'[b]) => manifest'[act'[b].run] # "none"
                    /\ HasRow(act'[b]) => index'[act'[b].run] # None \/ act'[b].run \in lost'
  BY <1>6 DEF WrittenInv, HasManifest, HasRow
<1>4. CASE b = a
  <2>1. o.run = act[a].run
    BY <1>2, <1>4 DEF Moves, Goes, Nobody
  <2> QED
    BY <1>2, <1>3, <1>4, <2>1 DEF Moves, Leaves
<1>5. CASE b # a
  <2>1. act[b].run \in Runs
    BY <1>1, <1>2, <1>5, RunFacts
  <2>2. act[a].op = "delete" => act[a].run # act[b].run
    BY <1>1, <1>2, <1>5 DEF CompanyInv
  <2>3. act'[b] = act[b]
    BY <1>2, <1>5
  <2>4. HasManifest(act[b]) => manifest[act[b].run] # "none"
    BY <1>1, <2>3 DEF WrittenInv
  <2>5. HasRow(act[b]) => index[act[b].run] # None \/ act[b].run \in lost
    BY <1>1, <2>3 DEF WrittenInv
  <2> QED
    BY <1>3, <2>1, <2>2, <2>3, <2>4, <2>5, ManifestStays
<1> QED
  BY <1>4, <1>5

(* a listed run keeps its manifest and its row                              *)
LEMMA MovesKnown ==
  ASSUME HistoryInv, NEW a \in Actors, NEW o, Moves(a, o)
  PROVE  KnownInv'
<1>1. HistoryTypeOK /\ PlacesInv /\ CompanyInv /\ KnownInv
  BY DEF HistoryInv
<1>2. act'[a] = o /\ \A b \in Actors \ {a} : act'[b] = act[b]
  BY <1>1, MovesOthers DEF Moves
<1>3. index' = index /\ lost \subseteq lost'
  BY DEF Moves, Goes
<1>4. \A b \in Actors : act'[b].run # None =>
        act'[b].run = act[b].run /\ (act'[b].op = "delete" => act[b].op = "delete")
  BY <1>2 DEF Moves, Goes, Nobody
<1>5. known' \subseteq Runs /\ None \notin Runs
  BY MovesTypes, RunHistoryAssumption DEF HistoryTypeOK
<1> SUFFICES ASSUME NEW r \in known'
             PROVE  /\ \A b \in Actors : act'[b].run = r => act'[b].op # "delete"
                    /\ r \notin lost' => manifest'[r] # "none" /\ index'[r] # None
  BY DEF KnownInv, ListedUntilDeleted
<1>6. CASE r \in known
  <2>1. \A b \in Actors : act[b].run = r => act[b].op # "delete"
    BY <1>1, <1>6 DEF KnownInv
  <2>2. r \notin lost => manifest[r] # "none" /\ index[r] # None
    BY <1>1, <1>6 DEF KnownInv, ListedUntilDeleted
  <2> QED
    BY <1>3, <1>4, <1>5, <2>1, <2>2, ManifestStays
<1>7. CASE r \notin known
  <2>1. /\ r = act[a].run /\ act[a].op \in {"create", "continue"} /\ act[a].company # "deletion"
        /\ manifest'[r] # "none" /\ (index[r] # None \/ r \in lost')
    BY <1>7 DEF Moves, Leaves
  <2>2. \A b \in Actors : act[b].run = r => act[b].op # "delete"
    BY <1>1, <1>5, <2>1 DEF CompanyInv
  <2> QED
    BY <1>3, <1>4, <1>5, <2>1, <2>2
<1> QED
  BY <1>6, <1>7

(* a deleted run is not made again                                          *)
LEMMA MovesGone ==
  ASSUME HistoryInv, NEW a \in Actors, NEW o, Moves(a, o)
  PROVE  GoneInv'
<1>1. HistoryTypeOK /\ PlacesInv /\ CompanyInv /\ GoneInv
  BY DEF HistoryInv
<1>2. act'[a] = o /\ \A b \in Actors \ {a} : act'[b] = act[b]
  BY <1>1, MovesOthers DEF Moves
<1>3. index' = index /\ lost \subseteq lost'
  BY DEF Moves, Goes
<1>4. act[a].at \in {"writing", "completing", "restoring"} => act[a].op \in {"create", "send", "continue"}
  BY <1>1 DEF PlacesInv, Placed, PlacesOf, HistoryTypeOK, Operation, Ops, Saves
<1>5. ASSUME NEW b \in Actors, Undisturbed(act'[b])
      PROVE  /\ act'[b].run \notin alive'
             /\ act'[b].at \in {"saving", "saved"} => manifest'[act'[b].run] = "none"
             /\ act'[b].at = "saved" => Away(act[b].run)'
  <2>1. Undisturbed(act[b]) /\ act'[b].run = act[b].run
    BY <1>2, <1>5 DEF Moves, Goes, Nobody, Undisturbed
  <2>2. act[b].run \in Runs
    BY <1>1, <2>1, RunFacts DEF Undisturbed
  <2>3. act[b].run \notin alive /\ (act[b].at \in {"saving", "saved"} => manifest[act[b].run] = "none")
    BY <1>1, <2>1 DEF GoneInv
  <2>4. act[b].at = "saved" => Away(act[b].run)
    BY <1>1, <2>1 DEF GoneInv
  <2>5. act[a].run = act[b].run => act[a].op \notin {"create", "send", "continue"}
    BY <1>1, <2>1, <2>2, RunHistoryAssumption DEF CompanyInv, Undisturbed
  <2>6. act[b].run \notin alive'
    BY <1>4, <2>3, <2>5 DEF Moves, Touches
  <2>7. CASE b = a
    BY <1>2, <1>5, <2>1, <2>6, <2>7 DEF Moves, Leaves, Goes
  <2>8. CASE b # a
    <3>1. act[a].op = "delete" => act[a].run # act[b].run
      BY <1>1, <2>1, <2>2, <2>8, RunHistoryAssumption DEF CompanyInv, Undisturbed
    <3>2. manifest'[act[b].run] = manifest[act[b].run]
      BY <1>4, <2>2, <2>5, <3>1 DEF Moves, Touches
    <3> QED
      BY <1>2, <1>3, <2>1, <2>3, <2>4, <2>6, <2>8, <3>2 DEF Away
  <2> QED
    BY <2>7, <2>8
<1>6. ASSUME NEW r \in gone'
      PROVE  /\ r \notin alive' /\ manifest'[r] = "none" /\ Away(r)'
             /\ \A b \in Actors : act'[b].run = r =>
                  \/ act'[b].op \in {"delete", "event"}
                  \/ act'[b].op = "continue" /\ act'[b].at \in {"manifest", "dispatching"} /\ ~act'[b].restored
  <2>1. r \in Runs /\ r # None
    BY MovesTypes, RunHistoryAssumption DEF HistoryTypeOK
  <2>2. /\ r \notin alive /\ manifest[r] = "none" /\ Away(r)
        /\ \A b \in Actors : act[b].run = r =>
             \/ act[b].op \in {"delete", "event"}
             \/ act[b].op = "continue" /\ act[b].at \in {"manifest", "dispatching"} /\ ~act[b].restored
    <3>1. CASE r \in gone
      BY <1>1, <3>1 DEF GoneInv
    <3>2. CASE r \notin gone
      <4>1. r = act[a].run /\ Undisturbed(act[a]) /\ act[a].at = "saved"
        BY <3>2 DEF Moves, Leaves
      <4>2. r \notin alive /\ manifest[r] = "none" /\ Away(r)
        BY <1>1, <4>1 DEF GoneInv
      <4>3. \A b \in Actors : act[b].run = r => act[b].op \in {"delete", "event"}
        BY <1>1, <2>1, <4>1 DEF CompanyInv, Undisturbed
      <4> QED
        BY <4>2, <4>3
    <3> QED
      BY <3>1, <3>2
  <2>3. act[a].run = r => act[a].at \notin {"writing", "completing", "restoring"}
    BY <1>4, <2>2
  <2>4. r \notin alive'
    BY <2>2, <2>3 DEF Moves, Touches
  <2>5. manifest'[r] = "none"
    BY <2>1, <2>2, <2>3, <1>1 DEF Moves, Touches, HistoryTypeOK
  <2>6. Away(r)'
    BY <1>3, <2>2 DEF Away
  <2>7. ASSUME NEW b \in Actors, act'[b].run = r
        PROVE  \/ act'[b].op \in {"delete", "event"}
               \/ act'[b].op = "continue" /\ act'[b].at \in {"manifest", "dispatching"} /\ ~act'[b].restored
    <3>1. CASE b # a
      BY <1>2, <2>2, <2>7, <3>1
    <3>2. CASE b = a
      <4>1. o.run = act[a].run /\ act[a].run = r /\ (o.op = act[a].op \/ act[a].op = "create") /\ o # Nobody
        BY <1>2, <2>1, <2>7, <3>2 DEF Moves, Goes, Nobody
      <4>2. ~Readable(r)
        BY <2>2 DEF Readable
      <4> QED
        BY <1>2, <2>2, <3>2, <4>1, <4>2 DEF Moves, Leaves
    <3> QED
      BY <3>1, <3>2
  <2> QED
    BY <2>4, <2>5, <2>6, <2>7
<1> QED
  BY <1>5, <1>6 DEF GoneInv, Undisturbed

(* a terminated run is not taken up again                                   *)
LEMMA MovesEnded ==
  ASSUME HistoryInv, NEW a \in Actors, NEW o, Moves(a, o)
  PROVE  EndedInv'
<1>1. HistoryTypeOK /\ CompanyInv /\ PlacesInv /\ EndedInv
  BY DEF HistoryInv
<1>2. act'[a] = o /\ \A b \in Actors \ {a} : act'[b] = act[b]
  BY <1>1, MovesOthers DEF Moves
<1>3. \A r : AtRest(r) => AtRest(r)'
  BY DEF Moves, Goes, AtRest
<1>4. \A b \in Actors : act'[b].run # None => act'[b].run = act[b].run
  BY <1>2 DEF Moves, Goes, Nobody
<1>5. ASSUME NEW b \in Actors, act'[b].op = "terminate", act'[b].company = "nobody", act'[b].at = "saved"
      PROVE  AtRest(act[b].run)'
  <2>1. b # a
    BY <1>2, <1>5 DEF Moves, Goes
  <2> QED
    BY <1>1, <1>2, <1>3, <1>5, <2>1 DEF EndedInv
<1>6. ASSUME NEW r \in ended'
      PROVE  AtRest(r)' /\ \A b \in Actors : act'[b].run # r
  <2>1. r # None
    BY <1>6, MovesTypes, RunHistoryAssumption DEF HistoryTypeOK
  <2>2. CASE r \in ended
    BY <1>1, <1>3, <1>4, <2>1, <2>2 DEF EndedInv
  <2>3. CASE r \notin ended
    <3>1. r = act[a].run /\ act[a].op = "terminate" /\ act[a].company = "nobody" /\ act[a].at = "saved" /\ o = Nobody
      BY <1>6, <2>3 DEF Moves, Leaves
    <3>2. \A b \in Actors \ {a} : act[b].run # r
      BY <1>1, <2>1, <3>1 DEF CompanyInv
    <3>3. AtRest(r)
      BY <1>1, <3>1 DEF EndedInv
    <3>4. act'[a].run # r
      BY <1>2, <2>1, <3>1 DEF Nobody
    <3> QED
      BY <1>2, <1>3, <3>2, <3>3, <3>4
  <2> QED
    BY <2>2, <2>3
<1> QED
  BY <1>2, <1>5, <1>6 DEF EndedInv

(* An operation on its way keeps everything.                                *)
LEMMA MovesKeep ==
  ASSUME HistoryInv, NEW a \in Actors, NEW o, Moves(a, o)
  PROVE  HistoryInv'
BY MovesTypes, MovesPlaces, MovesQueue, MovesWritten, MovesKnown, MovesGone, MovesEnded DEF HistoryInv

-----------------------------------------------------------------------------
(* How operations end and go on                                             *)

(* what all steps of an operation under way leave alone                     *)
Alone(a) ==
  /\ act[a].at \notin {"idle", "saving", "waiting"}
  /\ UNCHANGED <<index, made, watched, inbox, calls, events>>
  /\ faults' \in 0 .. MaxFaults /\ lost \subseteq lost' /\ lost' \subseteq Runs

(* failures are counted up to their bound                                   *)
LEMMA FaultFacts == HistoryTypeOK /\ Fault => faults' \in 0 .. MaxFaults
BY RunHistoryAssumption DEF HistoryTypeOK, Fault

(* no operation is an operation, in its place                               *)
LEMMA NobodyFacts == Nobody \in Operation /\ Placed(Nobody) /\ Placed(Nobody)'
BY DEF Nobody, Operation, Ops, Places, Companies, Row, Placed, PlacesOf

(* an operation that fails leaves only what it has written                  *)
LEMMA FailsKeeps ==
  ASSUME HistoryInv, NEW a \in Actors, Alone(a), Fails(a), UNCHANGED queue, Touches(a)
  PROVE  HistoryInv'
<1>1. Goes(a, Nobody)
  BY NobodyFacts DEF Alone, Fails, Over, Goes, Nobody
<1>2. Leaves(a, Nobody)
  BY DEF Fails, Leaves, Nobody, Undisturbed
<1> QED
  BY <1>1, <1>2, MovesKeep DEF Moves, Asks

(* What an operation that succeeds says of its run is so: the run is        *)
(* listed, away or at rest.                                                 *)
LEMMA SucceedsKeeps ==
  ASSUME HistoryInv, NEW a \in Actors, Alone(a), Succeeds(a), UNCHANGED <<queue, manifest, alive>>,
         act[a].op \in {"delete", "terminate"} => act[a].at = "saved",
         act[a].company # "deletion" /\ (act[a].op = "create" \/ act[a].restored) =>
           HasManifest(act[a]) /\ (HasRow(act[a]) \/ index[act[a].run] # None \/ act[a].run \in lost')
  PROVE  HistoryInv'
<1>1. HistoryTypeOK /\ PlacesInv /\ WrittenInv
  BY DEF HistoryInv
<1>2. Goes(a, Nobody)
  BY NobodyFacts DEF Alone, Succeeds, Over, Goes, Nobody
<1>3. Touches(a)
  BY <1>1 DEF Touches, HistoryTypeOK
<1>4. act[a].restored => act[a].op = "continue"
  BY <1>1 DEF PlacesInv, Placed
<1>5. act[a].op \in {"create", "continue"} => act[a].run # None
  BY <1>1, RunFacts
<1>6. Leaves(a, Nobody)
  <2>1. \A x \in known' \ known :
          /\ x = act[a].run /\ act[a].op \in {"create", "continue"} /\ act[a].company # "deletion"
          /\ manifest'[x] # "none" /\ (index[x] # None \/ x \in lost')
    <3> SUFFICES ASSUME NEW x \in known' \ known
                 PROVE  /\ x = act[a].run /\ act[a].op \in {"create", "continue"} /\ act[a].company # "deletion"
                        /\ manifest'[x] # "none" /\ (index[x] # None \/ x \in lost')
      OBVIOUS
    <3>1. /\ x = act[a].run /\ act[a].company # "deletion" /\ (act[a].op = "create" \/ act[a].restored)
      BY DEF Succeeds
    <3>2. act[a].op \in {"create", "continue"} /\ act[a].run # None
      BY <1>4, <1>5, <3>1
    <3> QED
      BY <1>1, <3>1, <3>2 DEF WrittenInv, Alone
  <2>2. \A x \in gone' \ gone : x = act[a].run /\ Undisturbed(act[a]) /\ act[a].at = "saved"
    BY <1>1 DEF Succeeds, Undisturbed, HistoryTypeOK, Operation, Companies
  <2>3. \A x \in ended' \ ended :
          x = act[a].run /\ act[a].op = "terminate" /\ act[a].company = "nobody" /\ act[a].at = "saved"
    BY DEF Succeeds
  <2>4. Nobody.run = None /\ Nobody.op = "none"
    BY DEF Nobody
  <2> QED
    BY <2>1, <2>2, <2>3, <2>4 DEF Leaves, Undisturbed
<1> QED
  BY <1>2, <1>3, <1>6, MovesKeep DEF Moves, Asks

(* it goes on at another place, perhaps restored or with another status     *)
Onward(a, at, status, restored) == [act[a] EXCEPT !.at = at, !.status = status, !.restored = restored]

(* an operation at its next place                                           *)
LEMMA OnwardFacts ==
  ASSUME HistoryTypeOK, NEW a \in Actors, NEW at \in Places,
         NEW status \in Row \cup Rows, NEW restored \in BOOLEAN,
         NEW o, o = Onward(a, at, status, restored)
  PROVE  /\ o \in Operation /\ o.at = at /\ o.status = status /\ o.restored = restored
         /\ o.op = act[a].op /\ o.run = act[a].run /\ o.kind = act[a].kind /\ o.company = act[a].company
<1>1. act[a] \in Operation
  BY DEF HistoryTypeOK
<1> QED
  BY <1>1 DEF Onward, Operation

(* one that goes on without asking a store                                  *)
LEMMA OnwardKeeps ==
  ASSUME HistoryInv, NEW a \in Actors, Alone(a), NEW o \in Operation, o.at # "saved",
         o.op = act[a].op, o.run = act[a].run, o.company = act[a].company,
         act' = [act EXCEPT ![a] = o], Placed(o)', Asks(a, o), Touches(a), UNCHANGED <<known, gone, ended>>,
         act[a].company # "deletion" => /\ HasManifest(o) => manifest'[act[a].run] # "none"
                                        /\ HasRow(o) => index[act[a].run] # None \/ act[a].run \in lost',
         act[a].op = "delete" => o.at # "saving" \/ manifest'[act[a].run] = "none",
         act[a].op = "continue" /\ ~act[a].restored =>
           /\ act[a].at = "manifest" => Readable(act[a].run)
           /\ act[a].at = "dispatching" => act[a].run \in alive
  PROVE  HistoryInv'
<1>1. Goes(a, o)
  BY DEF Goes, Alone
<1>2. Leaves(a, o)
  BY DEF Leaves, Undisturbed
<1> QED
  BY <1>1, <1>2, MovesKeep DEF Moves

(* (Move and Save of the module, as they stand)                             *)
LEMMA MoveIsOnward ==
  ASSUME HistoryTypeOK, NEW a \in Actors, NEW at, Move(a, at)
  PROVE  act' = [act EXCEPT ![a] = Onward(a, at, act[a].status, act[a].restored)]
         /\ act[a].status \in Row \cup Rows /\ act[a].restored \in BOOLEAN
<1>1. act[a] \in Operation
  BY DEF HistoryTypeOK
<1>2. Onward(a, at, act[a].status, act[a].restored) = [act[a] EXCEPT !.at = at]
  BY <1>1 DEF Onward, Operation
<1> QED
  BY <1>1, <1>2 DEF Move, Operation

(* what its new place asks of its kind and its run                          *)
Fits(a, at, status, restored) ==
  /\ at \in PlacesOf(act[a].op)
  /\ restored => act[a].op = "continue"
  /\ act[a].op = "list" /\ at = "rebuilding" => status \in Rows
  /\ act[a].op = "event" /\ at = "naming" => act[a].run \in lost'
  /\ act[a].op # "list" => status \in Row
  /\ act[a].op = "continue" /\ at = "naming" => restored
  /\ act[a].op = "continue" /\ at = "writing" => act[a].run \in AgentRuns
  /\ at \in {"completing", "posting", "naming"} => act[a].run \in AgentRuns
  /\ act[a].op = "continue" /\ at \in {"dispatching", "undoing", "waiting", "reading"} => act[a].run \in TeamRuns

(* where it goes is a place of its kind                                     *)
LEMMA FitsIsPlaced ==
  ASSUME HistoryTypeOK, PlacesInv, NEW a \in Actors, made' = made,
         NEW at \in Places, NEW status \in Row \cup Rows, NEW restored \in BOOLEAN,
         Fits(a, at, status, restored), NEW o, o = Onward(a, at, status, restored)
  PROVE  Placed(o)'
<1>1. Placed(act[a])
  BY DEF PlacesInv
<1>2. /\ o.op = act[a].op /\ o.run = act[a].run /\ o.kind = act[a].kind
      /\ o.at = at /\ o.status = status /\ o.restored = restored
  BY OnwardFacts
<1> QED
  BY <1>1, <1>2 DEF Placed, Fits

(* an operation that asks no store for anything                             *)
LEMMA GoesOnKeeps ==
  ASSUME HistoryInv, NEW a \in Actors, Alone(a), NEW at \in Places \ {"idle", "saved", "saving", "waiting"},
         NEW status \in Row \cup Rows, NEW restored \in BOOLEAN, Fits(a, at, status, restored),
         NEW o, o = Onward(a, at, status, restored), act' = [act EXCEPT ![a] = o],
         Touches(a), UNCHANGED <<queue, known, gone, ended>>,
         act[a].company # "deletion" => /\ HasManifest(o) => manifest'[act[a].run] # "none"
                                        /\ HasRow(o) => index[act[a].run] # None \/ act[a].run \in lost',
         act[a].op = "continue" /\ ~act[a].restored =>
           /\ act[a].at = "manifest" => Readable(act[a].run)
           /\ act[a].at = "dispatching" => act[a].run \in alive
  PROVE  HistoryInv'
<1>1. HistoryTypeOK /\ PlacesInv
  BY DEF HistoryInv
<1>2. Placed(o)'
  BY <1>1, FitsIsPlaced DEF Alone
<1>3. Asks(a, o)
  BY DEF Asks
<1>4. /\ o \in Operation /\ o.at = at
      /\ o.op = act[a].op /\ o.run = act[a].run /\ o.company = act[a].company
  BY <1>1, OnwardFacts
<1> QED
  BY <1>2, <1>3, <1>4, OnwardKeeps

(* an operation that saves a row or waits for the writes of a store         *)
LEMMA AsksKeeps ==
  ASSUME HistoryInv, NEW a \in Actors, Alone(a), NEW at \in {"saving", "waiting"},
         NEW status \in Row \cup Rows, Fits(a, at, status, act[a].restored),
         NEW o, o = Onward(a, at, status, act[a].restored), act' = [act EXCEPT ![a] = o],
         NEW s \in Stores, NEW t \in TaskKind, Enqueue(s, t), t.who = a, t.at = "queued", TaskOf(s, t, o)',
         Touches(a), UNCHANGED <<known, gone, ended>>,
         act[a].company # "deletion" => /\ HasManifest(o) => manifest'[act[a].run] # "none"
                                        /\ HasRow(o) => index[act[a].run] # None \/ act[a].run \in lost',
         act[a].op = "delete" => at # "saving" \/ manifest'[act[a].run] = "none",
         act[a].op = "continue" /\ ~act[a].restored =>
           /\ act[a].at = "manifest" => Readable(act[a].run)
           /\ act[a].at = "dispatching" => act[a].run \in alive
  PROVE  HistoryInv'
<1>1. HistoryTypeOK /\ PlacesInv
  BY DEF HistoryInv
<1>2. act[a].restored \in BOOLEAN /\ at \in Places \ {"idle", "saved"}
  BY <1>1 DEF HistoryTypeOK, Operation, Places
<1>3. Placed(o)'
  BY <1>1, <1>2, FitsIsPlaced DEF Alone
<1>4. Asks(a, o)
  BY DEF Asks
<1>5. /\ o \in Operation /\ o.at = at
      /\ o.op = act[a].op /\ o.run = act[a].run /\ o.company = act[a].company
  BY <1>1, <1>2, OnwardFacts
<1>6. /\ o.at # "saved" /\ o \in Operation
      /\ o.op = act[a].op /\ o.run = act[a].run /\ o.company = act[a].company
      /\ act[a].op = "delete" => o.at # "saving" \/ manifest'[act[a].run] = "none"
  BY <1>2, <1>5
<1>7. Goes(a, o)
  BY <1>3, <1>6 DEF Goes, Alone
<1>8. Leaves(a, o)
  BY <1>6 DEF Leaves, Undisturbed
<1> QED
  BY <1>4, <1>7, <1>8, MovesKeep DEF Moves

-----------------------------------------------------------------------------
(* The operations, one by one                                               *)

(* what an operation is, and where                                          *)
LEMMA ActorFacts ==
  ASSUME HistoryInv, NEW a \in Actors
  PROVE  /\ HistoryTypeOK /\ PlacesInv /\ CompanyInv /\ WrittenInv
         /\ act[a] \in Operation /\ Placed(act[a])
         /\ act[a].status \in Row \cup Rows /\ act[a].restored \in BOOLEAN
         /\ act[a].op \in Ops /\ act[a].at \in PlacesOf(act[a].op)
         /\ act[a].run # None => act[a].run \in Runs
BY DEF HistoryInv, HistoryTypeOK, PlacesInv, Placed, Operation

(* the operation's place tells its kind                                     *)
LEMMA KindFacts ==
  ASSUME HistoryInv, NEW a \in Actors
  PROVE  /\ act[a].at = "manifest" => act[a].op = "continue"
         /\ act[a].at \in {"restoring", "idling"} => act[a].op \in {"create", "send", "continue"}
         /\ act[a].at \in {"writing", "completing"} => act[a].op \in {"create", "continue"}
         /\ act[a].at = "naming" => act[a].op \in {"create", "continue", "event"}
         /\ act[a].at = "posting" => act[a].op \in {"create", "send", "continue"}
         /\ act[a].at \in {"dispatching", "undoing"} => act[a].op = "continue"
         /\ act[a].at = "ending" => act[a].op = "terminate"
         /\ act[a].at = "removing" => act[a].op = "delete"
         /\ act[a].at = "reading" => act[a].op \in {"continue", "list", "event"}
         /\ act[a].at = "rebuilding" => act[a].op = "list"
         /\ act[a].at \in {"saved", "unsaved"} => act[a].op \in {"create", "continue", "terminate", "delete", "list", "event"}
BY ActorFacts DEF PlacesOf, Ops, Saves

(* one that writes no manifest and starts no run                            *)
LEMMA UntouchedFacts ==
  ASSUME HistoryTypeOK, NEW a \in Actors, manifest' = manifest, alive' \subseteq alive
  PROVE  Touches(a)
BY DEF HistoryTypeOK, Touches

(* one that changes nothing of other runs                                   *)
LEMMA AloneFacts ==
  ASSUME HistoryInv, NEW a \in Actors, act[a].at \notin {"idle", "saving", "waiting"},
         UNCHANGED <<index, made, watched, inbox, calls, events>>,
         UNCHANGED lost \/ (act[a].run # None /\ lost' = lost \cup {act[a].run}),
         UNCHANGED faults \/ Fault
  PROVE  Alone(a)
<1>1. HistoryTypeOK /\ (act[a].run # None => act[a].run \in Runs)
  BY ActorFacts
<1>2. faults' \in 0 .. MaxFaults
  BY <1>1, FaultFacts DEF HistoryTypeOK
<1> QED
  BY <1>1, <1>2 DEF Alone, HistoryTypeOK

(* an operation that only moves on                                          *)
LEMMA MoveKeeps ==
  ASSUME HistoryInv, NEW a \in Actors, Alone(a), NEW at \in Places \ {"idle", "saved", "saving", "waiting"},
         Move(a, at), Fits(a, at, act[a].status, act[a].restored),
         Touches(a), UNCHANGED <<queue, known, gone, ended>>,
         NEW o, o = [act[a] EXCEPT !.at = at],
         act[a].company # "deletion" => /\ HasManifest(o) => manifest'[act[a].run] # "none"
                                        /\ HasRow(o) => index[act[a].run] # None \/ act[a].run \in lost',
         act[a].op = "continue" /\ ~act[a].restored =>
           /\ act[a].at = "manifest" => Readable(act[a].run)
           /\ act[a].at = "dispatching" => act[a].run \in alive
  PROVE  HistoryInv'
<1>1. PICK status, restored : status = act[a].status /\ restored = act[a].restored
  OBVIOUS
<1>2. status \in Row \cup Rows /\ restored \in BOOLEAN /\ act[a] \in Operation
  BY <1>1, ActorFacts
<1>3. o = Onward(a, at, status, restored)
  BY <1>1, <1>2 DEF Onward, Operation
<1>4. act' = [act EXCEPT ![a] = o]
  BY DEF Move
<1> QED
  BY <1>1, <1>2, <1>3, <1>4, GoesOnKeeps

(* A continuation reads the manifest, which it needs.                       *)
LEMMA NeedsManifestKeeps ==
  ASSUME HistoryInv, NEW a \in Actors, NeedsManifest(a)
  PROVE  HistoryInv'
<1>1. HistoryTypeOK /\ WrittenInv /\ act[a].op = "continue" /\ act[a].at = "manifest"
  BY ActorFacts, KindFacts DEF NeedsManifest
<1>2. Alone(a)
  BY <1>1, AloneFacts DEF NeedsManifest, Quiet
<1>3. Touches(a) /\ UNCHANGED queue
  BY <1>1, UntouchedFacts DEF NeedsManifest
<1>4. CASE Readable(act[a].run) /\ Move(a, "restoring") /\ UNCHANGED <<known, gone, ended>>
  <2>1. Fits(a, "restoring", act[a].status, act[a].restored)
    BY <1>1, ActorFacts DEF Fits, PlacesOf, Placed
  <2>2. PICK o : o = [act[a] EXCEPT !.at = "restoring"]
    OBVIOUS
  <2>3. ~HasRow(o) /\ manifest'[act[a].run] # "none"
    BY <1>4, <2>2, ActorFacts DEF HasRow, Readable, NeedsManifest, Operation
  <2> QED
    BY <1>1, <1>2, <1>3, <1>4, <2>1, <2>2, <2>3, MoveKeeps DEF Places
<1>5. CASE Fails(a)
  BY <1>2, <1>3, <1>5, FailsKeeps
<1> QED
  BY <1>4, <1>5 DEF NeedsManifest

(* The run is in the runtime, or the operation fails.                       *)
LEMMA RestoreKeeps ==
  ASSUME HistoryInv, NEW a \in Actors, Restore(a)
  PROVE  HistoryInv'
<1>1. HistoryTypeOK /\ WrittenInv /\ act[a].op \in {"create", "send", "continue"} /\ act[a].at = "restoring"
  BY ActorFacts, KindFacts DEF Restore
<1>2. Alone(a)
  BY <1>1, AloneFacts DEF Restore, Quiet
<1>3. Touches(a) /\ UNCHANGED queue
  BY <1>1 DEF Restore, Touches, HistoryTypeOK
<1>4. CASE Move(a, "idling") /\ UNCHANGED <<known, gone, ended>>
  <2>1. Fits(a, "idling", act[a].status, act[a].restored)
    BY <1>1, ActorFacts DEF Fits, PlacesOf, Placed
  <2>2. PICK o : o = [act[a] EXCEPT !.at = "idling"]
    OBVIOUS
  <2>3. ~HasRow(o) /\ (HasManifest(o) => HasManifest(act[a]))
    BY <1>1, <2>2, ActorFacts DEF HasRow, HasManifest, Operation
  <2>4. act[a].company # "deletion" => (HasManifest(o) => manifest'[act[a].run] # "none")
    BY <1>1, <2>3, RunFacts, ActorFacts DEF WrittenInv, Restore
  <2> QED
    BY <1>1, <1>2, <1>3, <1>4, <2>1, <2>2, <2>3, <2>4, MoveKeeps DEF Places
<1>5. CASE Fails(a)
  BY <1>2, <1>3, <1>5, FailsKeeps
<1> QED
  BY <1>4, <1>5 DEF Restore

(* what an operation saves is what its kind may save                        *)
Due(a, s, what, status) ==
  /\ what \in {"upsert", "update", "remove", "rebuild"}
  /\ what = "remove" <=> act[a].op = "delete"
  /\ what = "rebuild" <=> act[a].op = "list"
  /\ what # "rebuild" => KindOf[act[a].run] = FileOf[s]
  /\ what \in {"update", "upsert"} => status \in {"ACTIVE", "IDLE"}
  /\ what = "rebuild" => status \in Rows
  /\ what = "remove" => status = None
  /\ s = "continuation" => act[a].op = "continue"
  /\ act[a].op = "create" => what = "upsert"
  /\ act[a].op = "continue" /\ act[a].restored /\ act[a].run \in AgentRuns => what = "upsert"
  /\ act[a].op = "terminate" => what = "update" /\ status = "IDLE"
  /\ act[a].op = "event" /\ what = "upsert" => act[a].run \in lost'

(* what is asked of a store is a task                                       *)
LEMMA TaskIsTask ==
  ASSUME NEW a \in Actors, NEW what \in {"reader", "upsert", "update", "remove", "rebuild"},
         NEW r \in Runs \cup {None}, NEW status \in Row \cup Rows
  PROVE  Task(a, what, r, status) \in TaskKind
<1>1. NoRows \in Rows
  BY DEF NoRows, Rows, Row
<1> QED
  BY <1>1 DEF Task, TaskKind

(* An operation asks a store to write the row of its run.                   *)
LEMMA SaveKeeps ==
  ASSUME HistoryInv, NEW a \in Actors, Alone(a), NEW s \in Stores, NEW what, NEW status,
         Save(a, s, what, act[a].run, status), Due(a, s, what, status),
         "saving" \in PlacesOf(act[a].op), Touches(a), UNCHANGED <<known, gone, ended>>,
         NEW o, o = [act[a] EXCEPT !.at = "saving"],
         act[a].company # "deletion" => /\ HasManifest(o) => manifest'[act[a].run] # "none"
                                        /\ HasRow(o) => index[act[a].run] # None \/ act[a].run \in lost',
         act[a].op = "delete" => manifest'[act[a].run] = "none",
         act[a].at \notin {"manifest", "dispatching"}
  PROVE  HistoryInv'
<1>1. HistoryTypeOK /\ act[a].status \in Row \cup Rows /\ act[a].restored \in BOOLEAN /\ act[a] \in Operation
  BY ActorFacts
<1>2. act[a].run \in Runs \cup {None} /\ Placed(act[a])
  BY ActorFacts
<1>3. PICK r, st, restored : r = act[a].run /\ st = act[a].status /\ restored = act[a].restored
  OBVIOUS
<1>4. PICK t : t = Task(a, what, r, status)
  OBVIOUS
<1>5. status \in Row \cup Rows
  BY DEF Due, Row
<1>6. t \in TaskKind /\ t.who = a /\ t.at = "queued" /\ t.what = what /\ t.run = r /\ t.status = status
  BY <1>2, <1>3, <1>4, <1>5, TaskIsTask DEF Due, Task
<1>7. Enqueue(s, t) /\ act' = [act EXCEPT ![a] = o]
  BY <1>3, <1>4 DEF Save, Move
<1>8. o = Onward(a, "saving", st, restored) /\ st \in Row \cup Rows /\ restored \in BOOLEAN
  BY <1>1, <1>3 DEF Onward, Operation
<1>9. /\ o.op = act[a].op /\ o.run = r /\ o.at = "saving" /\ o.restored = act[a].restored
      /\ o \in Operation /\ o.company = act[a].company
  BY <1>1, <1>3, <1>8, OnwardFacts DEF Places
<1>10. TaskOf(s, t, o)'
  BY <1>3, <1>6, <1>9 DEF TaskOf, Due
<1>11. Fits(a, "saving", st, restored)
  BY <1>1, <1>2, <1>3 DEF Fits, Placed
<1>12. Placed(o)'
  BY <1>1, <1>8, <1>11, ActorFacts, FitsIsPlaced DEF Alone, Places
<1>13. Asks(a, o)
  BY <1>6, <1>7, <1>10 DEF Asks
<1>14. o.op = act[a].op /\ o.run = act[a].run /\ o.company = act[a].company /\ o.at # "saved" /\ o \in Operation
  BY <1>3, <1>9
<1>15. act' = [act EXCEPT ![a] = o]
  BY <1>7
<1> QED
  BY <1>12, <1>13, <1>14, <1>15, OnwardKeeps

(* an agent's run is of an agent                                            *)
LEMMA RunsHaveKinds ==
  /\ \A r \in AgentRuns : r \in Runs /\ r \notin TeamRuns /\ KindOf[r] = "agent"
  /\ \A r \in TeamRuns : r \in Runs /\ r \notin AgentRuns /\ KindOf[r] = "team"
  /\ \A r \in Runs : r \in AgentRuns \/ r \in TeamRuns
  /\ FileOf["history"] = "agent" /\ FileOf["continuation"] = "agent" /\ FileOf["teams"] = "team"
BY RunHistoryAssumption DEF AgentRuns, TeamRuns, Of, FileOf

(* an agent's run becomes idle                                              *)
LEMMA BecomesIdleKeeps ==
  ASSUME HistoryInv, NEW a \in Actors, BecomesIdle(a)
  PROVE  HistoryInv'
<1>1. /\ HistoryTypeOK /\ WrittenInv /\ act[a].op \in {"create", "send", "continue"}
      /\ act[a].at = "idling" /\ act[a].run \in AgentRuns
  BY ActorFacts, KindFacts DEF BecomesIdle
<1>2. Alone(a)
  BY <1>1, AloneFacts DEF BecomesIdle, Quiet
<1>3. Touches(a) /\ UNCHANGED queue
  BY <1>1, UntouchedFacts DEF BecomesIdle
<1>4. ASSUME NEW at, at = IF act[a].op = "send" THEN "posting" ELSE "writing", Move(a, at), UNCHANGED <<known, gone, ended>>
      PROVE  HistoryInv'
  <2>1. Fits(a, at, act[a].status, act[a].restored) /\ at \in Places \ {"idle", "saved", "saving", "waiting"}
    BY <1>1, <1>4, ActorFacts DEF Fits, PlacesOf, Placed, Places
  <2>2. PICK o : o = [act[a] EXCEPT !.at = at]
    OBVIOUS
  <2>3. ~HasRow(o) /\ (HasManifest(o) => HasManifest(act[a]))
    BY <1>1, <1>4, <2>2, ActorFacts DEF HasRow, HasManifest, Operation
  <2>4. act[a].company # "deletion" => (HasManifest(o) => manifest'[act[a].run] # "none")
    BY <1>1, <2>3, RunFacts, ActorFacts DEF WrittenInv, BecomesIdle
  <2> QED
    BY <1>1, <1>2, <1>3, <1>4, <2>1, <2>2, <2>3, <2>4, MoveKeeps
<1>5. CASE Fails(a)
  BY <1>2, <1>3, <1>5, FailsKeeps
<1> QED
  BY <1>4, <1>5 DEF BecomesIdle

(* a team becomes idle                                                      *)
LEMMA TeamBecomesIdleKeeps ==
  ASSUME HistoryInv, NEW a \in Actors, TeamBecomesIdle(a)
  PROVE  HistoryInv'
<1>1. /\ HistoryTypeOK /\ WrittenInv /\ act[a].op \in {"create", "send", "continue"}
      /\ act[a].at = "idling" /\ act[a].run \in TeamRuns
  BY ActorFacts, KindFacts DEF TeamBecomesIdle
<1>2. Alone(a)
  BY <1>1, AloneFacts DEF TeamBecomesIdle, Quiet
<1>3. Touches(a) /\ UNCHANGED queue
  BY <1>1, UntouchedFacts DEF TeamBecomesIdle
<1>4. ASSUME act' = [act EXCEPT ![a].at = IF act[a].op = "create" THEN "writing" ELSE "dispatching",
                               ![a].restored = act[a].op = "continue"],
             UNCHANGED <<known, gone, ended>>
      PROVE  HistoryInv'
  <2>1. PICK at, status, restored : /\ at = IF act[a].op = "create" THEN "writing" ELSE "dispatching"
                                    /\ status = act[a].status /\ restored = (act[a].op = "continue")
    OBVIOUS
  <2>2. PICK o : o = Onward(a, at, status, restored)
    OBVIOUS
  <2>3. act' = [act EXCEPT ![a] = o]
    BY <1>1, <1>4, <2>1, <2>2, ActorFacts DEF Onward, Operation
  <2>4. act[a].op # "send"
    BY <1>1, RunsHaveKinds, ActorFacts DEF Placed
  <2>5. /\ Fits(a, at, status, restored) /\ at \in Places \ {"idle", "saved", "saving", "waiting"}
        /\ status \in Row \cup Rows /\ restored \in BOOLEAN
    BY <1>1, <2>1, <2>4, ActorFacts DEF Fits, PlacesOf, Placed, Places
  <2>6. o.op = act[a].op /\ o.at = at /\ o.restored = restored
    BY <1>1, <2>2, <2>5, OnwardFacts
  <2>7. ~HasRow(o) /\ (HasManifest(o) => HasManifest(act[a]))
    BY <1>1, <2>1, <2>4, <2>6 DEF HasRow, HasManifest
  <2>8. act[a].company # "deletion" => (HasManifest(o) => manifest'[act[a].run] # "none")
    BY <1>1, <2>7, RunFacts, ActorFacts DEF WrittenInv, TeamBecomesIdle
  <2>9. Touches(a) /\ UNCHANGED <<queue, known, gone, ended>>
    BY <1>3, <1>4
  <2> QED
    BY <1>1, <1>2, <2>2, <2>3, <2>5, <2>7, <2>8, <2>9, GoesOnKeeps
<1>5. CASE Fails(a)
  BY <1>2, <1>3, <1>5, FailsKeeps
<1> QED
  BY <1>4, <1>5 DEF TeamBecomesIdle

(* An agent's manifest is torn while it is written.                         *)
LEMMA WriteManifestKeeps ==
  ASSUME HistoryInv, NEW a \in Actors, WriteManifest(a)
  PROVE  HistoryInv'
<1>1. /\ HistoryTypeOK /\ WrittenInv /\ act[a].op \in {"create", "continue"}
      /\ act[a].at = "writing" /\ act[a].run \in AgentRuns /\ act[a].run # None
  BY ActorFacts, KindFacts, RunFacts DEF WriteManifest
<1>2. Alone(a)
  BY <1>1, AloneFacts DEF WriteManifest
<1>3. Touches(a) /\ UNCHANGED <<queue, known, gone, ended>>
  BY <1>1, RunsHaveKinds DEF WriteManifest, Touches, HistoryTypeOK
<1>4. PICK at \in {"completing", "unsaved"} :
        Move(a, at) /\ ((manifest' = manifest /\ at = "unsaved") \/ manifest' = [manifest EXCEPT ![act[a].run] = "partial"])
  BY DEF WriteManifest
<1>5. Fits(a, at, act[a].status, act[a].restored) /\ at \in Places \ {"idle", "saved", "saving", "waiting"}
  BY <1>1, ActorFacts DEF Fits, PlacesOf, Placed, Places, Saves
<1>6. PICK o : o = [act[a] EXCEPT !.at = at]
  OBVIOUS
<1>7. ~HasRow(o) /\ (at = "unsaved" => (HasManifest(o) => HasManifest(act[a])))
  BY <1>1, <1>6, ActorFacts DEF HasRow, HasManifest, Operation
<1>8. act[a].company # "deletion" => (HasManifest(o) => manifest'[act[a].run] # "none")
  BY <1>1, <1>4, <1>7, RunsHaveKinds DEF WrittenInv, HistoryTypeOK
<1>9. Move(a, at)
  BY <1>4
<1> QED
  BY <1>1, <1>2, <1>3, <1>5, <1>6, <1>7, <1>8, <1>9, MoveKeeps

(* A team's manifest is moved into place, and its row asked for.            *)
LEMMA WriteTeamManifestKeeps ==
  ASSUME HistoryInv, NEW a \in Actors, WriteTeamManifest(a)
  PROVE  HistoryInv'
<1>1. /\ HistoryTypeOK /\ WrittenInv /\ act[a].op \in {"create", "continue"}
      /\ act[a].at = "writing" /\ act[a].run \in TeamRuns /\ act[a].run # None
  BY ActorFacts, KindFacts, RunFacts DEF WriteTeamManifest
<1>2. act[a].op = "create" /\ ~act[a].restored
  BY <1>1, ActorFacts, RunsHaveKinds DEF Placed
<1>3. Alone(a)
  BY <1>1, AloneFacts DEF WriteTeamManifest, history
<1>4. Touches(a) /\ UNCHANGED <<known, gone, ended>>
  BY <1>1, RunsHaveKinds DEF WriteTeamManifest, Touches, HistoryTypeOK, history
<1>5. CASE manifest' = [manifest EXCEPT ![act[a].run] = "whole"] /\ Save(a, "teams", "upsert", act[a].run, "IDLE")
  <2>1. Due(a, "teams", "upsert", "IDLE")
    BY <1>2, <1>1, RunsHaveKinds DEF Due
  <2>2. PICK o : o = [act[a] EXCEPT !.at = "saving"]
    OBVIOUS
  <2>3. ~HasRow(o)
    BY <1>2, <2>2, ActorFacts DEF HasRow, Operation
  <2>4. manifest'[act[a].run] # "none"
    BY <1>1, <1>5, RunsHaveKinds DEF HistoryTypeOK
  <2>5. "saving" \in PlacesOf(act[a].op) /\ "teams" \in Stores
    BY <1>1 DEF PlacesOf, Saves, Stores
  <2>6. Save(a, "teams", "upsert", act[a].run, "IDLE")
    BY <1>5
  <2> QED
    BY <1>1, <1>2, <1>3, <1>4, <2>1, <2>2, <2>3, <2>4, <2>5, <2>6, SaveKeeps
<1>6. CASE Move(a, "unsaved") /\ UNCHANGED <<manifest, queue>>
  <2>1. Fits(a, "unsaved", act[a].status, act[a].restored)
    BY <1>1, ActorFacts DEF Fits, PlacesOf, Placed, Saves
  <2>2. PICK o : o = [act[a] EXCEPT !.at = "unsaved"]
    OBVIOUS
  <2>3. ~HasRow(o) /\ ~HasManifest(o)
    BY <1>2, <2>2, ActorFacts DEF HasRow, HasManifest, Operation
  <2> QED
    BY <1>1, <1>3, <1>4, <1>6, <2>1, <2>2, <2>3, MoveKeeps DEF Places
<1> QED
  BY <1>5, <1>6 DEF WriteTeamManifest

(* the manifest is whole                                                    *)
LEMMA CompleteManifestKeeps ==
  ASSUME HistoryInv, NEW a \in Actors, CompleteManifest(a)
  PROVE  HistoryInv'
<1>1. /\ HistoryTypeOK /\ WrittenInv /\ act[a].op \in {"create", "continue"}
      /\ act[a].at = "completing" /\ act[a].run # None
  BY ActorFacts, KindFacts, RunFacts DEF CompleteManifest
<1>2. act[a].run \in AgentRuns /\ act[a].status \in Row
  BY <1>1, ActorFacts DEF Placed
<1>3. Alone(a)
  BY <1>1, AloneFacts DEF CompleteManifest, Quiet
<1>4. Touches(a) /\ UNCHANGED <<queue, known, gone, ended>>
  BY <1>1, <1>2, RunsHaveKinds DEF CompleteManifest, Touches, HistoryTypeOK
<1>5. manifest'[act[a].run] # "none"
  BY <1>1, <1>2, RunsHaveKinds DEF CompleteManifest, HistoryTypeOK
<1>6. PICK at, status, restored :
        /\ at = IF act[a].op = "create" THEN "naming" ELSE "posting"
        /\ status = act[a].status /\ restored = (act[a].op # "create")
  OBVIOUS
<1>7. PICK o : o = Onward(a, at, status, restored)
  OBVIOUS
<1>8. act' = [act EXCEPT ![a] = o]
  <2>1. act[a] \in Operation /\ (act[a].op = "create" => act[a].restored = FALSE)
    BY <1>1, ActorFacts DEF Placed
  <2>2. CASE act[a].op = "create"
    <3>1. o = [act[a] EXCEPT !.at = "naming"]
      BY <1>6, <1>7, <2>1, <2>2 DEF Onward, Operation
    <3> QED
      BY <2>2, <3>1 DEF CompleteManifest, Move
  <2>3. CASE act[a].op # "create"
    <3>1. o = [act[a] EXCEPT !.at = "posting", !.restored = TRUE]
      BY <1>6, <1>7, <2>1, <2>3 DEF Onward, Operation
    <3> QED
      BY <2>3, <3>1 DEF CompleteManifest
  <2> QED
    BY <2>2, <2>3
<1>9. /\ Fits(a, at, status, restored) /\ at \in Places \ {"idle", "saved", "saving", "waiting"}
      /\ status \in Row \cup Rows /\ restored \in BOOLEAN
  BY <1>1, <1>2, <1>6 DEF Fits, PlacesOf, Places
<1>10. o.op = act[a].op /\ o.at = at
  BY <1>1, <1>7, <1>9, OnwardFacts
<1>11. ~HasRow(o)
  BY <1>1, <1>2, <1>6, <1>10 DEF HasRow
<1> QED
  BY <1>1, <1>3, <1>4, <1>5, <1>7, <1>8, <1>9, <1>11, GoesOnKeeps

(* an agent's row is asked for                                              *)
LEMMA NameKeeps ==
  ASSUME HistoryInv, NEW a \in Actors, Name(a)
  PROVE  HistoryInv'
<1>1. /\ HistoryTypeOK /\ WrittenInv /\ act[a].op \in {"create", "continue", "event"}
      /\ act[a].at = "naming" /\ act[a].run # None
  BY ActorFacts, KindFacts, RunFacts DEF Name
<1>2. act[a].run \in AgentRuns /\ (act[a].op = "event" => act[a].run \in lost)
  BY <1>1, ActorFacts DEF Placed
<1>3. Alone(a)
  BY <1>1, AloneFacts DEF Name, Quiet
<1>4. Touches(a)
  BY <1>1, UntouchedFacts DEF Name
<1>5. CASE Save(a, "history", "upsert", act[a].run, "ACTIVE") /\ UNCHANGED <<known, gone, ended>>
  <2>1. Due(a, "history", "upsert", "ACTIVE")
    BY <1>1, <1>2, RunsHaveKinds DEF Due, Name, Quiet
  <2>2. PICK o : o = [act[a] EXCEPT !.at = "saving"]
    OBVIOUS
  <2>3. ~HasRow(o) /\ (HasManifest(o) => HasManifest(act[a]))
    BY <1>1, <1>2, <2>2, ActorFacts, RunsHaveKinds DEF HasRow, HasManifest, Operation
  <2>4. act[a].company # "deletion" => (HasManifest(o) => manifest'[act[a].run] # "none")
    BY <1>1, <2>3 DEF WrittenInv, Name
  <2>5. "saving" \in PlacesOf(act[a].op) /\ "history" \in Stores
    BY <1>1 DEF PlacesOf, Saves, Stores
  <2>6. Save(a, "history", "upsert", act[a].run, "ACTIVE") /\ UNCHANGED <<known, gone, ended>>
    BY <1>5
  <2> QED
    BY <1>1, <1>3, <1>4, <2>1, <2>2, <2>3, <2>4, <2>5, <2>6, SaveKeeps
<1>6. CASE Fails(a) /\ UNCHANGED queue
  BY <1>3, <1>4, <1>6, FailsKeeps
<1> QED
  BY <1>5, <1>6 DEF Name

(* the message is posted, or the call is over                               *)
LEMMA PostKeeps ==
  ASSUME HistoryInv, NEW a \in Actors, Post(a)
  PROVE  HistoryInv'
<1>1. /\ HistoryTypeOK /\ WrittenInv /\ act[a].op \in {"create", "send", "continue"}
      /\ act[a].at = "posting" /\ act[a].run # None
  BY ActorFacts, KindFacts, RunFacts DEF Post
<1>2. act[a].run \in AgentRuns /\ (act[a].restored => act[a].op = "continue")
  BY <1>1, ActorFacts DEF Placed
<1>3. Alone(a)
  BY <1>1, AloneFacts DEF Post, Quiet
<1>4. Touches(a)
  BY <1>1, UntouchedFacts DEF Post
<1>5. CASE act[a].op = "continue" /\ act[a].restored /\ Move(a, "naming") /\ UNCHANGED <<queue, known, gone, ended>>
  <2>1. Fits(a, "naming", act[a].status, act[a].restored)
    BY <1>2, <1>5, ActorFacts DEF Fits, PlacesOf, Placed
  <2>2. PICK o : o = [act[a] EXCEPT !.at = "naming"]
    OBVIOUS
  <2>3. ~HasRow(o) /\ HasManifest(act[a])
    BY <1>5, <2>2, ActorFacts DEF HasRow, HasManifest, Operation
  <2>4. act[a].company # "deletion" => manifest'[act[a].run] # "none"
    BY <1>1, <2>3 DEF WrittenInv, Post
  <2> QED
    BY <1>1, <1>3, <1>4, <1>5, <2>1, <2>2, <2>3, <2>4, MoveKeeps DEF Places
<1>6. CASE /\ act[a].op = "continue" /\ ~act[a].restored /\ UNCHANGED <<known, gone, ended>>
           /\ Save(a, "continuation", "update", act[a].run, "ACTIVE")
  <2>1. Due(a, "continuation", "update", "ACTIVE")
    BY <1>2, <1>6, RunsHaveKinds DEF Due
  <2>2. PICK o : o = [act[a] EXCEPT !.at = "saving"]
    OBVIOUS
  <2>3. ~HasRow(o) /\ ~HasManifest(o)
    BY <1>6, <2>2, ActorFacts DEF HasRow, HasManifest, Operation
  <2>4. "saving" \in PlacesOf(act[a].op) /\ "continuation" \in Stores
    BY <1>6 DEF PlacesOf, Saves, Stores
  <2>5. Save(a, "continuation", "update", act[a].run, "ACTIVE") /\ UNCHANGED <<known, gone, ended>>
    BY <1>6
  <2> QED
    BY <1>1, <1>3, <1>4, <2>1, <2>2, <2>3, <2>4, <2>5, SaveKeeps
<1>7. CASE act[a].op # "continue" /\ Succeeds(a) /\ UNCHANGED queue
  <2>1. act[a].op = "create" => HasManifest(act[a]) /\ HasRow(act[a])
    BY <1>1 DEF HasManifest, HasRow
  <2>2. ~act[a].restored /\ act[a].op \notin {"delete", "terminate"}
    BY <1>1, <1>2, <1>7
  <2>3. UNCHANGED <<queue, manifest, alive>>
    BY <1>7 DEF Post
  <2> QED
    BY <1>3, <1>7, <2>1, <2>2, <2>3, SucceedsKeeps
<1>8. CASE Fails(a) /\ UNCHANGED queue
  BY <1>3, <1>4, <1>8, FailsKeeps
<1> QED
  BY <1>5, <1>6, <1>7, <1>8 DEF Post

(* A team is addressed; if it is not there, the restoration is undone.      *)
LEMMA DispatchKeeps ==
  ASSUME HistoryInv, NEW a \in Actors, Dispatch(a)
  PROVE  HistoryInv'
<1>1. /\ HistoryTypeOK /\ WrittenInv /\ act[a].op = "continue" /\ act[a].at = "dispatching" /\ act[a].run # None
  BY ActorFacts, KindFacts, RunFacts DEF Dispatch
<1>2. act[a].run \in TeamRuns
  BY <1>1, ActorFacts DEF Placed
<1>3. Alone(a)
  BY <1>1, AloneFacts DEF Dispatch, Quiet
<1>4. Touches(a)
  BY <1>1, UntouchedFacts DEF Dispatch
<1>5. CASE /\ act[a].run \in alive /\ act' = [act EXCEPT ![a].at = "waiting", ![a].status = "ACTIVE"]
           /\ AwaitWrites(a, "teams") /\ UNCHANGED <<known, gone, ended>>
  <2>1. PICK at, status, restored : at = "waiting" /\ status = "ACTIVE" /\ restored = act[a].restored
    OBVIOUS
  <2>2. /\ at \in {"saving", "waiting"} /\ at \in Places /\ status \in Row \cup Rows /\ restored \in BOOLEAN
        /\ Fits(a, at, status, restored)
    BY <1>1, <1>2, <2>1, ActorFacts DEF Fits, PlacesOf, Row, Places, Placed
  <2>3. PICK o : o = Onward(a, at, status, restored)
    OBVIOUS
  <2>4. act' = [act EXCEPT ![a] = o]
    <3>1. o = [act[a] EXCEPT !.at = "waiting", !.status = "ACTIVE"]
      BY <2>1, <2>3, ActorFacts DEF Onward, Operation
    <3> QED
      BY <1>5, <3>1
  <2>5. o.op = act[a].op /\ o.run = act[a].run /\ o.at = "waiting" /\ o.restored = act[a].restored /\ o.company = act[a].company
    BY <1>1, <2>1, <2>2, <2>3, OnwardFacts
  <2>6. PICK t : t = Task(a, "reader", None, None)
    OBVIOUS
  <2>7. t \in TaskKind /\ t.who = a /\ t.at = "queued" /\ t.what = "reader"
    BY <2>6, TaskIsTask DEF Task, Row
  <2>8. Enqueue("teams", t) /\ "teams" \in Stores
    BY <1>5, <2>6 DEF AwaitWrites, Stores
  <2>9. TaskOf("teams", t, o)'
    BY <2>5, <2>7 DEF TaskOf
  <2>10. ~HasRow(o) /\ (HasManifest(o) => HasManifest(act[a]))
    BY <1>1, <2>5 DEF HasRow, HasManifest
  <2>11. act[a].company # "deletion" => (HasManifest(o) => manifest'[act[a].run] # "none")
    BY <1>1, <2>10 DEF WrittenInv, Dispatch
  <2>12. o = Onward(a, at, status, act[a].restored) /\ Fits(a, at, status, act[a].restored)
    BY <2>1, <2>2, <2>3
  <2>13. act[a].run \in alive /\ UNCHANGED <<known, gone, ended>>
    BY <1>5
  <2> QED
    BY <1>1, <1>3, <1>4, <2>2, <2>4, <2>7, <2>8, <2>9, <2>10, <2>11, <2>12, <2>13, AsksKeeps
<1>6. CASE UNCHANGED <<queue, known, gone, ended>> /\ act[a].restored /\ Move(a, "undoing")
  <2>1. Fits(a, "undoing", act[a].status, act[a].restored)
    BY <1>1, <1>2, ActorFacts DEF Fits, PlacesOf, Placed
  <2>2. PICK o : o = [act[a] EXCEPT !.at = "undoing"]
    OBVIOUS
  <2>3. ~HasRow(o) /\ HasManifest(act[a])
    BY <1>6, <1>1, <2>2, ActorFacts DEF HasRow, HasManifest, Operation
  <2>4. act[a].company # "deletion" => manifest'[act[a].run] # "none"
    BY <1>1, <2>3 DEF WrittenInv, Dispatch
  <2> QED
    BY <1>1, <1>3, <1>4, <1>6, <2>1, <2>2, <2>3, <2>4, MoveKeeps DEF Places
<1>7. CASE UNCHANGED queue /\ Fails(a)
  BY <1>3, <1>4, <1>7, FailsKeeps
<1> QED
  BY <1>5, <1>6, <1>7 DEF Dispatch

(* a restored team is taken down again                                      *)
LEMMA UndoKeeps ==
  ASSUME HistoryInv, NEW a \in Actors, Undo(a)
  PROVE  HistoryInv'
<1>1. HistoryTypeOK /\ Alone(a)
  BY ActorFacts, AloneFacts DEF Undo, Quiet
<1>2. Touches(a) /\ UNCHANGED queue /\ Fails(a)
  BY <1>1, UntouchedFacts DEF Undo
<1> QED
  BY <1>1, <1>2, FailsKeeps

(* the run leaves the runtime, and its row is to be idle                    *)
LEMMA EndsKeeps ==
  ASSUME HistoryInv, NEW a \in Actors, NEW s \in Stores, s # "continuation",
         Ends(a, s), KindOf[act[a].run] = FileOf[s]
  PROVE  HistoryInv'
<1>1. /\ HistoryTypeOK /\ act[a].op = "terminate" /\ act[a].at = "ending" /\ act[a].run # None
  BY ActorFacts, KindFacts, RunFacts DEF Ends
<1>2. Alone(a)
  BY <1>1, AloneFacts DEF Ends, Quiet
<1>3. Touches(a)
  BY <1>1, UntouchedFacts DEF Ends
<1>4. CASE Save(a, s, "update", act[a].run, "IDLE") /\ UNCHANGED <<known, gone, ended>>
  <2>1. Due(a, s, "update", "IDLE")
    BY <1>1 DEF Due
  <2>2. PICK o : o = [act[a] EXCEPT !.at = "saving"]
    OBVIOUS
  <2>3. ~HasRow(o) /\ ~HasManifest(o)
    BY <1>1, <2>2, ActorFacts DEF HasRow, HasManifest, Operation, Placed
  <2>4. "saving" \in PlacesOf(act[a].op)
    BY <1>1 DEF PlacesOf, Saves
  <2>5. Save(a, s, "update", act[a].run, "IDLE") /\ UNCHANGED <<known, gone, ended>>
    BY <1>4
  <2> QED
    BY <1>1, <1>2, <1>3, <2>1, <2>2, <2>3, <2>4, <2>5, SaveKeeps
<1>5. CASE Fails(a) /\ UNCHANGED queue
  BY <1>2, <1>3, <1>5, FailsKeeps
<1> QED
  BY <1>4, <1>5 DEF Ends

(* the manifest goes, and the row is to go                                  *)
LEMMA RemovesKeeps ==
  ASSUME HistoryInv, NEW a \in Actors, NEW s \in Stores, s # "continuation",
         Removes(a, s), act[a].run \in Runs, KindOf[act[a].run] = FileOf[s]
  PROVE  HistoryInv'
<1>1. /\ HistoryTypeOK /\ act[a].op = "delete" /\ act[a].at = "removing" /\ act[a].run # None
  BY ActorFacts, KindFacts, RunFacts DEF Removes
<1>2. Alone(a)
  BY <1>1, AloneFacts DEF Removes, Quiet
<1>3. Touches(a)
  BY <1>1 DEF Removes, Touches, HistoryTypeOK
<1>4. CASE /\ manifest' = [manifest EXCEPT ![act[a].run] = "none"]
           /\ Save(a, s, "remove", act[a].run, None) /\ UNCHANGED <<known, gone, ended>>
  <2>1. Due(a, s, "remove", None)
    BY <1>1 DEF Due
  <2>2. PICK o : o = [act[a] EXCEPT !.at = "saving"]
    OBVIOUS
  <2>3. ~HasRow(o) /\ ~HasManifest(o)
    BY <1>1, <2>2, ActorFacts DEF HasRow, HasManifest, Operation, Placed
  <2>4. "saving" \in PlacesOf(act[a].op) /\ manifest'[act[a].run] = "none"
    BY <1>1, <1>4 DEF PlacesOf, Saves, HistoryTypeOK
  <2>5. Save(a, s, "remove", act[a].run, None) /\ UNCHANGED <<known, gone, ended>>
    BY <1>4
  <2> QED
    BY <1>1, <1>2, <1>3, <2>1, <2>2, <2>3, <2>4, <2>5, SaveKeeps
<1>5. CASE Fails(a) /\ UNCHANGED queue
  BY <1>2, <1>3, <1>5, FailsKeeps
<1> QED
  BY <1>4, <1>5 DEF Removes

(* a listing reads the index, or rebuilds it                                *)
LEMMA ReadRowsKeeps ==
  ASSUME HistoryInv, NEW a \in Actors, ReadRows(a)
  PROVE  HistoryInv'
<1>1. HistoryTypeOK /\ act[a].op = "list" /\ act[a].at = "reading" /\ ~act[a].restored
  BY ActorFacts DEF ReadRows, Placed
<1>2. Alone(a)
  BY <1>1, AloneFacts DEF ReadRows, Quiet
<1>3. Touches(a) /\ UNCHANGED <<queue, known, gone, ended>>
  BY <1>1, UntouchedFacts DEF ReadRows
<1>4. ASSUME NEW status, status = [r \in Runs |-> IF r \notin OnDisk(act[a].kind) THEN None
                                                  ELSE IF r \in alive THEN "ACTIVE" ELSE "IDLE"],
             act' = [act EXCEPT ![a].at = "rebuilding", ![a].status = status]
      PROVE  HistoryInv'
  <2>1. status \in Rows
    BY <1>4 DEF Rows, Row
  <2>2. PICK at, restored : at = "rebuilding" /\ restored = act[a].restored
    OBVIOUS
  <2>3. PICK o : o = Onward(a, at, status, restored)
    OBVIOUS
  <2>4. act' = [act EXCEPT ![a] = o]
    <3>1. o = [act[a] EXCEPT !.at = "rebuilding", !.status = status]
      BY <2>2, <2>3, ActorFacts DEF Onward, Operation
    <3> QED
      BY <1>4, <3>1
  <2>5. /\ Fits(a, at, status, restored) /\ at \in Places \ {"idle", "saved", "saving", "waiting"}
        /\ status \in Row \cup Rows /\ restored \in BOOLEAN
    BY <1>1, <2>1, <2>2, ActorFacts DEF Fits, PlacesOf, Places, Placed
  <2>6. ~HasRow(o) /\ ~HasManifest(o)
    BY <1>1, <2>2, <2>3, <2>5, OnwardFacts DEF HasRow, HasManifest
  <2> QED
    BY <1>1, <1>2, <1>3, <2>3, <2>4, <2>5, <2>6, GoesOnKeeps
<1>5. CASE Over(a)
  BY <1>2, <1>3, <1>5, FailsKeeps DEF Fails
<1> QED
  BY <1>4, <1>5 DEF ReadRows

(* what it has rebuilt is to be written                                     *)
LEMMA RebuildsKeeps ==
  ASSUME HistoryInv, NEW a \in Actors, NEW s \in Stores, s # "continuation", Rebuilds(a, s)
  PROVE  HistoryInv'
<1>1. HistoryTypeOK /\ act[a].op = "list" /\ act[a].at = "rebuilding" /\ act[a].run = None /\ ~act[a].restored
  BY ActorFacts, KindFacts, RunFacts DEF Rebuilds, Placed
<1>2. Alone(a)
  BY <1>1, AloneFacts DEF Rebuilds, Quiet
<1>3. Touches(a) /\ UNCHANGED <<known, gone, ended>>
  BY <1>1, UntouchedFacts DEF Rebuilds
<1>4. PICK status : status = act[a].status
  OBVIOUS
<1>5. Save(a, s, "rebuild", act[a].run, status)
  BY <1>1, <1>4 DEF Rebuilds
<1>6. Due(a, s, "rebuild", status)
  BY <1>1, <1>4, ActorFacts DEF Due, Placed
<1>7. PICK o : o = [act[a] EXCEPT !.at = "saving"]
  OBVIOUS
<1>8. ~HasRow(o) /\ ~HasManifest(o)
  BY <1>1, <1>7, ActorFacts DEF HasRow, HasManifest, Operation
<1>9. "saving" \in PlacesOf(act[a].op)
  BY <1>1 DEF PlacesOf, Saves
<1> QED
  BY <1>1, <1>2, <1>3, <1>5, <1>6, <1>7, <1>8, <1>9, SaveKeeps

(* the operations that record what happened                                 *)
LEMMA RecordingFacts ==
  ASSUME HistoryInv, NEW a \in Actors, Recording(a)
  PROVE  /\ HistoryTypeOK /\ WrittenInv
         /\ act[a].op \in {"continue", "event"} /\ act[a].at = "reading"
         /\ act[a].run \in Runs /\ act[a].run # None
         /\ act[a].op = "continue" => act[a].run \in TeamRuns
         /\ act[a].restored => HasManifest(act[a]) /\ act[a].op = "continue"
         /\ act[a].status \in Row
         /\ Touches(a)
<1>1. /\ HistoryTypeOK /\ WrittenInv /\ act[a].op \in {"continue", "event"} /\ act[a].at = "reading"
      /\ act[a].run \in Runs /\ act[a].run # None
  BY ActorFacts, KindFacts, RunFacts DEF Recording
<1>2. Touches(a)
  BY <1>1, UntouchedFacts DEF Recording
<1> QED
  BY <1>1, <1>2, ActorFacts DEF Placed, HasManifest

(* an event updates the row that is there                                   *)
LEMMA KeepsRowKeeps ==
  ASSUME HistoryInv, NEW a \in Actors, Recording(a), KeepsRow(a)
  PROVE  HistoryInv'
<1>1. Alone(a)
  BY RecordingFacts, AloneFacts DEF Recording, KeepsRow
<1>2. PICK s, status : /\ s = StoreOf(act[a].run)
                       /\ status = IF act[a].status # None THEN act[a].status ELSE index[act[a].run]
  OBVIOUS
<1>3. Save(a, s, "update", act[a].run, status) /\ UNCHANGED <<known, gone, ended>> /\ index[act[a].run] # None
  BY <1>2 DEF KeepsRow
<1>4. status \in {"ACTIVE", "IDLE"}
  BY <1>2, <1>3, RecordingFacts DEF HistoryTypeOK, Rows, Row
<1>5. s \in Stores /\ KindOf[act[a].run] = FileOf[s] /\ s # "continuation"
  BY <1>2, RecordingFacts, RunHistoryAssumption DEF StoreOf, Stores, FileOf
<1>6. Due(a, s, "update", status)
  BY <1>4, <1>5, RecordingFacts, RunsHaveKinds DEF Due
<1>7. PICK o : o = [act[a] EXCEPT !.at = "saving"]
  OBVIOUS
<1>8. HasManifest(o) => HasManifest(act[a])
  BY <1>7, RecordingFacts, ActorFacts DEF HasManifest, Operation
<1>9. act[a].company # "deletion" => (HasManifest(o) => manifest'[act[a].run] # "none")
  BY <1>8, RecordingFacts DEF WrittenInv, Recording
<1>10. "saving" \in PlacesOf(act[a].op) /\ act[a].op # "delete" /\ act[a].at \notin {"manifest", "dispatching"}
  BY RecordingFacts DEF PlacesOf, Saves
<1>11. Touches(a)
  BY RecordingFacts
<1> QED
  BY <1>1, <1>3, <1>5, <1>6, <1>7, <1>9, <1>10, <1>11, SaveKeeps

(* an event of a run without a history                                      *)
LEMMA NoRowKeeps ==
  ASSUME HistoryInv, NEW a \in Actors, Recording(a), NoRow(a)
  PROVE  HistoryInv'
<1>1. Alone(a)
  BY RecordingFacts, AloneFacts DEF Recording, NoRow
<1>2. act[a].restored => act[a].company = "deletion"
  <2> SUFFICES ASSUME act[a].restored, act[a].company # "deletion" PROVE FALSE
    OBVIOUS
  <2>1. manifest[act[a].run] # "none" /\ manifest[act[a].run] # "partial"
    BY RecordingFacts DEF WrittenInv
  <2> QED
    BY <2>1, RecordingFacts DEF NoRow, Readable, HistoryTypeOK
<1> QED
  BY <1>1, <1>2, RecordingFacts, SucceedsKeeps DEF NoRow, Recording

(* an event of an agent                                                     *)
LEMMA RecordRunKeeps ==
  ASSUME HistoryInv, NEW a \in Actors, RecordRun(a)
  PROVE  HistoryInv'
<1>1. Recording(a) /\ act[a].run \in AgentRuns /\ act[a].op = "event"
  BY RecordingFacts, RunsHaveKinds DEF RecordRun
<1>2. CASE MakesRow(a) /\ Move(a, "naming") /\ UNCHANGED queue
  <2>1. Alone(a)
    BY <1>1, <1>2, RecordingFacts, AloneFacts DEF Recording, MakesRow
  <2>2. Fits(a, "naming", act[a].status, act[a].restored)
    BY <1>1, <1>2, RecordingFacts DEF Fits, PlacesOf, MakesRow
  <2>3. PICK o : o = [act[a] EXCEPT !.at = "naming"]
    OBVIOUS
  <2>4. ~HasRow(o) /\ ~HasManifest(o)
    BY <1>1, <2>3, RecordingFacts, ActorFacts DEF HasRow, HasManifest, Operation
  <2>5. UNCHANGED <<queue, known, gone, ended>> /\ Touches(a)
    BY <1>1, <1>2, RecordingFacts DEF MakesRow
  <2> QED
    BY <1>1, <1>2, <2>1, <2>2, <2>3, <2>4, <2>5, MoveKeeps DEF Places
<1> QED
  BY <1>1, <1>2, KeepsRowKeeps, NoRowKeeps DEF RecordRun

(* an event of a team                                                       *)
LEMMA RecordTeamKeeps ==
  ASSUME HistoryInv, NEW a \in Actors, RecordTeam(a)
  PROVE  HistoryInv'
<1>1. Recording(a) /\ act[a].run \in TeamRuns
  BY DEF RecordTeam
<1>2. PICK status : status = IF act[a].status # None THEN act[a].status ELSE "ACTIVE"
  OBVIOUS
<1>3. CASE MakesRow(a) /\ Save(a, "teams", "upsert", act[a].run, status)
  <2>1. Alone(a) /\ act[a].run \in lost'
    BY <1>1, <1>3, RecordingFacts, AloneFacts DEF Recording, MakesRow
  <2>2. Due(a, "teams", "upsert", status)
    BY <1>1, <1>2, <2>1, RecordingFacts, RunsHaveKinds DEF Due, Row
  <2>3. PICK o : o = [act[a] EXCEPT !.at = "saving"]
    OBVIOUS
  <2>4. HasManifest(o) => HasManifest(act[a])
    BY <1>1, <2>3, RecordingFacts, ActorFacts DEF HasManifest, Operation
  <2>5. act[a].company # "deletion" => (HasManifest(o) => manifest'[act[a].run] # "none")
    BY <1>1, <2>4, RecordingFacts DEF WrittenInv, Recording
  <2>6. "saving" \in PlacesOf(act[a].op) /\ act[a].op # "delete" /\ act[a].at \notin {"manifest", "dispatching"}
    BY <1>1, RecordingFacts DEF PlacesOf, Saves
  <2>7. Touches(a) /\ UNCHANGED <<known, gone, ended>> /\ "teams" \in Stores
    BY <1>1, <1>3, RecordingFacts DEF MakesRow, Stores
  <2> QED
    BY <1>3, <2>1, <2>2, <2>3, <2>5, <2>6, <2>7, SaveKeeps
<1> QED
  BY <1>1, <1>2, <1>3, KeepsRowKeeps, NoRowKeeps DEF RecordTeam

(* The writing is over.                                                     *)
LEMMA SavedFacts ==
  ASSUME HistoryInv, NEW a \in Actors, WriteIsOver(a)
  PROVE  /\ HistoryTypeOK /\ WrittenInv /\ Alone(a) /\ Touches(a)
         /\ UNCHANGED <<queue, manifest, alive>>
         /\ act[a].op \in {"create", "continue", "terminate", "delete", "list", "event"}
         /\ act[a].restored => act[a].op = "continue"
         /\ act[a].at = "saved" /\ act[a].op = "create" => HasManifest(act[a]) /\ HasRow(act[a])
         /\ act[a].at = "saved" /\ act[a].restored => HasManifest(act[a]) /\ HasRow(act[a])
<1>1. HistoryTypeOK /\ WrittenInv /\ Placed(act[a])
  BY ActorFacts
<1>2. Alone(a)
  BY <1>1, AloneFacts DEF WriteIsOver, Quiet
<1>3. Touches(a)
  BY <1>1, UntouchedFacts DEF WriteIsOver
<1> QED
  BY <1>1, <1>2, <1>3, KindFacts DEF Placed, HasManifest, HasRow, WriteIsOver

(* an operation whose write is done succeeds                                *)
LEMMA SavedSucceeds ==
  ASSUME HistoryInv, NEW a \in Actors, WriteIsOver(a), act[a].at = "saved", Succeeds(a)
  PROVE  HistoryInv'
BY SavedFacts, SucceedsKeeps

(* one whose write failed fails                                             *)
LEMMA SavedFails ==
  ASSUME HistoryInv, NEW a \in Actors, WriteIsOver(a), Fails(a)
  PROVE  HistoryInv'
BY SavedFacts, FailsKeeps

(* the write of an agent's row is over                                      *)
LEMMA SavedRunKeeps ==
  ASSUME HistoryInv, NEW a \in Actors, SavedRun(a)
  PROVE  HistoryInv'
<1>1. WriteIsOver(a)
  BY DEF SavedRun
<1>2. CASE act[a].op = "create" /\ act[a].at = "saved" /\ Move(a, "posting") /\ UNCHANGED <<known, gone, ended>>
  <2>1. act[a].run \in AgentRuns /\ act[a].run # None
    BY <1>2, RunFacts, ActorFacts, RunsHaveKinds DEF SavedRun
  <2>2. Fits(a, "posting", act[a].status, act[a].restored)
    BY <1>2, <2>1, ActorFacts DEF Fits, PlacesOf, Placed
  <2>3. PICK o : o = [act[a] EXCEPT !.at = "posting"]
    OBVIOUS
  <2>4. act[a].company # "deletion" =>
          manifest'[act[a].run] # "none" /\ (index[act[a].run] # None \/ act[a].run \in lost')
    BY <1>1, <1>2, <2>1, SavedFacts DEF WrittenInv, Alone
  <2> QED
    BY <1>1, <1>2, <2>2, <2>3, <2>4, SavedFacts, MoveKeeps DEF Places
<1> QED
  BY <1>1, <1>2, SavedSucceeds, SavedFails DEF SavedRun

(* That of a team's is over: a new team goes on to be addressed.            *)
LEMMA SavedTeamKeeps ==
  ASSUME HistoryInv, NEW a \in Actors, SavedTeam(a)
  PROVE  HistoryInv'
<1>1. WriteIsOver(a)
  BY DEF SavedTeam
<1>2. CASE /\ act[a].op = "create" /\ act' = [act EXCEPT ![a].at = "dispatching", ![a].op = "continue"]
           /\ known' = IF act[a].at = "saved" /\ act[a].company # "deletion" THEN known \cup {act[a].run} ELSE known
           /\ UNCHANGED <<gone, ended>>
  <2>1. PICK o : o = [act[a] EXCEPT !.at = "dispatching", !.op = "continue"]
    OBVIOUS
  <2>2. /\ o \in Operation /\ o.at = "dispatching" /\ o.op = "continue" /\ o.run = act[a].run /\ o.kind = act[a].kind
        /\ o.status = act[a].status /\ o.restored = act[a].restored /\ o.company = act[a].company
    BY <2>1, ActorFacts DEF Operation, Ops, Places
  <2>3. act' = [act EXCEPT ![a] = o]
    BY <1>2, <2>1
  <2>4. act[a].run \in TeamRuns /\ act[a].run # None /\ ~act[a].restored
    BY <1>2, RunFacts, ActorFacts DEF SavedTeam, Placed
  <2>5. Placed(o)'
    BY <1>1, <1>2, <2>2, <2>4, ActorFacts DEF Placed, PlacesOf, WriteIsOver, Quiet
  <2>6. Goes(a, o)
    BY <1>1, <1>2, <2>2, <2>3, <2>5, SavedFacts DEF Goes, Alone
  <2>7. act[a].at = "saved" /\ act[a].company # "deletion" =>
          manifest[act[a].run] # "none" /\ (index[act[a].run] # None \/ act[a].run \in lost)
    BY <1>1, <1>2, <2>4, SavedFacts DEF WrittenInv
  <2>8. Leaves(a, o)
    BY <1>1, <1>2, <2>2, <2>4, <2>7, SavedFacts DEF Leaves, Undisturbed, HasManifest, HasRow, Alone
  <2>9. Asks(a, o) /\ Touches(a)
    BY <1>1, SavedFacts DEF Asks
  <2> QED
    BY <2>6, <2>8, <2>9, MovesKeep DEF Moves
<1> QED
  BY <1>1, <1>2, SavedSucceeds, SavedFails DEF SavedTeam

(* Every step of an operation under way keeps everything.                   *)
LEMMA ProceedKeeps ==
  ASSUME HistoryInv, NEW a \in Actors, Proceed(a)
  PROVE  HistoryInv'
<1>1. CASE EndRun(a)
  BY <1>1, EndsKeeps, RunsHaveKinds DEF EndRun, Stores
<1>2. CASE EndTeam(a)
  BY <1>2, EndsKeeps, RunsHaveKinds DEF EndTeam, Stores
<1>3. CASE RemoveRun(a)
  BY <1>3, RemovesKeeps, RunsHaveKinds DEF RemoveRun, Stores
<1>4. CASE RemoveTeam(a)
  BY <1>4, RemovesKeeps, RunsHaveKinds DEF RemoveTeam, Stores
<1>5. CASE RebuildRuns(a)
  BY <1>5, RebuildsKeeps DEF RebuildRuns, Stores
<1>6. CASE RebuildTeams(a)
  BY <1>6, RebuildsKeeps DEF RebuildTeams, Stores
<1>7. CASE ReadManifest(a) \/ ReadTeamManifest(a)
  BY <1>7, NeedsManifestKeeps DEF ReadManifest, ReadTeamManifest
<1> QED
  BY <1>1, <1>2, <1>3, <1>4, <1>5, <1>6, <1>7, RestoreKeeps, BecomesIdleKeeps, TeamBecomesIdleKeeps, WriteManifestKeeps,
     WriteTeamManifestKeeps, CompleteManifestKeeps, NameKeeps, PostKeeps, DispatchKeeps, UndoKeeps, ReadRowsKeeps,
     RecordRunKeeps, RecordTeamKeeps, SavedRunKeeps, SavedTeamKeeps DEF Proceed

-----------------------------------------------------------------------------
(* Operations that begin, and events                                        *)

(* an operation goes on as it was, in no less company                       *)
Stays(o, p) ==
  /\ p.op = o.op /\ p.run = o.run /\ p.kind = o.kind /\ p.at = o.at /\ p.status = o.status /\ p.restored = o.restored
  /\ p.company = "nobody" => o.company = "nobody"
  /\ p.company \in {"nobody", "events"} => o.company \in {"nobody", "events"}
  /\ o.company = "deletion" => p.company = "deletion"

(* one that begins has done nothing yet                                     *)
Fresh(o) ==
  /\ Placed(o)'
  /\ o.at \notin {"saving", "saved"} /\ ~HasManifest(o) /\ ~HasRow(o)
  /\ o.run \in known' => o.op # "delete"
  /\ o.op = "delete" => o.run \notin alive
  /\ o.run \in gone' => \/ o.op \in {"delete", "event"}
                        \/ o.op = "continue" /\ o.at \in {"manifest", "dispatching"} /\ ~o.restored
  /\ o.run \notin ended'

(* the actors of A, which were free, are given what new says                *)
Comes(A, new) ==
  /\ A \subseteq Actors /\ \A a \in A : act[a].at = "idle" /\ act'[a] = new[a] /\ Fresh(new[a])
  /\ act' \in [Actors -> Operation]
  /\ \A b \in Actors \ A : Stays(act[b], act'[b])
  /\ \/ UNCHANGED queue
     \/ \E a \in A, s \in Stores : \E t \in TaskKind :
          /\ Enqueue(s, t) /\ t.who = a /\ t.at = "queued" /\ TaskOf(s, t, new[a])'
  /\ UNCHANGED <<index, manifest, alive, faults, lost>>
  /\ made \subseteq made' /\ made' \subseteq Runs
  /\ watched' \in [Sessions -> made' \cup {None}] /\ inbox' \in [Sessions -> Nat]
  /\ calls' \in 0 .. MaxCalls /\ events' \in 0 .. MaxEvents
  /\ known' \subseteq known /\ gone' \subseteq gone /\ ended' \subseteq ended

(* the tasks by then                                                        *)
LEMMA ComesQueue ==
  ASSUME HistoryInv, NEW A, NEW new, Comes(A, new)
  PROVE  queue' \in [Stores -> Seq(TaskKind)] /\ QueueInv'
<1>1. HistoryTypeOK /\ TasksInv /\ OneTaskEach
  BY DEF HistoryInv, QueueInv
<1>2. ASSUME NEW s \in Stores, NEW i \in DOMAIN queue[s], NEW t, t = queue[s][i]
      PROVE  /\ Sound(s, t)' /\ (t.at = "read" => i = 1)
             /\ t.who \in Actors \ A
  <2>1. Sound(s, t) /\ (t.at = "read" => i = 1) /\ t \in TaskKind
    BY <1>1, <1>2 DEF TasksInv, HistoryTypeOK
  <2>2. t.who \in Actors /\ act[t.who].at \in {"waiting", "saving"}
    BY <2>1 DEF Sound, TaskOf, TaskKind
  <2>3. t.who \notin A
    BY <2>2 DEF Comes
  <2>4. Stays(act[t.who], act'[t.who])
    BY <2>2, <2>3 DEF Comes
  <2> QED
    BY <2>1, <2>2, <2>3, <2>4 DEF Sound, TaskOf, SeenByTask, Comes, Stays
<1>3. CASE UNCHANGED queue
  <2>1. TasksInv'
    BY <1>2, <1>3 DEF TasksInv
  <2> QED
    BY <1>1, <1>3, <2>1 DEF QueueInv, OneTaskEach, HistoryTypeOK
<1>4. ASSUME NEW a \in A, NEW s \in Stores, NEW t \in TaskKind,
             Enqueue(s, t), t.who = a, t.at = "queued", TaskOf(s, t, new[a])'
      PROVE  queue' \in [Stores -> Seq(TaskKind)] /\ QueueInv'
  <2>1. /\ queue' \in [Stores -> Seq(TaskKind)]
        /\ \A x \in Stores : \A i \in DOMAIN queue'[x] :
             \/ i \in DOMAIN queue[x] /\ queue'[x][i] = queue[x][i]
             \/ x = s /\ i = Len(queue[s]) + 1 /\ queue'[x][i] = t
    BY <1>1, <1>4, EnqueueFacts
  <2>2. act'[t.who] = new[a]
    BY <1>4 DEF Comes
  <2>3. Sound(s, t)'
    BY <1>4, <2>2 DEF Sound, SeenByTask, TaskOf
  <2>4. ASSUME NEW x \in Stores, NEW i \in DOMAIN queue'[x], NEW u, u = queue'[x][i]
        PROVE  Sound(x, u)' /\ (u.at = "read" => i = 1)
    BY <1>2, <1>4, <2>1, <2>3, <2>4
  <2>5. TasksInv'
    BY <2>4 DEF TasksInv
  <2>6. \A x \in Stores : \A i \in DOMAIN queue[x] : queue[x][i].who # t.who
    BY <1>2, <1>4
  <2>7. OneTaskEach'
    BY <1>1, <1>4, <2>1, <2>6 DEF OneTaskEach
  <2> QED
    BY <2>1, <2>5, <2>7 DEF QueueInv
<1> QED
  BY <1>3, <1>4 DEF Comes

(* the beginning of an operation keeps the invariant                        *)
LEMMA ComesKeep ==
  ASSUME HistoryInv, NEW A, NEW new, Comes(A, new), CompanyInv'
  PROVE  HistoryInv'
<1>1. HistoryTypeOK /\ PlacesInv /\ WrittenInv /\ KnownInv /\ GoneInv /\ EndedInv
  BY DEF HistoryInv
<1>2. HistoryTypeOK'
  BY <1>1, ComesQueue DEF HistoryTypeOK, Comes
<1>3. ASSUME NEW b \in Actors, NEW o, NEW p, o = act[b], p = act'[b]
      PROVE  (b \in A /\ o.at = "idle" /\ p = new[b] /\ Fresh(p)) \/ Stays(o, p)
  BY <1>3 DEF Comes
<1>4. PlacesInv'
  <2> SUFFICES ASSUME NEW b \in Actors, NEW p, p = act'[b] PROVE Placed(p)'
    BY DEF PlacesInv, Placed
  <2>1. CASE Fresh(p)
    BY <2>1 DEF Fresh
  <2>2. CASE Stays(act[b], p)
    BY <1>1, <2>2 DEF PlacesInv, Placed, Stays, Comes
  <2> QED
    BY <1>3, <2>1, <2>2
<1>5. WrittenInv'
  <2>1. ASSUME NEW b \in Actors, NEW p, p = act'[b], p.company # "deletion", p.run # None
        PROVE  /\ HasManifest(p) => manifest[p.run] # "none"
               /\ HasRow(p) => index[p.run] # None \/ p.run \in lost
    <3>1. CASE Fresh(p)
      BY <3>1 DEF Fresh
    <3>2. CASE Stays(act[b], p)
      BY <1>1, <2>1, <3>2 DEF WrittenInv, Stays, HasManifest, HasRow
    <3> QED
      BY <1>3, <2>1, <3>1, <3>2
  <2> QED
    BY <1>1, <2>1 DEF WrittenInv, Comes, HasManifest, HasRow
<1>6. KnownInv'
  <2>1. ASSUME NEW b \in Actors, NEW p, p = act'[b], p.run \in known' PROVE p.op # "delete"
    <3>1. CASE Fresh(p)
      BY <2>1, <3>1 DEF Fresh
    <3>2. CASE Stays(act[b], p)
      BY <1>1, <2>1, <3>2 DEF KnownInv, Stays, Comes
    <3> QED
      BY <1>3, <2>1, <3>1, <3>2
  <2> QED
    BY <1>1, <2>1 DEF KnownInv, ListedUntilDeleted, Comes
<1>7. GoneInv'
  <2>1. ASSUME NEW b \in Actors, NEW p, p = act'[b], Undisturbed(p)
        PROVE  /\ p.run \notin alive
               /\ p.at \in {"saving", "saved"} => manifest[p.run] = "none"
               /\ p.at = "saved" => Away(p.run)
    <3>1. CASE Fresh(p)
      BY <2>1, <3>1 DEF Fresh, Undisturbed
    <3>2. CASE Stays(act[b], p)
      BY <1>1, <2>1, <3>2 DEF GoneInv, Stays, Undisturbed
    <3> QED
      BY <1>3, <2>1, <3>1, <3>2
  <2>2. ASSUME NEW b \in Actors, NEW p, p = act'[b], p.run \in gone'
        PROVE  \/ p.op \in {"delete", "event"}
               \/ p.op = "continue" /\ p.at \in {"manifest", "dispatching"} /\ ~p.restored
    <3>1. CASE Fresh(p)
      BY <2>2, <3>1 DEF Fresh
    <3>2. CASE Stays(act[b], p)
      BY <1>1, <2>2, <3>2 DEF GoneInv, Stays, Comes
    <3> QED
      BY <1>3, <2>2, <3>1, <3>2
  <2> QED
    BY <1>1, <2>1, <2>2 DEF GoneInv, Away, Undisturbed, Comes
<1>8. EndedInv'
  <2>1. ASSUME NEW b \in Actors, NEW p, p = act'[b], p.op = "terminate", p.company = "nobody", p.at = "saved"
        PROVE  AtRest(p.run)
    <3>1. CASE Fresh(p)
      BY <2>1, <3>1 DEF Fresh
    <3>2. CASE Stays(act[b], p)
      BY <1>1, <2>1, <3>2 DEF EndedInv, Stays
    <3> QED
      BY <1>3, <2>1, <3>1, <3>2
  <2>2. ASSUME NEW b \in Actors, NEW p, p = act'[b] PROVE p.run \notin ended'
    <3>1. CASE Fresh(p)
      BY <3>1 DEF Fresh
    <3>2. CASE Stays(act[b], p)
      BY <1>1, <2>2, <3>2 DEF EndedInv, Stays, Comes
    <3> QED
      BY <1>3, <2>2, <3>1, <3>2
  <2> QED
    BY <1>1, <2>1, <2>2 DEF EndedInv, AtRest, Comes
<1> QED
  BY <1>2, <1>4, <1>5, <1>6, <1>7, <1>8, ComesQueue DEF HistoryInv

(* the company that an operation of a finds, and that the others are in then *)
Met(a, r) ==
  IF \E b \in Actors \ {a} : act[b].run = r /\ act[b].op = "delete" THEN "deletion"
  ELSE IF Busy(r, a) THEN "calls"
  ELSE IF \E b \in Actors \ {a} : act[b].run = r \/ r \in {watched[s] : s \in Sessions} THEN "events"
  ELSE "nobody"
Joined(b, op) ==
  IF op = "delete" \/ act[b].company = "deletion" THEN "deletion"
  ELSE IF op # "event" \/ act[b].company = "calls" THEN "calls"
  ELSE "events"

(* the company an operation finds                                           *)
LEMMA MetFacts ==
  ASSUME NEW a \in Actors, NEW r \in Runs
  PROVE  /\ Met(a, r) \in Companies
         /\ \A b \in Actors \ {a} : act[b].run = r =>
              /\ Met(a, r) # "nobody"
              /\ act[b].op # "event" /\ act[b].at # "idle" => Met(a, r) \in {"calls", "deletion"}
              /\ act[b].op = "delete" => Met(a, r) = "deletion"
<1>1. PICK dying \in BOOLEAN, met \in BOOLEAN, seen \in BOOLEAN :
        /\ dying <=> \E b \in Actors \ {a} : act[b].run = r /\ act[b].op = "delete"
        /\ met <=> Busy(r, a)
        /\ seen <=> \E b \in Actors \ {a} : act[b].run = r \/ r \in {watched[s] : s \in Sessions}
  OBVIOUS
<1>2. Met(a, r) = IF dying THEN "deletion" ELSE IF met THEN "calls" ELSE IF seen THEN "events" ELSE "nobody"
  BY <1>1 DEF Met
<1>3. \A b \in Actors \ {a} : act[b].run = r =>
        seen /\ (act[b].op # "event" /\ act[b].at # "idle" => met) /\ (act[b].op = "delete" => dying)
  BY <1>1 DEF Busy
<1> QED
  BY <1>2, <1>3 DEF Companies

(* what an operation's company becomes                                      *)
LEMMA JoinedFacts ==
  ASSUME NEW b \in Actors, act[b].company \in Companies, NEW op
  PROVE  /\ Joined(b, op) \in Companies \ {"nobody"}
         /\ Joined(b, op) = "events" => act[b].company \in {"nobody", "events"} /\ op = "event"
         /\ act[b].company = "deletion" \/ op = "delete" => Joined(b, op) = "deletion"
BY DEF Joined, Companies

(* the operations once one of them begins                                   *)
LEMMA TakeFacts ==
  ASSUME HistoryInv, NEW a \in Actors, act[a].at = "idle",
         NEW op \in Ops \ {"none", "list"}, NEW r \in Runs, NEW at \in Places, NEW status \in Row,
         Take(a, op, r, at, status)
  PROVE  /\ act' \in [Actors -> Operation]
         /\ \A b \in Actors \ {a} : Stays(act[b], act'[b])
         /\ CompanyInv'
         /\ act'[a].op = op /\ act'[a].run = r /\ act'[a].kind = None /\ act'[a].at = at
         /\ act'[a].status = status /\ act'[a].restored = FALSE
<1>1. act \in [Actors -> Operation] /\ PlacesInv /\ CompanyInv
  BY DEF HistoryInv, HistoryTypeOK
<1>2. act[a].run = None /\ r # None
  BY <1>1, ActorFacts, RunHistoryAssumption DEF PlacesOf, Placed, Ops, Saves
<1>3. \A b \in Actors : act[b].run # None => act[b].at # "idle"
  BY ActorFacts DEF PlacesOf, Placed, Ops, Saves
<1>4. act' = [b \in Actors |->
                CASE b = a -> [Nobody EXCEPT !.op = op, !.run = r, !.at = at, !.status = status, !.company = Met(a, r)]
                  [] b # a /\ act[b].run = r -> [act[b] EXCEPT !.company = Joined(b, op)]
                  [] OTHER -> act[b]]
  BY DEF Take, Met, Joined
<1>5. PICK met : met = Met(a, r)
  OBVIOUS
<1>6. /\ act'[a] \in Operation /\ act'[a].op = op /\ act'[a].run = r /\ act'[a].kind = None /\ act'[a].at = at
      /\ act'[a].status = status /\ act'[a].restored = FALSE /\ act'[a].company = met
  <2>1. act'[a] = [Nobody EXCEPT !.op = op, !.run = r, !.at = at, !.status = status, !.company = met]
    BY <1>4, <1>5
  <2>2. met \in Companies
    BY <1>5, MetFacts
  <2> QED
    BY <2>1, <2>2 DEF Nobody, Operation
<1>7. ASSUME NEW b \in Actors \ {a}
      PROVE  /\ act'[b] \in Operation
             /\ act'[b].op = act[b].op /\ act'[b].run = act[b].run /\ act'[b].kind = act[b].kind /\ act'[b].at = act[b].at
             /\ act'[b].status = act[b].status /\ act'[b].restored = act[b].restored
             /\ act'[b].company = IF act[b].run = r THEN Joined(b, op) ELSE act[b].company
  <2>1. act[b] \in Operation /\ Joined(b, op) \in Companies
    BY <1>1, JoinedFacts DEF Operation
  <2>2. act'[b] = IF act[b].run = r THEN [act[b] EXCEPT !.company = Joined(b, op)] ELSE act[b]
    BY <1>4
  <2> QED
    BY <2>1, <2>2 DEF Operation
<1>8. \A b \in Actors :
        /\ Joined(b, op) # "nobody"
        /\ Joined(b, op) = "events" => act[b].company \in {"nobody", "events"} /\ op = "event"
        /\ act[b].company = "deletion" \/ op = "delete" => Joined(b, op) = "deletion"
        /\ Joined(b, op) \in Companies /\ act[b].company \in Companies
  BY <1>1, JoinedFacts DEF Operation
<1>9. \A b \in Actors \ {a} : Stays(act[b], act'[b])
  BY <1>7, <1>8 DEF Stays
<1>10. act' \in [Actors -> Operation]
  <2>1. \A b \in Actors : act'[b] \in Operation
    BY <1>6, <1>7
  <2> QED
    BY <1>4, <2>1
<1>11. CompanyInv'
  <2> SUFFICES ASSUME NEW b \in Actors, NEW c \in Actors, b # c, act'[b].run # None, act'[c].run = act'[b].run
               PROVE  /\ act'[b].company # "nobody"
                      /\ act'[c].op # "event" => act'[b].company \in {"calls", "deletion"}
                      /\ act'[c].op = "delete" => act'[b].company = "deletion"
    BY DEF CompanyInv
  <2>1. CASE b = a
    <3>1. c # a /\ act[c].run = r /\ act[c].op = act'[c].op /\ act[c].at # "idle"
      BY <1>2, <1>3, <1>6, <1>7, <2>1
    <3> QED
      BY <1>5, <1>6, <2>1, <3>1, MetFacts
  <2>2. CASE b # a /\ c = a
    <3>1. act'[b].company = Joined(b, op) /\ act'[c].op = op
      BY <1>6, <1>7, <2>2
    <3> QED
      BY <1>8, <3>1 DEF Companies
  <2>3. CASE b # a /\ c # a
    <3>1. act[b].run # None /\ act[c].run = act[b].run /\ act[c].op = act'[c].op
      BY <1>7, <2>3
    <3>2. /\ act[b].company # "nobody"
          /\ act[c].op # "event" => act[b].company \in {"calls", "deletion"}
          /\ act[c].op = "delete" => act[b].company = "deletion"
      BY <1>1, <3>1, <2>3 DEF CompanyInv
    <3>3. act'[b].company = act[b].company \/ act'[b].company = Joined(b, op)
      BY <1>7, <2>3
    <3> QED
      BY <1>8, <3>1, <3>2, <3>3 DEF Companies
  <2> QED
    BY <2>1, <2>2, <2>3
<1> QED
  BY <1>6, <1>9, <1>10, <1>11

(* An operation begins: those on the same run have company from now on.     *)
LEMMA BeginsKeeps ==
  ASSUME HistoryInv, NEW a \in Actors, act[a].at = "idle",
         NEW op \in Ops \ {"none", "list"}, NEW r \in Runs, NEW status \in Row,
         NEW at \in {"restoring", "posting", "manifest", "dispatching", "ending", "removing", "waiting"},
         Take(a, op, r, at, status), at \in PlacesOf(op),
         op = "create" => at = "restoring", op = "send" \/ at = "posting" => r \in AgentRuns,
         op = "continue" => at # "restoring" /\ (at \in {"dispatching", "waiting"} => r \in TeamRuns),
         op = "delete" => r \notin known' /\ r \notin alive,
         r \in gone' => op \in {"delete", "event"} \/ (op = "continue" /\ at \in {"manifest", "dispatching"}),
         r \notin ended', r \in made', made \subseteq made', made' \subseteq Runs,
         UNCHANGED queue \/ (at = "waiting" /\ \E s \in Stores : AwaitWrites(a, s)),
         UNCHANGED <<index, manifest, alive, faults, lost, watched>>, inbox' \in [Sessions -> Nat],
         calls' \in 0 .. MaxCalls, events' \in 0 .. MaxEvents,
         known' \subseteq known, gone' \subseteq gone, ended' \subseteq ended
  PROVE  HistoryInv'
<1>1. HistoryTypeOK /\ at \in Places
  BY DEF HistoryInv, Places
<1>2. PICK o : o = act'[a]
  OBVIOUS
<1>3. /\ act' \in [Actors -> Operation]
      /\ \A b \in Actors \ {a} : Stays(act[b], act'[b])
      /\ CompanyInv'
      /\ o.op = op /\ o.run = r /\ o.kind = None /\ o.at = at /\ o.status = status /\ o.restored = FALSE
  BY <1>1, <1>2, TakeFacts
<1>4. r # None
  BY RunHistoryAssumption
<1>5. Placed(o)'
  BY <1>3, <1>4 DEF Placed, PlacesOf, Ops, Saves
<1>6. o.at \notin {"saving", "saved"} /\ ~HasManifest(o) /\ ~HasRow(o)
  BY <1>3 DEF HasManifest, HasRow
<1>7. Fresh(o)
  BY <1>3, <1>5, <1>6 DEF Fresh
<1>8. PICK new : new = [x \in {a} |-> o]
  OBVIOUS
<1>9. new[a] = o
  BY <1>8
<1>10. ASSUME NEW s \in Stores, AwaitWrites(a, s), at = "waiting"
       PROVE  \E t \in TaskKind : Enqueue(s, t) /\ t.who = a /\ t.at = "queued" /\ TaskOf(s, t, o)'
  <2>1. PICK t : t = Task(a, "reader", None, None)
    OBVIOUS
  <2>2. t \in TaskKind /\ t.who = a /\ t.at = "queued" /\ t.what = "reader"
    BY <2>1, TaskIsTask DEF Task, Row
  <2>3. TaskOf(s, t, o)'
    BY <1>3, <1>10, <2>2 DEF TaskOf
  <2> QED
    BY <1>10, <2>1, <2>2, <2>3 DEF AwaitWrites
<1>11. \/ UNCHANGED queue
       \/ \E s \in Stores : \E t \in TaskKind : Enqueue(s, t) /\ t.who = a /\ t.at = "queued" /\ TaskOf(s, t, o)'
  BY <1>10
<1>12. watched' \in [Sessions -> made' \cup {None}]
  BY <1>1 DEF HistoryTypeOK
<1>13. Comes({a}, new)
  BY <1>2, <1>3, <1>7, <1>9, <1>11, <1>12 DEF Comes
<1> QED
  BY <1>3, <1>13, ComesKeep

(* what a call has to do with the histories of its run                      *)
LEMMA BeginKeeps ==
  ASSUME HistoryInv, NEW a \in Actors,
         NEW op \in {"create", "send", "continue", "terminate", "delete"}, NEW r \in Runs,
         NEW at \in {"restoring", "posting", "manifest", "dispatching", "ending", "removing"},
         Begin(a, op, r, at), at \in PlacesOf(op), Unread,
         op = "create" => at = "restoring", op = "send" \/ at = "posting" => r \in AgentRuns,
         op = "continue" => at # "restoring" /\ (at = "dispatching" => r \in TeamRuns),
         op = "delete" => r \notin alive /\ r \notin known',
         r \in made \/ op \in {"create", "send"}, r \notin made => made' = made \cup {r}, r \in made => made' = made,
         at \in {"posting", "ending"} => r \in alive \/ r \notin made,
         op = "send" => r \in alive \/ r \notin made, known' \subseteq known
  PROVE  HistoryInv'
<1>1. HistoryTypeOK /\ GoneInv
  BY DEF HistoryInv
<1>2. \A x \in gone : x \in made /\ x \notin alive
  BY <1>1 DEF HistoryTypeOK, GoneInv
<1>3. /\ act[a].at = "idle" /\ Take(a, op, r, at, None)
      /\ calls' \in 0 .. MaxCalls /\ events' = events
      /\ gone' = gone \ (IF op = "create" THEN {r} ELSE {}) /\ ended' = ended \ {r}
  BY <1>1, RunHistoryAssumption DEF Begin, Unread, HistoryTypeOK
<1>4. r \in gone' => op = "delete" \/ (op = "continue" /\ at \in {"manifest", "dispatching"})
  BY <1>2, <1>3 DEF PlacesOf, Saves
<1>5. made \subseteq made' /\ made' \subseteq Runs /\ r \in made'
  BY <1>1 DEF HistoryTypeOK
<1>6. None \in Row /\ op \in Ops \ {"none", "list"}
  BY DEF Row, Ops
<1>7. inbox' \in [Sessions -> Nat] /\ events' \in 0 .. MaxEvents
  BY <1>1, <1>3 DEF HistoryTypeOK, Unread
<1>8. UNCHANGED <<index, manifest, alive, faults, lost, watched, queue>>
  BY DEF Unread
<1>9. gone' \subseteq gone /\ ended' \subseteq ended /\ r \notin ended'
  BY <1>3
<1>10. at \in {"restoring", "posting", "manifest", "dispatching", "ending", "removing", "waiting"} /\ at # "waiting"
  OBVIOUS
<1> QED
  BY <1>3, <1>4, <1>5, <1>6, <1>7, <1>8, <1>9, <1>10, BeginsKeeps

(* a call that makes a run                                                  *)
LEMMA OpensKeeps ==
  ASSUME HistoryInv, NEW a \in Actors, NEW op \in {"create", "send"}, NEW r \in Runs, r \notin made,
         Opens(a, op, r), op = "send" => r \in AgentRuns
  PROVE  HistoryInv'
BY BeginKeeps DEF Opens, PlacesOf

(* a call about a run that was made                                         *)
LEMMA TurnsKeeps ==
  ASSUME HistoryInv, NEW a \in Actors, NEW op \in {"send", "continue", "terminate"}, NEW r \in made,
         NEW at \in {"posting", "manifest", "dispatching", "ending"},
         Turns(a, op, r, at), at \in PlacesOf(op), at = "posting" => r \in AgentRuns, at \in {"posting", "ending"} => r \in alive,
         at = "dispatching" => r \in TeamRuns
  PROVE  HistoryInv'
<1>1. r \in Runs
  BY DEF HistoryInv, HistoryTypeOK
<1>2. Begin(a, op, r, at) /\ made' = made /\ known' \subseteq known /\ Unread
  BY DEF Turns
<1>3. op = "send" => at = "posting"
  BY DEF PlacesOf
<1> QED
  BY <1>1, <1>2, <1>3, BeginKeeps

(* a deletion begins                                                        *)
LEMMA DeletesKeeps ==
  ASSUME HistoryInv, NEW a \in Actors, NEW r \in made, Deletes(a, r)
  PROVE  HistoryInv'
<1>1. r \in Runs
  BY DEF HistoryInv, HistoryTypeOK
<1> QED
  BY <1>1, BeginKeeps DEF Deletes, PlacesOf

(* a listing begins: it waits for the writes before it                      *)
LEMMA ListKeeps ==
  ASSUME HistoryInv, NEW a \in Actors, NEW kind \in {"agent", "team"}, List(a, kind)
  PROVE  HistoryInv'
<1>1. HistoryTypeOK /\ CompanyInv
  BY DEF HistoryInv
<1>2. PICK o : o = [Nobody EXCEPT !.op = "list", !.kind = kind, !.at = "waiting"]
  OBVIOUS
<1>3. /\ o \in Operation /\ o.op = "list" /\ o.kind = kind /\ o.at = "waiting" /\ o.run = None /\ o.status = None
      /\ o.restored = FALSE
  BY <1>2 DEF Nobody, Operation, Ops, Places, Row, Companies
<1>4. act' = [act EXCEPT ![a] = o]
  BY <1>2 DEF List
<1>5. act'[a] = o /\ (\A b \in Actors \ {a} : act'[b] = act[b]) /\ act' \in [Actors -> Operation]
  BY <1>1, <1>3, <1>4 DEF HistoryTypeOK
<1>6. \A b \in Actors \ {a} : Stays(act[b], act'[b])
  BY <1>5 DEF Stays
<1>7. CompanyInv'
  BY <1>1, <1>3, <1>5 DEF CompanyInv
<1>8. PICK s \in Stores : AwaitWrites(a, s)
  BY DEF List, Stores
<1>9. PICK t : t = Task(a, "reader", None, None)
  OBVIOUS
<1>10. t \in TaskKind /\ t.who = a /\ t.at = "queued" /\ t.what = "reader" /\ Enqueue(s, t)
  BY <1>8, <1>9, TaskIsTask DEF Task, Row, AwaitWrites
<1>11. TaskOf(s, t, o)'
  BY <1>3, <1>10 DEF TaskOf
<1>12. Placed(o)'
  <2>1. kind # None
    BY RunHistoryAssumption
  <2> QED
    BY <1>3, <2>1 DEF Placed, PlacesOf
<1>13. Fresh(o)
  <2>1. None \notin known' /\ None \notin gone' /\ None \notin ended'
    BY <1>1, RunHistoryAssumption DEF HistoryTypeOK, List, history
  <2> QED
    BY <1>3, <1>12, <2>1 DEF Fresh, HasManifest, HasRow
<1>14. PICK new : new = [x \in {a} |-> o]
  OBVIOUS
<1>15. new[a] = o
  BY <1>14
<1>16. act[a].at = "idle" /\ calls' \in 0 .. MaxCalls
  BY <1>1, RunHistoryAssumption DEF List, HistoryTypeOK
<1>17. Comes({a}, new)
  BY <1>1, <1>5, <1>6, <1>10, <1>11, <1>13, <1>15, <1>16 DEF Comes, List, history, HistoryTypeOK
<1> QED
  BY <1>7, <1>17, ComesKeep

(* every call                                                               *)
LEMMA CallKeeps ==
  ASSUME HistoryInv, NEW a \in Callers, Call(a)
  PROVE  HistoryInv'
<1>1. a \in Actors /\ made \subseteq Runs /\ alive \subseteq made
  BY DEF Actors, HistoryInv, HistoryTypeOK
<1>2. CASE CreateRun(a) \/ CreateTeam(a)
  BY <1>1, <1>2, OpensKeeps, RunsHaveKinds DEF CreateRun, CreateTeam
<1>3. CASE SendInput(a)
  <2>1. PICK r \in AgentRuns : \/ r \notin made /\ Opens(a, "send", r)
                               \/ r \in alive /\ Turns(a, "send", r, "posting")
    BY <1>3 DEF SendInput
  <2>2. CASE r \notin made /\ Opens(a, "send", r)
    BY <1>1, <2>1, <2>2, OpensKeeps, RunsHaveKinds
  <2>3. CASE r \in alive /\ Turns(a, "send", r, "posting")
    BY <1>1, <2>1, <2>3, TurnsKeeps DEF PlacesOf
  <2> QED
    BY <2>1, <2>2, <2>3
<1>4. CASE ContinueRun(a)
  <2>1. PICK r \in made \cap AgentRuns : Turns(a, "continue", r, IF r \in alive THEN "posting" ELSE "manifest")
    BY <1>4 DEF ContinueRun
  <2>2. CASE r \in alive
    BY <1>1, <2>1, <2>2, TurnsKeeps DEF PlacesOf
  <2>3. CASE r \notin alive
    BY <1>1, <2>1, <2>3, TurnsKeeps DEF PlacesOf
  <2> QED
    BY <2>2, <2>3
<1>5. CASE SendToTeam(a)
  <2>1. PICK r \in made \cap TeamRuns, at \in {"manifest", "dispatching"} : Turns(a, "continue", r, at)
    BY <1>5 DEF SendToTeam
  <2> QED
    BY <1>1, <2>1, TurnsKeeps DEF PlacesOf
<1>6. CASE TerminateRun(a) \/ TerminateTeam(a)
  <2>1. PICK r \in alive : Turns(a, "terminate", r, "ending")
    BY <1>6 DEF TerminateRun, TerminateTeam
  <2> QED
    BY <1>1, <2>1, TurnsKeeps DEF PlacesOf
<1>7. CASE DeleteRun(a) \/ DeleteTeam(a)
  BY <1>1, <1>7, DeletesKeeps DEF DeleteRun, DeleteTeam
<1>8. CASE List(a, "agent") \/ List(a, "team")
  BY <1>1, <1>8, ListKeeps
<1> QED
  BY <1>2, <1>3, <1>4, <1>5, <1>6, <1>7, <1>8 DEF Call

(* a stream takes the next event and records it                             *)
LEMMA TakeEventKeeps ==
  ASSUME HistoryInv, NEW s \in Sessions, TakeEvent(s)
  PROVE  HistoryInv'
<1>1. HistoryTypeOK /\ s \in Actors
  BY DEF HistoryInv, Actors
<1>2. PICK r, status : r = watched[s] /\ status \in Statuses /\ Take(s, "event", r, "waiting", status)
  BY DEF TakeEvent
<1>3. r \in made /\ r \in Runs
  BY <1>1, <1>2 DEF TakeEvent, HistoryTypeOK
<1>4. status \in Row /\ "event" \in Ops \ {"none", "list"} /\ "waiting" \in PlacesOf("event")
  BY <1>2 DEF Statuses, Row, Ops, PlacesOf
<1>5. inbox' \in [Sessions -> Nat]
  BY <1>1 DEF TakeEvent, HistoryTypeOK
<1>6. \E x \in Stores : AwaitWrites(s, x)
  BY DEF TakeEvent, Stores
<1>7. UNCHANGED <<index, manifest, alive, made, watched, calls, events, faults, known, gone, lost>> /\ act[s].at = "idle"
  BY DEF TakeEvent, bounds
<1>8. ended' \subseteq ended /\ r \notin ended'
  BY <1>2 DEF TakeEvent
<1>9. calls' \in 0 .. MaxCalls /\ events' \in 0 .. MaxEvents /\ made' \subseteq Runs
  BY <1>1, <1>7 DEF HistoryTypeOK
<1> QED
  BY <1>1, <1>2, <1>3, <1>4, <1>5, <1>6, <1>7, <1>8, <1>9, BeginsKeeps

(* an event of a team is recorded                                           *)
LEMMA TeamEmitKeeps ==
  ASSUME HistoryInv, NEW r \in Runs, TeamEmit(r)
  PROVE  HistoryInv'
<1>1. HistoryTypeOK
  BY DEF HistoryInv
<1>2. PICK a \in Callers, status \in TeamStatuses :
        act[a].at = "idle" /\ Take(a, "event", r, "waiting", status) /\ AwaitWrites(a, "teams")
  BY DEF TeamEmit
<1>3. r \in made /\ a \in Actors
  BY <1>1 DEF TeamEmit, HistoryTypeOK, Actors
<1>4. status \in Row /\ "event" \in Ops \ {"none", "list"} /\ "waiting" \in PlacesOf("event")
  BY DEF TeamStatuses, Row, Ops, PlacesOf
<1>5. events' \in 0 .. MaxEvents
  BY <1>1, RunHistoryAssumption DEF TeamEmit, HistoryTypeOK
<1>6. \E x \in Stores : AwaitWrites(a, x)
  BY <1>2 DEF Stores
<1>7. UNCHANGED <<index, manifest, alive, made, watched, inbox, calls, faults, known, gone, lost>>
  BY DEF TeamEmit
<1>8. ended' \subseteq ended /\ r \notin ended'
  BY DEF TeamEmit
<1>9. calls' \in 0 .. MaxCalls /\ inbox' \in [Sessions -> Nat] /\ made' \subseteq Runs
  BY <1>1, <1>7 DEF HistoryTypeOK
<1> QED
  BY <1>1, <1>2, <1>3, <1>4, <1>5, <1>6, <1>7, <1>8, <1>9, BeginsKeeps

(* Sockets come and go, and events reach their streams.                     *)
LEMMA ConnectKeeps ==
  ASSUME HistoryInv, NEW s \in Sessions, NEW r \in Runs, Connect(s, r)
  PROVE  HistoryInv'
<1>1. HistoryTypeOK /\ CompanyInv /\ r \in made
  BY DEF HistoryInv, HistoryTypeOK, Connect
<1>2. ASSUME NEW b \in Actors
      PROVE  /\ act'[b] \in Operation /\ Stays(act[b], act'[b])
             /\ act'[b].company = act[b].company \/ (act[b].company = "nobody" /\ act'[b].company = "events" /\ act[b].run = r)
  <2>1. act'[b] = IF act[b].run = r /\ act[b].company = "nobody" THEN [act[b] EXCEPT !.company = "events"] ELSE act[b]
    BY DEF Connect
  <2>2. act[b] \in Operation
    BY <1>1 DEF HistoryTypeOK
  <2> QED
    BY <2>1, <2>2 DEF Operation, Companies, Stays
<1>3. act' \in [Actors -> Operation]
  <2>1. \A b \in Actors : act'[b] \in Operation
    BY <1>2
  <2> QED
    BY <2>1 DEF Connect
<1>4. CompanyInv'
  <2> SUFFICES ASSUME NEW b \in Actors, NEW c \in Actors, b # c, act'[b].run # None, act'[c].run = act'[b].run
               PROVE  /\ act'[b].company # "nobody"
                      /\ act'[c].op # "event" => act'[b].company \in {"calls", "deletion"}
                      /\ act'[c].op = "delete" => act'[b].company = "deletion"
    BY DEF CompanyInv
  <2>1. act[b].run # None /\ act[c].run = act[b].run /\ act[c].op = act'[c].op
    BY <1>2 DEF Stays
  <2>2. act[b].company # "nobody"
    BY <1>1, <2>1 DEF CompanyInv
  <2> QED
    BY <1>1, <1>2, <2>1, <2>2 DEF CompanyInv
<1>5. watched' \in [Sessions -> made' \cup {None}]
  BY <1>1 DEF HistoryTypeOK, Connect
<1>6. PICK new : new = act
  OBVIOUS
<1>7. Comes({}, new)
  BY <1>1, <1>2, <1>3, <1>5 DEF Comes, Connect, HistoryTypeOK, bounds, history
<1> QED
  BY <1>4, <1>7, ComesKeep

(* sockets come and go, and events wait                                     *)
LEMMA SocketKeeps ==
  ASSUME HistoryInv, UNCHANGED <<act, queue, index, manifest, alive, made, calls, faults, known, gone, lost>>,
         watched' \in [Sessions -> made \cup {None}], inbox' \in [Sessions -> Nat], events' \in 0 .. MaxEvents,
         ended' \subseteq ended
  PROVE  HistoryInv'
<1>1. HistoryTypeOK /\ CompanyInv
  BY DEF HistoryInv
<1>2. PICK new : new = act
  OBVIOUS
<1>3. \A b \in Actors : Stays(act[b], act'[b])
  BY DEF Stays
<1>4. Comes({}, new)
  BY <1>1, <1>3 DEF Comes, HistoryTypeOK
<1>5. CompanyInv'
  BY <1>1 DEF CompanyInv
<1> QED
  BY <1>4, <1>5, ComesKeep

(* a socket goes                                                            *)
LEMMA DisconnectKeeps ==
  ASSUME HistoryInv, NEW s \in Sessions, Disconnect(s)
  PROVE  HistoryInv'
<1>1. HistoryTypeOK
  BY DEF HistoryInv
<1>2. watched' \in [Sessions -> made \cup {None}] /\ inbox' \in [Sessions -> Nat] /\ events' \in 0 .. MaxEvents
  BY <1>1 DEF Disconnect, HistoryTypeOK, bounds
<1> QED
  BY <1>2, SocketKeeps DEF Disconnect, bounds, history

(* an agent emits an event                                                  *)
LEMMA EmitKeeps ==
  ASSUME HistoryInv, NEW r \in Runs, Emit(r)
  PROVE  HistoryInv'
<1>1. HistoryTypeOK
  BY DEF HistoryInv
<1>2. watched' \in [Sessions -> made \cup {None}] /\ inbox' \in [Sessions -> Nat] /\ events' \in 0 .. MaxEvents
  BY <1>1, RunHistoryAssumption DEF Emit, HistoryTypeOK
<1> QED
  BY <1>2, SocketKeeps DEF Emit

(* A crash takes what is in memory.                                         *)
LEMMA CrashKeeps == HistoryInv /\ Crash => HistoryInv'
<1> SUFFICES ASSUME HistoryInv, Crash PROVE HistoryInv'
  OBVIOUS
<1>1. HistoryTypeOK /\ PlacesInv /\ CompanyInv /\ WrittenInv /\ KnownInv /\ GoneInv /\ EndedInv
  BY DEF HistoryInv
<1>2. Nobody \in Operation /\ Nobody.op = "none" /\ Nobody.run = None /\ Nobody.restored = FALSE /\ Nobody.at = "idle"
  BY NobodyFacts DEF Nobody
<1>3. \A a \in Actors : act'[a] = Nobody
  BY DEF Crash
<1>4. HistoryTypeOK'
  <2>1. faults' \in 0 .. MaxFaults
    BY <1>1, FaultFacts DEF Crash
  <2>2. act' \in [Actors -> Operation] /\ queue' \in [Stores -> Seq(TaskKind)]
    BY <1>2 DEF Crash
  <2> QED
    BY <1>1, <2>1, <2>2 DEF HistoryTypeOK, Crash
<1>5. PlacesInv' /\ CompanyInv'
  BY <1>2, <1>3, NobodyFacts DEF PlacesInv, CompanyInv, Placed, PlacesOf, Nobody, Row
<1>6. QueueInv'
  BY DEF QueueInv, TasksInv, OneTaskEach, Crash
<1>7. WrittenInv' /\ EndedInv'
  <2>1. \A r \in ended : r # None
    BY <1>1, RunHistoryAssumption DEF HistoryTypeOK
  <2> QED
    BY <1>1, <1>2, <1>3, <2>1 DEF WrittenInv, EndedInv, AtRest, Crash
<1>8. KnownInv'
  BY <1>1, <1>2, <1>3 DEF KnownInv, ListedUntilDeleted, Crash
<1>9. GoneInv'
  <2>1. \A r \in gone : r # None
    BY <1>1, RunHistoryAssumption DEF HistoryTypeOK
  <2> QED
    BY <1>1, <1>2, <1>3, <2>1 DEF GoneInv, Undisturbed, Away, Crash
<1> QED
  BY <1>4, <1>5, <1>6, <1>7, <1>8, <1>9 DEF HistoryInv

-----------------------------------------------------------------------------
(* Steps of the stores                                                      *)

(* the first task of a store is its turn                                    *)
LEMMA TurnFacts ==
  ASSUME HistoryInv, NEW s \in Stores, NEW i \in Turn(s)
  PROVE  /\ i = 1 /\ 1 \in DOMAIN queue[s] /\ queue[s] \in Seq(TaskKind) /\ Len(queue[s]) >= 1
         /\ queue[s][1] \in TaskKind /\ queue[s][1].who \in Actors /\ Sound(s, queue[s][1])
<1>1. i = 1 /\ 1 \in DOMAIN queue[s]
  BY DEF Turn
<1>2. queue[s] \in Seq(TaskKind) /\ TasksInv
  BY DEF HistoryInv, HistoryTypeOK, QueueInv
<1>3. Len(queue[s]) >= 1 /\ queue[s][1] \in TaskKind
  BY <1>1, <1>2
<1> QED
  BY <1>1, <1>2, <1>3 DEF TasksInv, TaskKind

(* a queue without its first task                                           *)
LEMMA WithoutFacts ==
  ASSUME NEW s \in Stores, queue[s] \in Seq(TaskKind), Len(queue[s]) >= 1
  PROVE  /\ Without(s, 1) \in Seq(TaskKind)
         /\ \A j \in DOMAIN Without(s, 1) : j \in Nat /\ j + 1 # 1 /\ j + 1 \in DOMAIN queue[s] /\ Without(s, 1)[j] = queue[s][j + 1]
<1>1. PICK q : q = queue[s]
  OBVIOUS
<1>2. q \in Seq(TaskKind) /\ Len(q) \in Nat /\ Len(q) >= 1
  BY <1>1
<1>3. SubSeq(q, 1, 0) = <<>>
  BY <1>2
<1>4. SubSeq(q, 2, Len(q)) \in Seq(TaskKind)
  BY <1>2
<1>5. Without(s, 1) = SubSeq(q, 2, Len(q))
  BY <1>1, <1>3, <1>4 DEF Without
<1>6. \A j \in DOMAIN SubSeq(q, 2, Len(q)) : j \in Nat /\ j + 1 # 1 /\ j + 1 \in DOMAIN q /\ SubSeq(q, 2, Len(q))[j] = q[j + 1]
  BY <1>2
<1> QED
  BY <1>1, <1>4, <1>5, <1>6

(* (as TaskWrites tears it)                                                 *)
TornTask(u) == [u EXCEPT !.torn = TRUE]

(* a torn task has read what it had read                                    *)
LEMMA TornTaskFacts ==
  ASSUME NEW u \in TaskKind
  PROVE  /\ TornTask(u) \in TaskKind /\ TornTask(u).torn = TRUE
         /\ TornTask(u).who = u.who /\ TornTask(u).what = u.what /\ TornTask(u).run = u.run
         /\ TornTask(u).status = u.status /\ TornTask(u).at = u.at /\ TornTask(u).seen = u.seen
BY DEF TornTask, TaskKind

(* The first task t of s is done, and its operation is at another place.    *)
(* Only its own row has changed, but for those that are lost.               *)
Finishes(s, t, at) ==
  /\ 1 \in DOMAIN queue[s] /\ queue[s] \in Seq(TaskKind) /\ Len(queue[s]) >= 1 /\ t = queue[s][1]
  /\ t \in TaskKind /\ t.who \in Actors /\ Sound(s, t)
  /\ Move(t.who, at)
  /\ t.what = "reader" => at = "reading"
  /\ t.what # "reader" => at \in {"saved", "unsaved"}
  /\ index' \in Rows /\ lost \subseteq lost' /\ lost' \subseteq Runs
  /\ \A r \in Runs : index'[r] # index[r] =>
       \/ r \in lost'
       \/ /\ r = t.run /\ t.what # "reader"
          /\ (t.what = "remove" /\ index'[r] = None) \/ (t.what \in {"update", "upsert"} /\ index'[r] = t.status)
          /\ t.what = "update" => t.seen[r] # None /\ t.at = "read"
  /\ at = "saved" =>
       /\ t.what = "upsert" => index'[t.run] # None
       /\ t.what = "update" => index'[t.run] \in {t.status, None} \/ t.run \in lost'
       /\ t.what = "remove" => index'[t.run] = None \/ t.run \in lost'
  /\ queue'[s] = Without(s, 1) /\ queue' \in [Stores -> Seq(TaskKind)]
  /\ \A x \in Stores \ {s} :
       /\ DOMAIN queue'[x] = DOMAIN queue[x]
       /\ \A j \in DOMAIN queue[x] :
            \/ /\ queue'[x][j] = queue[x][j]
               /\ queue[x][j].at = "read" /\ ~queue[x][j].torn => \A r \in Runs : KindOf[r] = FileOf[x] => index'[r] = index[r]
            \/ queue[x][j].at = "read" /\ queue'[x][j] = TornTask(queue[x][j])
  /\ UNCHANGED <<manifest, alive, made, watched, inbox, calls, events, known, gone, ended>>
  /\ faults' \in 0 .. MaxFaults

(* the operation of the task is at another place, and else as it was        *)
LEMMA FinishesActs ==
  ASSUME HistoryInv, NEW s \in Stores, NEW t, NEW at \in {"reading", "saved", "unsaved"}, Finishes(s, t, at),
         NEW a, a = t.who, NEW o, o = act'[a]
  PROVE  /\ a \in Actors /\ o \in Operation /\ o.at = at /\ o.op = act[a].op /\ o.run = act[a].run /\ o.kind = act[a].kind
         /\ o.status = act[a].status /\ o.restored = act[a].restored /\ o.company = act[a].company
         /\ \A b \in Actors \ {a} : act'[b] = act[b]
         /\ act' \in [Actors -> Operation]
         /\ t.what = "reader" => act[a].at = "waiting"
         /\ t.what # "reader" => act[a].at = "saving" /\ act[a].run = t.run
<1>1. act \in [Actors -> Operation] /\ a \in Actors
  BY DEF HistoryInv, HistoryTypeOK, Finishes
<1>2. [act[a] EXCEPT !.at = at] \in Operation
  BY <1>1 DEF Operation, Places
<1>3. act' = [act EXCEPT ![a] = [act[a] EXCEPT !.at = at]]
  BY DEF Finishes, Move
<1>4. o = [act[a] EXCEPT !.at = at]
  BY <1>1, <1>3
<1>5. /\ o.at = at /\ o.op = act[a].op /\ o.run = act[a].run /\ o.kind = act[a].kind
      /\ o.status = act[a].status /\ o.restored = act[a].restored /\ o.company = act[a].company
  BY <1>1, <1>4 DEF Operation
<1>6. act' \in [Actors -> Operation] /\ \A b \in Actors \ {a} : act'[b] = act[b]
  BY <1>1, <1>2, <1>3
<1>7. /\ t.what = "reader" => act[a].at = "waiting"
      /\ t.what # "reader" => act[a].at = "saving" /\ act[a].run = t.run
  BY DEF Finishes, Sound, TaskOf
<1> QED
  BY <1>1, <1>2, <1>4, <1>5, <1>6, <1>7

(* the tasks of the store have moved up                                     *)
LEMMA FinishesSelf ==
  ASSUME HistoryTypeOK, NEW s \in Stores, NEW t, NEW at, Finishes(s, t, at)
  PROVE  \A j \in DOMAIN queue'[s] : j \in Nat /\ j + 1 # 1 /\ j + 1 \in DOMAIN queue[s] /\ queue'[s][j] = queue[s][j + 1]
<1>1. queue'[s] = Without(s, 1) /\ queue[s] \in Seq(TaskKind) /\ Len(queue[s]) >= 1
  BY DEF Finishes
<1>2. \A j \in DOMAIN Without(s, 1) : j \in Nat /\ j + 1 # 1 /\ j + 1 \in DOMAIN queue[s] /\ Without(s, 1)[j] = queue[s][j + 1]
  BY <1>1, WithoutFacts
<1> QED
  BY <1>1, <1>2

(* those of the other stores are as they were, or torn                      *)
LEMMA FinishesOthers ==
  ASSUME HistoryTypeOK, NEW s \in Stores, NEW t, NEW at, Finishes(s, t, at), NEW x \in Stores, x # s
  PROVE  \A j \in DOMAIN queue'[x] :
           /\ j \in DOMAIN queue[x] /\ j \in Nat /\ queue[x][j] \in TaskKind
           /\ queue'[x][j].who = queue[x][j].who /\ queue'[x][j].what = queue[x][j].what
           /\ queue'[x][j].run = queue[x][j].run /\ queue'[x][j].status = queue[x][j].status
           /\ queue'[x][j].at = queue[x][j].at /\ queue'[x][j].seen = queue[x][j].seen
           /\ \/ queue'[x][j].torn
              \/ /\ queue'[x][j] = queue[x][j]
                 /\ queue'[x][j].at = "read" => \A r \in Runs : KindOf[r] = FileOf[x] => index'[r] = index[r]
           /\ queue[x][j].torn => queue'[x][j].torn
<1> SUFFICES ASSUME NEW j \in DOMAIN queue'[x], NEW old, NEW u, old = queue[x][j], u = queue'[x][j]
             PROVE  /\ j \in DOMAIN queue[x] /\ j \in Nat /\ old \in TaskKind
                    /\ u.who = old.who /\ u.what = old.what /\ u.run = old.run /\ u.status = old.status
                    /\ u.at = old.at /\ u.seen = old.seen
                    /\ \/ u.torn
                       \/ u = old /\ (u.at = "read" => \A r \in Runs : KindOf[r] = FileOf[x] => index'[r] = index[r])
                    /\ old.torn => u.torn
  OBVIOUS
<1>1. DOMAIN queue'[x] = DOMAIN queue[x] /\ queue \in [Stores -> Seq(TaskKind)]
  BY DEF Finishes, HistoryTypeOK
<1>2. j \in DOMAIN queue[x] /\ j \in Nat /\ old \in TaskKind
  BY <1>1
<1>3. \/ u = old /\ (old.at = "read" /\ ~old.torn => \A r \in Runs : KindOf[r] = FileOf[x] => index'[r] = index[r])
      \/ u = TornTask(old)
  BY <1>2 DEF Finishes
<1>4. CASE u = old /\ (old.at = "read" /\ ~old.torn => \A r \in Runs : KindOf[r] = FileOf[x] => index'[r] = index[r])
  BY <1>2, <1>4
<1>5. CASE u = TornTask(old)
  BY <1>2, <1>5, TornTaskFacts
<1> QED
  BY <1>3, <1>4, <1>5

(* the operations are in their places                                       *)
LEMMA FinishesPlaces ==
  ASSUME HistoryInv, NEW s \in Stores, NEW t, NEW at \in {"reading", "saved", "unsaved"}, Finishes(s, t, at)
  PROVE  HistoryTypeOK' /\ PlacesInv' /\ CompanyInv'
<1>1. HistoryTypeOK /\ PlacesInv /\ CompanyInv
  BY DEF HistoryInv
<1>2. PICK a, o : a = t.who /\ o = act'[a]
  OBVIOUS
<1>3. /\ a \in Actors /\ o \in Operation /\ o.at = at /\ o.op = act[a].op /\ o.run = act[a].run /\ o.kind = act[a].kind
      /\ o.status = act[a].status /\ o.restored = act[a].restored /\ o.company = act[a].company
      /\ \A b \in Actors \ {a} : act'[b] = act[b]
      /\ act' \in [Actors -> Operation]
      /\ t.what = "reader" => act[a].at = "waiting"
      /\ t.what # "reader" => act[a].at = "saving" /\ act[a].run = t.run
  BY <1>2, FinishesActs
<1>4. queue' \in [Stores -> Seq(TaskKind)]
  BY DEF Finishes
<1>5. HistoryTypeOK'
  BY <1>1, <1>3, <1>4 DEF HistoryTypeOK, Finishes
<1>6. Placed(o)'
  <2>1. Placed(act[a]) /\ act[a].op \in Ops
    BY <1>1, <1>3, ActorFacts
  <2>2. (at = "reading" /\ act[a].at = "waiting") \/ (at \in {"saved", "unsaved"} /\ act[a].at = "saving")
    BY <1>3 DEF Finishes
  <2> QED
    BY <1>3, <2>1, <2>2 DEF Placed, PlacesOf, Ops, Saves, Finishes
<1>7. PlacesInv'
  <2> SUFFICES ASSUME NEW b \in Actors PROVE Placed(act[b])'
    BY DEF PlacesInv
  <2>1. CASE b = a
    BY <1>2, <1>6, <2>1 DEF Placed
  <2>2. CASE b # a
    BY <1>1, <1>3, <2>2 DEF PlacesInv, Placed, Finishes
  <2> QED
    BY <2>1, <2>2
<1>8. CompanyInv'
  <2>1. \A b \in Actors : act'[b].op = act[b].op /\ act'[b].run = act[b].run /\ act'[b].company = act[b].company
    BY <1>2, <1>3
  <2> QED
    BY <1>1, <2>1 DEF CompanyInv
<1> QED
  BY <1>5, <1>7, <1>8

(* Every task that is left has read what the index says, or is torn.        *)
LEMMA FinishesQueue ==
  ASSUME HistoryInv, NEW s \in Stores, NEW t, NEW at \in {"reading", "saved", "unsaved"}, Finishes(s, t, at)
  PROVE  QueueInv'
<1>1. HistoryTypeOK /\ TasksInv /\ OneTaskEach
  BY DEF HistoryInv, QueueInv
<1>2. PICK a : a = t.who
  OBVIOUS
<1>3. \A b \in Actors \ {a} : act'[b] = act[b]
  BY <1>2, FinishesActs
<1>4. ASSUME NEW x \in Stores, NEW j \in DOMAIN queue'[x]
      PROVE  \E k \in DOMAIN queue[x] :
               /\ k = IF x = s THEN j + 1 ELSE j
               /\ queue'[x][j].who = queue[x][k].who
               /\ queue[x][k].who \in Actors \ {a}
               /\ j \in Nat
  <2>1. CASE x = s
    <3>1. j \in Nat /\ j + 1 \in DOMAIN queue[s] /\ queue'[s][j] = queue[s][j + 1] /\ j + 1 # 1
      BY <1>1, <2>1, FinishesSelf
    <3>2. queue[s][j + 1] \in TaskKind
      BY <1>1, <3>1 DEF HistoryTypeOK
    <3>3. queue[s][j + 1].who # a
      BY <1>1, <1>2, <3>1 DEF OneTaskEach, Finishes
    <3> QED
      BY <2>1, <3>1, <3>2, <3>3 DEF TaskKind
  <2>2. CASE x # s
    <3>1. /\ j \in DOMAIN queue[x] /\ queue[x][j] \in TaskKind /\ j \in Nat
          /\ queue'[x][j].who = queue[x][j].who
      BY <1>1, <2>2, FinishesOthers
    <3>2. queue[x][j].who # a
      BY <1>1, <1>2, <2>2, <3>1 DEF OneTaskEach, Finishes
    <3> QED
      BY <2>2, <3>1, <3>2 DEF TaskKind
  <2> QED
    BY <2>1, <2>2
<1>5. OneTaskEach'
  <2> SUFFICES ASSUME NEW x \in Stores, NEW y \in Stores, NEW i \in DOMAIN queue'[x], NEW j \in DOMAIN queue'[y],
                      queue'[x][i].who = queue'[y][j].who
               PROVE  x = y /\ i = j
    BY DEF OneTaskEach
  <2>1. PICK k \in DOMAIN queue[x] : k = (IF x = s THEN i + 1 ELSE i) /\ queue'[x][i].who = queue[x][k].who /\ i \in Nat
    BY <1>4
  <2>2. PICK l \in DOMAIN queue[y] : l = (IF y = s THEN j + 1 ELSE j) /\ queue'[y][j].who = queue[y][l].who /\ j \in Nat
    BY <1>4
  <2>3. queue[x][k].who = queue[y][l].who
    BY <2>1, <2>2
  <2>4. x = y /\ k = l
    BY <1>1, <2>3 DEF OneTaskEach
  <2> QED
    BY <2>1, <2>2, <2>4
<1>6. ASSUME NEW x \in Stores, NEW j \in DOMAIN queue'[x], NEW u, u = queue'[x][j]
      PROVE  Sound(x, u)' /\ (u.at = "read" => j = 1)
  <2>1. PICK k \in DOMAIN queue[x] :
          k = (IF x = s THEN j + 1 ELSE j) /\ u.who = queue[x][k].who /\ queue[x][k].who \in Actors \ {a} /\ j \in Nat
    BY <1>4, <1>6
  <2>2. PICK old : old = queue[x][k]
    OBVIOUS
  <2>3. old \in TaskKind /\ Sound(x, old) /\ (old.at = "read" => k = 1) /\ act'[old.who] = act[old.who] /\ old.who = u.who
    BY <1>1, <1>3, <2>1, <2>2 DEF HistoryTypeOK, TasksInv
  <2>4. CASE x = s
    <3>1. k = j + 1 /\ u = queue'[s][j] /\ j \in DOMAIN queue'[s] /\ old = queue[s][k]
      BY <1>6, <2>1, <2>2, <2>4
    <3>2. queue'[s][j] = queue[s][j + 1] /\ j + 1 # 1
      BY <1>1, <3>1, FinishesSelf
    <3>3. u = old
      BY <3>1, <3>2
    <3>4. u.at # "read"
      BY <2>3, <3>1, <3>2, <3>3
    <3> QED
      BY <2>3, <3>3, <3>4 DEF Sound, TaskOf, SeenByTask, Finishes
  <2>5. CASE x # s
    <3>1. /\ u.what = old.what /\ u.run = old.run /\ u.status = old.status /\ u.at = old.at /\ u.seen = old.seen
          /\ u.torn \/ (u = old /\ (u.at = "read" => \A r \in Runs : KindOf[r] = FileOf[x] => index'[r] = index[r]))
          /\ old.torn => u.torn
      BY <1>1, <1>6, <2>1, <2>2, <2>5, FinishesOthers
    <3>2. TaskOf(x, u, act[u.who])'
      BY <2>3, <3>1 DEF Sound, TaskOf, Finishes
    <3>3. x # "continuation" /\ u.at = "read" /\ u.what = "update" /\ u.seen[u.run] # None =>
            index'[u.run] # None \/ u.run \in lost'
      <4> SUFFICES ASSUME x # "continuation", u.at = "read", u.what = "update", u.seen[u.run] # None,
                          index'[u.run] = None, u.run \notin lost'
                   PROVE  FALSE
        OBVIOUS
      <4>1. index[u.run] # None /\ KindOf[u.run] = FileOf[x]
        BY <2>3, <3>1 DEF Sound, SeenByTask, TaskOf, Finishes
      <4>2. /\ u.who \in Actors /\ u.run \in Runs \cup {None} /\ u.run = act[u.who].run
            /\ act[u.who].at = "saving" /\ act[u.who].op # "list"
        BY <2>3, <3>1 DEF Sound, TaskOf, TaskKind
      <4>3. u.run \in Runs
        BY <4>2, ActorFacts DEF Placed, PlacesOf
      <4>4. u.run = t.run /\ t.what # "reader" /\ (t.what = "remove" \/ (t.what \in {"update", "upsert"} /\ t.status = None))
        BY <4>1, <4>3 DEF Finishes
      <4>5. t.what = "remove" /\ act[t.who].op = "delete" /\ KindOf[u.run] = FileOf[s]
        BY <4>4, RunHistoryAssumption DEF Finishes, Sound, TaskOf
      <4>6. s = "continuation"
        BY <2>5, <4>1, <4>5 DEF Stores, FileOf
      <4> QED
        BY <4>4, <4>5, <4>6 DEF Finishes, Sound, TaskOf
    <3>4. SeenByTask(x, u)'
      BY <2>3, <3>1, <3>3 DEF Sound, SeenByTask
    <3> QED
      BY <2>1, <2>3, <2>5, <3>1, <3>2, <3>4 DEF Sound
  <2> QED
    BY <2>4, <2>5
<1>7. TasksInv'
  BY <1>6 DEF TasksInv
<1> QED
  BY <1>5, <1>7 DEF QueueInv

(* which rows change by it                                                  *)
LEMMA RowsChange ==
  ASSUME HistoryInv, NEW s \in Stores, NEW t, NEW at, Finishes(s, t, at),
         NEW r \in Runs, index'[r] # index[r], r \notin lost'
  PROVE  /\ r = t.run /\ act[t.who].run = r /\ act[t.who].op # "list" /\ t.who \in Actors /\ act[t.who].at = "saving"
         /\ act[t.who].op = "delete" => index'[r] = None
         /\ act[t.who].op # "delete" => index'[r] \in {"ACTIVE", "IDLE"} /\ index'[r] # None
         /\ act[t.who].op = "terminate" => index'[r] = "IDLE"
         /\ act[t.who].op = "event" => index[r] # None
<1>1. /\ r = t.run /\ t.what # "reader"
      /\ (t.what = "remove" /\ index'[r] = None) \/ (t.what \in {"update", "upsert"} /\ index'[r] = t.status)
      /\ t.what = "update" => t.seen[r] # None /\ t.at = "read"
  BY DEF Finishes
<1>2. TaskOf(s, t, act[t.who]) /\ SeenByTask(s, t) /\ lost \subseteq lost' /\ t.who \in Actors
  BY DEF Finishes, Sound
<1>3. act[t.who].op = "event" => t.what = "update" /\ s # "continuation"
  BY <1>1, <1>2 DEF TaskOf
<1>4. act[t.who].op = "event" => index[r] # None
  BY <1>1, <1>2, <1>3 DEF SeenByTask
<1> QED
  BY <1>1, <1>2, <1>4, RunHistoryAssumption DEF TaskOf

(* What is made or restored has its row once its task is done.              *)
LEMMA FinishesWritten ==
  ASSUME HistoryInv, NEW s \in Stores, NEW t, NEW at \in {"reading", "saved", "unsaved"}, Finishes(s, t, at)
  PROVE  WrittenInv'
<1>1. HistoryTypeOK /\ PlacesInv /\ CompanyInv /\ WrittenInv /\ lost \subseteq lost' /\ manifest' = manifest
  BY DEF HistoryInv, Finishes
<1>2. PICK a, o : a = t.who /\ o = act'[a]
  OBVIOUS
<1>3. /\ a \in Actors /\ o \in Operation /\ o.at = at /\ o.op = act[a].op /\ o.run = act[a].run
      /\ o.restored = act[a].restored /\ o.company = act[a].company
      /\ \A b \in Actors \ {a} : act'[b] = act[b]
      /\ t.what = "reader" => act[a].at = "waiting"
      /\ t.what # "reader" => act[a].at = "saving" /\ act[a].run = t.run
  BY <1>2, FinishesActs
<1> SUFFICES ASSUME NEW b \in Actors, NEW p, p = act'[b], p.company # "deletion", p.run # None
             PROVE  /\ HasManifest(p) => manifest[p.run] # "none"
                    /\ HasRow(p) => index'[p.run] # None \/ p.run \in lost'
  BY <1>1 DEF WrittenInv, HasManifest, HasRow
<1>4. act[b].company = p.company /\ act[b].run = p.run /\ act[b].op = p.op /\ act[b].restored = p.restored /\ p.run \in Runs
  BY <1>1, <1>2, <1>3, ActorFacts
<1>5. /\ HasManifest(act[b]) => manifest[p.run] # "none"
      /\ HasRow(act[b]) => index[p.run] # None \/ p.run \in lost
  BY <1>1, <1>4 DEF WrittenInv
<1>6. ASSUME index[p.run] # None \/ p.run \in lost, p.op # "delete" PROVE index'[p.run] # None \/ p.run \in lost'
  <2> SUFFICES ASSUME index'[p.run] = None, p.run \notin lost' PROVE FALSE
    OBVIOUS
  <2>1. index'[p.run] # index[p.run]
    BY <1>1, <1>6
  <2>2. act[a].run = p.run /\ act[a].op = "delete"
    BY <1>2, <1>4, <2>1, RowsChange
  <2> QED
    BY <1>1, <1>3, <1>4, <1>6, <2>2 DEF CompanyInv
<1>7. HasRow(p) => p.op # "delete"
  BY <1>4, ActorFacts DEF HasRow, Placed
<1>8. CASE b # a
  BY <1>7, <1>3, <1>5, <1>6, <1>8
<1>9. CASE b = a
  <2>1. HasManifest(p) => HasManifest(act[a])
    BY <1>2, <1>3, <1>4, <1>9 DEF HasManifest, Finishes
  <2>2. ASSUME HasRow(p) PROVE index'[p.run] # None \/ p.run \in lost'
    <3>1. p.at = "saved" /\ at = "saved" /\ t.what # "reader" /\ (p.op = "create" \/ p.restored)
      BY <1>2, <1>3, <1>9, <2>2 DEF HasRow, Finishes
    <3>2. TaskOf(s, t, act[a]) /\ Placed(act[a])
      BY <1>2, <1>3, ActorFacts DEF Finishes, Sound
    <3>3. CASE t.what = "upsert"
      BY <1>3, <1>4, <1>9, <3>1, <3>3 DEF Finishes
    <3>4. CASE t.what # "upsert"
      <4>1. p.op = "continue" /\ p.restored /\ p.run \in TeamRuns
        BY <1>2, <1>3, <1>4, <1>9, <3>1, <3>2, <3>4, RunsHaveKinds DEF TaskOf, Placed
      <4>2. HasRow(act[a])
        BY <1>3, <1>4, <1>9, <3>1, <4>1 DEF HasRow
      <4> QED
        BY <1>5, <1>6, <1>9, <4>1, <4>2
    <3> QED
      BY <3>3, <3>4
  <2> QED
    BY <1>5, <1>9, <2>1, <2>2
<1> QED
  BY <1>8, <1>9

(* a listed run has its row                                                 *)
LEMMA FinishesKnown ==
  ASSUME HistoryInv, NEW s \in Stores, NEW t, NEW at \in {"reading", "saved", "unsaved"}, Finishes(s, t, at)
  PROVE  KnownInv'
<1>1. HistoryTypeOK /\ KnownInv /\ lost \subseteq lost' /\ manifest' = manifest /\ known' = known
  BY DEF HistoryInv, Finishes
<1>2. \A b \in Actors : act'[b].op = act[b].op /\ act'[b].run = act[b].run
  BY FinishesActs
<1>3. ASSUME NEW r \in known, r \notin lost' PROVE index'[r] # None
  <2>1. r \in Runs /\ index[r] # None
    BY <1>1, <1>3 DEF HistoryTypeOK, KnownInv, ListedUntilDeleted
  <2>2. act[t.who].run = r /\ t.who \in Actors => act[t.who].op # "delete"
    BY <1>1 DEF KnownInv
  <2> QED
    BY <1>3, <2>1, <2>2, RowsChange
<1> QED
  BY <1>1, <1>2, <1>3 DEF KnownInv, ListedUntilDeleted

(* an absent row that an event, or nobody, works on stays absent            *)
LEMMA StaysAway ==
  ASSUME HistoryInv, NEW s \in Stores, NEW t, NEW at, Finishes(s, t, at), NEW r \in Runs, Away(r),
         act[t.who].run = r /\ act[t.who].at = "saving" => act[t.who].op \in {"event", "delete"}
  PROVE  index'[r] = None \/ r \in lost'
<1>1. lost \subseteq lost'
  BY DEF Finishes
<1> SUFFICES ASSUME index'[r] # None, r \notin lost' PROVE FALSE
  OBVIOUS
<1>2. index[r] = None /\ index'[r] # index[r]
  BY <1>1 DEF Away
<1> QED
  BY <1>2, RowsChange

(* a deleted run has none                                                   *)
LEMMA FinishesGone ==
  ASSUME HistoryInv, NEW s \in Stores, NEW t, NEW at \in {"reading", "saved", "unsaved"}, Finishes(s, t, at)
  PROVE  GoneInv'
<1>1. HistoryTypeOK /\ CompanyInv /\ GoneInv /\ UNCHANGED <<manifest, alive, gone>> /\ None \notin Runs
  BY RunHistoryAssumption DEF HistoryInv, Finishes
<1>2. PICK a, o : a = t.who /\ o = act'[a]
  OBVIOUS
<1>3. /\ a \in Actors /\ o.at = at /\ o.op = act[a].op /\ o.run = act[a].run
      /\ o.restored = act[a].restored /\ o.company = act[a].company
      /\ \A b \in Actors \ {a} : act'[b] = act[b]
      /\ t.what = "reader" => act[a].at = "waiting"
      /\ t.what # "reader" => act[a].at = "saving" /\ act[a].run = t.run
  BY <1>2, FinishesActs
<1>4. ASSUME NEW b \in Actors, NEW p, p = act'[b], Undisturbed(p)
      PROVE  /\ p.run \notin alive
             /\ p.at \in {"saving", "saved"} => manifest[p.run] = "none"
             /\ p.at = "saved" => index'[p.run] = None \/ p.run \in lost'
  <2>1. act[b].company = p.company /\ act[b].run = p.run /\ act[b].op = p.op /\ Undisturbed(act[b])
    BY <1>2, <1>3, <1>4 DEF Undisturbed
  <2>2. p.run \in Runs
    BY <1>1, <2>1, RunFacts DEF Undisturbed, HistoryInv
  <2>3. /\ p.run \notin alive
        /\ act[b].at \in {"saving", "saved"} => manifest[p.run] = "none"
        /\ act[b].at = "saved" => Away(p.run)
    BY <1>1, <2>1 DEF GoneInv
  <2>4. CASE b = a
    <3>1. p.at = "saved" => act[b].at = "saving" /\ t.what # "reader" /\ at = "saved" /\ act[b].run = t.run
      BY <1>2, <1>3, <1>4, <2>4 DEF Finishes
    <3>2. p.at = "saved" => t.what = "remove"
      BY <1>2, <1>4, <2>1, <2>4, <3>1 DEF Undisturbed, Finishes, Sound, TaskOf
    <3>3. p.at \notin {"saving"}
      BY <1>2, <1>3, <1>4, <2>4
    <3> QED
      BY <2>1, <2>3, <3>1, <3>2, <3>3 DEF Finishes
  <2>5. CASE b # a
    <3>1. p = act[b]
      BY <1>3, <1>4, <2>5
    <3>2. act[a].run = p.run => act[a].op = "event"
      BY <1>1, <1>3, <2>1, <2>2, <2>5 DEF CompanyInv, Undisturbed
    <3> QED
      BY <1>2, <2>2, <2>3, <3>1, <3>2, StaysAway
  <2> QED
    BY <2>4, <2>5
<1>5. ASSUME NEW r \in gone
      PROVE  /\ r \notin alive /\ manifest[r] = "none" /\ (index'[r] = None \/ r \in lost')
             /\ \A b \in Actors : act'[b].run = r =>
                  \/ act'[b].op \in {"delete", "event"}
                  \/ act'[b].op = "continue" /\ act'[b].at \in {"manifest", "dispatching"} /\ ~act'[b].restored
  <2>1. r \in Runs /\ r \notin alive /\ manifest[r] = "none" /\ Away(r)
    BY <1>1 DEF HistoryTypeOK, GoneInv
  <2>2. \A b \in Actors : act[b].run = r =>
          \/ act[b].op \in {"delete", "event"}
          \/ act[b].op = "continue" /\ act[b].at \in {"manifest", "dispatching"} /\ ~act[b].restored
    BY <1>1 DEF GoneInv
  <2>3. act[a].run = r => act[a].op \in {"delete", "event"}
    BY <1>3, <2>2
  <2>4. index'[r] = None \/ r \in lost'
    BY <1>2, <2>1, <2>3, StaysAway
  <2>5. \A b \in Actors : act'[b].run = r =>
          \/ act'[b].op \in {"delete", "event"}
          \/ act'[b].op = "continue" /\ act'[b].at \in {"manifest", "dispatching"} /\ ~act'[b].restored
    BY <1>2, <1>3, <2>2, <2>3
  <2> QED
    BY <2>1, <2>4, <2>5
<1> QED
  BY <1>1, <1>4, <1>5 DEF GoneInv, Away, Undisturbed

(* a terminated run is not active                                           *)
LEMMA FinishesEnded ==
  ASSUME HistoryInv, NEW s \in Stores, NEW t, NEW at \in {"reading", "saved", "unsaved"}, Finishes(s, t, at)
  PROVE  EndedInv'
<1>1. HistoryTypeOK /\ CompanyInv /\ EndedInv /\ ended' = ended /\ lost \subseteq lost' /\ None \notin Runs
  BY RunHistoryAssumption DEF HistoryInv, Finishes
<1>2. PICK a, o : a = t.who /\ o = act'[a]
  OBVIOUS
<1>3. /\ a \in Actors /\ o.at = at /\ o.op = act[a].op /\ o.run = act[a].run /\ o.company = act[a].company
      /\ \A b \in Actors \ {a} : act'[b] = act[b]
      /\ t.what # "reader" => act[a].at = "saving" /\ act[a].run = t.run
  BY <1>2, FinishesActs
<1>4. ASSUME NEW r \in Runs, AtRest(r), act[a].run # r PROVE index'[r] # "ACTIVE" \/ r \in lost'
  BY <1>1, <1>2, <1>4, RowsChange DEF AtRest
<1>5. ASSUME NEW b \in Actors, NEW p, p = act'[b], p.op = "terminate", p.company = "nobody", p.at = "saved"
      PROVE  index'[p.run] # "ACTIVE" \/ p.run \in lost'
  <2>1. act[b].company = "nobody" /\ act[b].run = p.run /\ act[b].op = "terminate"
    BY <1>2, <1>3, <1>5
  <2>2. p.run \in Runs
    BY <1>1, <2>1, RunFacts DEF HistoryInv
  <2>3. CASE b = a
    <3>1. t.what # "reader" /\ at = "saved" /\ p.run = t.run
      BY <1>2, <1>3, <1>5, <2>1, <2>3 DEF Finishes
    <3>2. t.what = "update" /\ t.status = "IDLE"
      BY <1>2, <2>1, <2>3, <3>1 DEF Finishes, Sound, TaskOf
    <3>3. index'[t.run] \in {"IDLE", None} \/ t.run \in lost'
      BY <3>1, <3>2 DEF Finishes
    <3> QED
      BY <3>1, <3>3, RunHistoryAssumption
  <2>4. CASE b # a
    <3>1. AtRest(p.run)
      BY <1>1, <1>3, <1>5, <2>1, <2>4 DEF EndedInv
    <3>2. act[a].run # p.run
      BY <1>1, <1>3, <2>1, <2>2, <2>4 DEF CompanyInv
    <3> QED
      BY <1>4, <2>2, <3>1, <3>2
  <2> QED
    BY <2>3, <2>4
<1>6. ASSUME NEW r \in ended PROVE (index'[r] # "ACTIVE" \/ r \in lost') /\ \A b \in Actors : act'[b].run # r
  <2>1. r \in Runs /\ AtRest(r) /\ \A b \in Actors : act[b].run # r
    BY <1>1 DEF HistoryTypeOK, EndedInv
  <2> QED
    BY <1>2, <1>3, <1>4, <2>1
<1> QED
  BY <1>1, <1>5, <1>6 DEF EndedInv, AtRest

(* the end of a task keeps the invariant                                    *)
LEMMA FinishesKeep ==
  ASSUME HistoryInv, NEW s \in Stores, NEW t, NEW at \in {"reading", "saved", "unsaved"}, Finishes(s, t, at)
  PROVE  HistoryInv'
BY FinishesPlaces, FinishesQueue, FinishesWritten, FinishesKnown, FinishesGone, FinishesEnded DEF HistoryInv

(* the first task leaves the queue of s, and the other queues are as they were *)
LEMMA LeavesQueue ==
  ASSUME HistoryInv, NEW s \in Stores, NEW i \in Turn(s), queue' = [queue EXCEPT ![s] = Without(s, i)], index' = index
  PROVE  /\ queue'[s] = Without(s, 1) /\ queue' \in [Stores -> Seq(TaskKind)]
         /\ \A x \in Stores \ {s} :
              /\ DOMAIN queue'[x] = DOMAIN queue[x]
              /\ \A j \in DOMAIN queue[x] :
                   /\ queue'[x][j] = queue[x][j]
                   /\ queue[x][j].at = "read" /\ ~queue[x][j].torn => \A r \in Runs : KindOf[r] = FileOf[x] => index'[r] = index[r]
<1>1. queue \in [Stores -> Seq(TaskKind)]
  BY DEF HistoryInv, HistoryTypeOK
<1>2. Without(s, 1) \in Seq(TaskKind) /\ i = 1
  BY TurnFacts, WithoutFacts
<1> QED
  BY <1>1, <1>2

(* a reader's turn has come                                                 *)
LEMMA ReadyKeeps ==
  ASSUME HistoryInv, NEW s \in Stores, NEW i \in Turn(s), Ready(s, i)
  PROVE  HistoryInv'
<1>1. PICK t : t = queue[s][1]
  OBVIOUS
<1>2. HistoryTypeOK
  BY DEF HistoryInv
<1>3. /\ i = 1 /\ 1 \in DOMAIN queue[s] /\ queue[s] \in Seq(TaskKind) /\ Len(queue[s]) >= 1
      /\ t \in TaskKind /\ t.who \in Actors /\ Sound(s, t)
  BY <1>1, TurnFacts
<1>4. t.what = "reader" /\ Move(t.who, "reading") /\ queue' = [queue EXCEPT ![s] = Without(s, i)]
  BY <1>1, <1>3 DEF Ready
<1>5. UNCHANGED <<index, manifest, alive, made, watched, inbox, calls, events, faults, known, gone, ended, lost>>
  BY DEF Ready, bounds, history
<1>6. Finishes(s, t, "reading")
  BY <1>1, <1>2, <1>3, <1>4, <1>5, LeavesQueue DEF Finishes, HistoryTypeOK
<1> QED
  BY <1>6, FinishesKeep

(* a task that fails leaves the index as it is                              *)
LEMMA TaskFailsKeeps ==
  ASSUME HistoryInv, NEW s \in Stores, NEW i \in Turn(s), TaskFails(s, i)
  PROVE  HistoryInv'
<1>1. PICK t : t = queue[s][1]
  OBVIOUS
<1>2. HistoryTypeOK
  BY DEF HistoryInv
<1>3. /\ i = 1 /\ 1 \in DOMAIN queue[s] /\ queue[s] \in Seq(TaskKind) /\ Len(queue[s]) >= 1
      /\ t \in TaskKind /\ t.who \in Actors /\ Sound(s, t)
  BY <1>1, TurnFacts
<1>4. t.what # "reader" /\ Move(t.who, "unsaved") /\ queue' = [queue EXCEPT ![s] = Without(s, i)]
  BY <1>1, <1>3 DEF TaskFails
<1>5. UNCHANGED <<index, manifest, alive, made, watched, inbox, calls, events, known, gone, ended, lost>>
  BY DEF TaskFails, history
<1>6. faults' \in 0 .. MaxFaults
  BY <1>2, FaultFacts DEF TaskFails
<1>7. Finishes(s, t, "unsaved")
  BY <1>1, <1>2, <1>3, <1>4, <1>5, <1>6, LeavesQueue DEF Finishes, HistoryTypeOK
<1> QED
  BY <1>7, FinishesKeep

(* A task that has nothing to do saw that its row was not there.            *)
LEMMA TaskIdlesKeeps ==
  ASSUME HistoryInv, NEW s \in Stores, NEW i \in Turn(s), TaskIdles(s, i)
  PROVE  HistoryInv'
<1>1. PICK t : t = queue[s][1]
  OBVIOUS
<1>2. HistoryTypeOK
  BY DEF HistoryInv
<1>3. /\ i = 1 /\ 1 \in DOMAIN queue[s] /\ queue[s] \in Seq(TaskKind) /\ Len(queue[s]) >= 1
      /\ t \in TaskKind /\ t.who \in Actors /\ Sound(s, t)
  BY <1>1, TurnFacts
<1>4. /\ t.what \in {"update", "remove"} /\ t.at = "read" /\ t.seen[t.run] = None
      /\ Move(t.who, "saved") /\ queue' = [queue EXCEPT ![s] = Without(s, i)]
  BY <1>1, <1>3 DEF TaskIdles, Idle
<1>5. UNCHANGED <<index, manifest, alive, made, watched, inbox, calls, events, faults, known, gone, ended>>
  BY DEF TaskIdles, bounds
<1>6. lost' = IF t.torn THEN lost \cup {t.run} ELSE lost
  BY <1>1, <1>3 DEF TaskIdles
<1>7. t.run \in Runs /\ KindOf[t.run] = FileOf[s]
  <2>1. act[t.who].run = t.run /\ act[t.who].op # "list" /\ act[t.who].at = "saving" /\ KindOf[t.run] = FileOf[s]
    BY <1>3, <1>4 DEF Sound, TaskOf
  <2> QED
    BY <1>3, <2>1, ActorFacts DEF Placed, PlacesOf
<1>8. index[t.run] = None \/ t.run \in lost'
  BY <1>3, <1>4, <1>6, <1>7 DEF Sound, SeenByTask
<1>9. lost \subseteq lost' /\ lost' \subseteq Runs
  BY <1>2, <1>6, <1>7 DEF HistoryTypeOK
<1>10. index' = index /\ index' \in Rows /\ faults' \in 0 .. MaxFaults
  BY <1>2, <1>5 DEF HistoryTypeOK
<1>11. Finishes(s, t, "saved")
  BY <1>1, <1>3, <1>4, <1>5, <1>8, <1>9, <1>10, LeavesQueue DEF Finishes
<1> QED
  BY <1>11, FinishesKeep

(* (as TaskWrites tears what the other stores of the file have read)        *)
SharersOf(s) == {o \in Stores \ {s} : FileOf[o] = FileOf[s] /\ queue[o] # <<>>}
TornQueue(q) == [j \in DOMAIN q |-> IF q[j].at = "read" THEN TornTask(q[j]) ELSE q[j]]

(* a torn queue has the same tasks, but for what they have read             *)
LEMMA TornQueueFacts ==
  ASSUME NEW q \in Seq(TaskKind)
  PROVE  /\ TornQueue(q) \in Seq(TaskKind) /\ DOMAIN TornQueue(q) = DOMAIN q
         /\ \A j \in DOMAIN q :
              IF q[j].at = "read" THEN TornQueue(q)[j] = TornTask(q[j]) ELSE TornQueue(q)[j] = q[j]
<1>1. DOMAIN TornQueue(q) = DOMAIN q /\ DOMAIN q = 1 .. Len(q) /\ Len(q) \in Nat
  BY DEF TornQueue
<1>2. \A j \in DOMAIN q :
        IF q[j].at = "read" THEN TornQueue(q)[j] = TornTask(q[j]) ELSE TornQueue(q)[j] = q[j]
  BY DEF TornQueue
<1>3. \A j \in 1 .. Len(q) : TornQueue(q)[j] \in TaskKind
  <2> SUFFICES ASSUME NEW j \in 1 .. Len(q), NEW u, u = q[j] PROVE TornQueue(q)[j] \in TaskKind
    OBVIOUS
  <2>0. q[j] \in TaskKind
    OBVIOUS
  <2>1. u \in TaskKind /\ TornTask(u) \in TaskKind
    BY <2>0, TornTaskFacts
  <2>2. TornQueue(q)[j] = TornTask(u) \/ TornQueue(q)[j] = u
    BY <1>1, <1>2
  <2> QED
    BY <2>1, <2>2
<1>4. TornQueue(q) = [j \in 1 .. Len(q) |-> TornQueue(q)[j]]
  BY <1>1 DEF TornQueue
<1>5. TornQueue(q) \in [1 .. Len(q) -> TaskKind]
  BY <1>3, <1>4
<1> QED
  BY <1>1, <1>2, <1>5

(* A task replaces the file: the rows of other runs change only if what it  *)
(* had read was torn, and then these runs are lost.                         *)
LEMMA TaskWritesKeeps ==
  ASSUME HistoryInv, NEW s \in Stores, NEW i \in Turn(s), TaskWrites(s, i)
  PROVE  HistoryInv'
<1>1. PICK t, new : t = queue[s][1] /\ new = Written(t)
  OBVIOUS
<1>2. HistoryTypeOK
  BY DEF HistoryInv
<1>3. /\ i = 1 /\ 1 \in DOMAIN queue[s] /\ queue[s] \in Seq(TaskKind) /\ Len(queue[s]) >= 1
      /\ t \in TaskKind /\ t.who \in Actors /\ Sound(s, t)
  BY <1>1, TurnFacts
<1>4. t.what # "reader" /\ t.at = "read" /\ ~Idle(t) /\ Move(t.who, "saved")
  BY <1>1, <1>3 DEF TaskWrites
<1>5. UNCHANGED <<manifest, alive, made, watched, inbox, calls, events, faults, known, gone, ended>>
  BY DEF TaskWrites, bounds
<1>6. index' = [r \in Runs |-> IF KindOf[r] = FileOf[s] THEN new[r] ELSE index[r]]
  BY <1>1, <1>3 DEF TaskWrites
<1>7. lost' = IF t.torn THEN lost \cup {r \in Runs \ {t.run} : index'[r] # index[r]} ELSE lost
  <2>1. lost' = IF t.torn THEN lost \cup {r \in Runs \ {t.run} :
                  [x \in Runs |-> IF KindOf[x] = FileOf[s] THEN new[x] ELSE index[x]][r] # index[r]} ELSE lost
    BY <1>1, <1>3 DEF TaskWrites
  <2> QED
    BY <1>6, <2>1
<1>8. /\ t.what # "rebuild" => t.run \in Runs /\ KindOf[t.run] = FileOf[s]
      /\ t.what \in {"update", "upsert"} => t.status \in {"ACTIVE", "IDLE"}
      /\ t.what = "rebuild" => t.run = None /\ t.status \in Rows /\ t.torn
      /\ t.what \in {"upsert", "update", "remove", "rebuild"} /\ t.seen \in Rows
  <2>1. /\ act[t.who].run = t.run /\ (t.what = "rebuild" <=> act[t.who].op = "list") /\ act[t.who].at = "saving"
        /\ t.what # "rebuild" => KindOf[t.run] = FileOf[s]
        /\ t.what \in {"update", "upsert"} => t.status \in {"ACTIVE", "IDLE"}
        /\ t.what = "rebuild" => t.status \in Rows /\ t.torn
    BY <1>3, <1>4 DEF Sound, TaskOf, SeenByTask
  <2>2. act[t.who].op # "list" => t.run \in Runs
    BY <1>3, <2>1, ActorFacts DEF Placed, PlacesOf
  <2>3. act[t.who].op = "list" => t.run = None
    BY <1>3, <2>1, ActorFacts DEF Placed
  <2> QED
    BY <1>3, <1>4, <2>1, <2>2, <2>3 DEF TaskKind
<1>9. /\ t.what \in {"update", "upsert"} => new = [t.seen EXCEPT ![t.run] = t.status]
      /\ t.what = "remove" => new = [t.seen EXCEPT ![t.run] = None]
      /\ t.what = "rebuild" => new = t.status
  BY <1>1 DEF Written
<1>10. new \in Rows
  BY <1>8, <1>9 DEF Rows, Row
<1>11. index' \in Rows /\ lost \subseteq lost' /\ lost' \subseteq Runs /\ faults' \in 0 .. MaxFaults
  BY <1>2, <1>5, <1>6, <1>7, <1>10 DEF HistoryTypeOK, Rows
<1>12. ASSUME NEW r \in Runs, index'[r] # index[r]
       PROVE  \/ r \in lost'
              \/ /\ r = t.run /\ t.what # "reader"
                 /\ (t.what = "remove" /\ index'[r] = None) \/ (t.what \in {"update", "upsert"} /\ index'[r] = t.status)
                 /\ t.what = "update" => t.seen[r] # None /\ t.at = "read"
  <2>1. KindOf[r] = FileOf[s] /\ index'[r] = new[r]
    BY <1>6, <1>12
  <2>2. CASE r # t.run /\ t.torn
    BY <1>7, <1>12, <2>2
  <2>3. CASE r # t.run /\ ~t.torn
    <3>1. t.what # "rebuild" /\ new[r] = t.seen[r]
      BY <1>8, <1>9, <2>3 DEF Rows
    <3>2. t.seen[r] = index[r]
      BY <1>3, <1>4, <2>1, <2>3 DEF Sound, SeenByTask
    <3> QED
      BY <1>12, <2>1, <3>1, <3>2
  <2>4. CASE r = t.run
    <3>1. t.what # "rebuild"
      BY <1>8, <2>4, RunHistoryAssumption
    <3>2. t.what = "remove" => index'[r] = None
      BY <1>8, <1>9, <2>1, <2>4 DEF Rows
    <3>3. t.what \in {"update", "upsert"} => index'[r] = t.status
      BY <1>8, <1>9, <2>1, <2>4 DEF Rows
    <3>4. t.what = "update" => t.seen[r] # None
      BY <1>4, <2>4 DEF Idle
    <3>5. t.what \in {"upsert", "update", "remove"} /\ t.what # "reader" /\ t.at = "read"
      BY <1>4, <1>8, <3>1
    <3> QED
      BY <2>4, <3>2, <3>3, <3>4, <3>5
  <2> QED
    BY <2>2, <2>3, <2>4
<1>13. /\ t.what = "upsert" => index'[t.run] # None
       /\ t.what = "update" => index'[t.run] \in {t.status, None}
       /\ t.what = "remove" => index'[t.run] = None
  <2>1. t.what # "rebuild" => index'[t.run] = new[t.run]
    BY <1>6, <1>8
  <2> QED
    BY <1>8, <1>9, <2>1, RunHistoryAssumption DEF Rows
<1>14. queue' = [x \in Stores |-> CASE x = s -> Without(s, i)
                                      [] x \in SharersOf(s) /\ index' # index -> TornQueue(queue[x])
                                      [] OTHER -> queue[x]]
  <2>1. queue' = [x \in Stores |-> CASE x = s -> Without(s, i)
                                      [] x \in SharersOf(s) /\ [r \in Runs |-> IF KindOf[r] = FileOf[s] THEN new[r] ELSE index[r]] # index
                                           -> TornQueue(queue[x])
                                      [] OTHER -> queue[x]]
    BY <1>1, <1>3 DEF TaskWrites, SharersOf, TornQueue, TornTask
  <2> QED
    BY <1>6, <2>1
<1>15. /\ queue'[s] = Without(s, 1)
       /\ \A x \in Stores \ {s} :
            /\ x \in SharersOf(s) /\ index' # index => queue'[x] = TornQueue(queue[x])
            /\ x \notin SharersOf(s) \/ index' = index => queue'[x] = queue[x]
  <2>1. \A x \in Stores : queue'[x] = CASE x = s -> Without(s, i)
                                        [] x \in SharersOf(s) /\ index' # index -> TornQueue(queue[x])
                                        [] OTHER -> queue[x]
    BY <1>14, Zenon
  <2>2. queue'[s] = Without(s, i)
    <3>1. s \notin SharersOf(s)
      BY DEF SharersOf
    <3>2. queue'[s] = CASE s = s -> Without(s, i)
                        [] s \in SharersOf(s) /\ index' # index -> TornQueue(queue[s])
                        [] OTHER -> queue[s]
      BY <2>1, Zenon
    <3> QED
      BY <3>1, <3>2
  <2>3. ASSUME NEW x \in Stores \ {s}, x \in SharersOf(s), index' # index PROVE queue'[x] = TornQueue(queue[x])
    BY <2>1, <2>3
  <2>4. ASSUME NEW x \in Stores \ {s}, x \notin SharersOf(s) \/ index' = index PROVE queue'[x] = queue[x]
    BY <2>1, <2>4
  <2> QED
    BY <1>3, <2>2, <2>3, <2>4
<1>16. queue \in [Stores -> Seq(TaskKind)] /\ index \in Rows
  BY <1>2 DEF HistoryTypeOK
<1>17. queue' \in [Stores -> Seq(TaskKind)]
  <2>1. Without(s, 1) \in Seq(TaskKind)
    BY <1>3, WithoutFacts
  <2>2. \A x \in Stores : queue'[x] \in Seq(TaskKind)
    BY <1>15, <1>16, <2>1, TornQueueFacts
  <2>3. DOMAIN queue' = Stores /\ queue' = [x \in Stores |-> queue'[x]]
    BY <1>14
  <2> QED
    BY <2>2, <2>3
<1>18. ASSUME NEW x \in Stores \ {s}
       PROVE  /\ DOMAIN queue'[x] = DOMAIN queue[x]
              /\ \A j \in DOMAIN queue[x] :
                   \/ /\ queue'[x][j] = queue[x][j]
                      /\ queue[x][j].at = "read" /\ ~queue[x][j].torn => \A r \in Runs : KindOf[r] = FileOf[x] => index'[r] = index[r]
                   \/ queue[x][j].at = "read" /\ queue'[x][j] = TornTask(queue[x][j])
  <2>1. CASE FileOf[x] # FileOf[s]
    <3>1. queue'[x] = queue[x]
      BY <1>15, <2>1 DEF SharersOf
    <3>2. \A r \in Runs : KindOf[r] = FileOf[x] => index'[r] = index[r]
      BY <1>6, <2>1
    <3> QED
      BY <3>1, <3>2
  <2>2. CASE index' = index
    BY <1>15, <2>2
  <2>3. CASE queue[x] = <<>>
    <3>1. queue'[x] = queue[x] /\ DOMAIN queue[x] = {}
      BY <1>15, <2>3 DEF SharersOf
    <3> QED
      BY <3>1
  <2>4. CASE FileOf[x] = FileOf[s] /\ index' # index /\ queue[x] # <<>>
    <3>1. queue'[x] = TornQueue(queue[x])
      BY <1>15, <2>4 DEF SharersOf
    <3>2. /\ DOMAIN queue'[x] = DOMAIN queue[x]
          /\ \A j \in DOMAIN queue[x] :
               IF queue[x][j].at = "read" THEN queue'[x][j] = TornTask(queue[x][j]) ELSE queue'[x][j] = queue[x][j]
      BY <1>16, <3>1, TornQueueFacts
    <3> QED
      BY <3>2
  <2> QED
    BY <2>1, <2>2, <2>3, <2>4
<1>19. Finishes(s, t, "saved")
  BY <1>1, <1>3, <1>4, <1>5, <1>11, <1>12, <1>13, <1>15, <1>17, <1>18 DEF Finishes
<1> QED
  BY <1>19, FinishesKeep

(* (as TaskReads leaves its task)                                           *)
HasRead(t, seen, torn) == [t EXCEPT !.at = "read", !.seen = seen, !.torn = torn]

(* what a task is when it has read                                          *)
LEMMA HasReadFacts ==
  ASSUME NEW t \in TaskKind, NEW seen \in Rows, NEW torn \in BOOLEAN, NEW u, u = HasRead(t, seen, torn)
  PROVE  /\ u \in TaskKind /\ u.who = t.who /\ u.what = t.what /\ u.run = t.run /\ u.status = t.status
         /\ u.at = "read" /\ u.seen = seen /\ u.torn = torn
BY DEF HasRead, TaskKind

(* and the queues by then                                                   *)
LEMMA ReadsQueue ==
  ASSUME HistoryTypeOK, NEW s \in Stores, 1 \in DOMAIN queue[s], NEW u \in TaskKind,
         NEW next, next = [queue[s] EXCEPT ![1] = u], queue' = [queue EXCEPT ![s] = next]
  PROVE  /\ queue' \in [Stores -> Seq(TaskKind)] /\ DOMAIN queue'[s] = DOMAIN queue[s] /\ queue'[s][1] = u
         /\ \A j \in DOMAIN queue[s] : j # 1 => queue'[s][j] = queue[s][j]
         /\ \A x \in Stores \ {s} : queue'[x] = queue[x]
<1>1. queue \in [Stores -> Seq(TaskKind)]
  BY DEF HistoryTypeOK
<1>2. PICK q : q = queue[s]
  OBVIOUS
<1>3. q \in Seq(TaskKind) /\ 1 \in DOMAIN q
  BY <1>1, <1>2
<1>4. next \in Seq(TaskKind) /\ DOMAIN next = DOMAIN q /\ next[1] = u /\ \A j \in DOMAIN q : j # 1 => next[j] = q[j]
  BY <1>2, <1>3
<1>5. queue'[s] = next /\ \A x \in Stores \ {s} : queue'[x] = queue[x]
  BY <1>1
<1>6. queue' \in [Stores -> Seq(TaskKind)]
  BY <1>1, <1>4
<1> QED
  BY <1>2, <1>4, <1>5, <1>6

(* the invariants that say nothing of the queues                            *)
LEMMA RestStays ==
  ASSUME PlacesInv, CompanyInv, WrittenInv, KnownInv, GoneInv, EndedInv,
         UNCHANGED <<index, manifest, alive, made, act, known, gone, ended, lost>>
  PROVE  PlacesInv' /\ CompanyInv' /\ WrittenInv' /\ KnownInv' /\ GoneInv' /\ EndedInv'
<1>1. PlacesInv' /\ CompanyInv'
  BY DEF PlacesInv, Placed, CompanyInv
<1>2. WrittenInv' /\ KnownInv'
  BY DEF WrittenInv, HasManifest, HasRow, KnownInv, ListedUntilDeleted
<1>3. GoneInv' /\ EndedInv'
  BY DEF GoneInv, Undisturbed, Away, EndedInv, AtRest
<1> QED
  BY <1>1, <1>2, <1>3

(* A task that reads the file is the first of its store; it is torn if the  *)
(* read fails, and so is one that rebuilds the index.                       *)
LEMMA TaskReadsKeeps ==
  ASSUME HistoryInv, NEW s \in Stores, NEW i \in Turn(s), TaskReads(s, i)
  PROVE  HistoryInv'
<1>1. PICK t : t = queue[s][1]
  OBVIOUS
<1>2. HistoryTypeOK /\ TasksInv /\ OneTaskEach
  BY DEF HistoryInv, QueueInv
<1>3. /\ i = 1 /\ 1 \in DOMAIN queue[s] /\ queue[s] \in Seq(TaskKind) /\ Len(queue[s]) >= 1
      /\ t \in TaskKind /\ t.who \in Actors /\ Sound(s, t)
  BY <1>1, TurnFacts
<1>4. UNCHANGED <<index, manifest, alive, made, act, watched, inbox, calls, events, known, gone, ended, lost>>
  BY DEF TaskReads, history
<1>5. t.what # "reader" /\ t.at = "queued"
  BY <1>1, <1>3 DEF TaskReads
<1>6. faults' \in 0 .. MaxFaults
  BY <1>2, FaultFacts DEF TaskReads, HistoryTypeOK
<1>7. PICK seen \in Rows, torn \in BOOLEAN :
        /\ queue' = [queue EXCEPT ![s][1].at = "read", ![s][1].seen = seen, ![s][1].torn = torn]
        /\ torn \/ seen = index
        /\ t.what = "rebuild" => torn
        /\ seen \in {index, NoRows}
  <2>1. index \in Rows /\ NoRows \in Rows /\ (t.what = "rebuild") \in BOOLEAN
    BY <1>2 DEF HistoryTypeOK, NoRows, Rows, Row
  <2> QED
    BY <1>1, <1>3, <2>1 DEF TaskReads
<1>8. PICK u : u = HasRead(t, seen, torn)
  OBVIOUS
<1>9. /\ u \in TaskKind /\ u.who = t.who /\ u.what = t.what /\ u.run = t.run /\ u.status = t.status
      /\ u.at = "read" /\ u.seen = seen /\ u.torn = torn
  BY <1>3, <1>7, <1>8, HasReadFacts
<1>10. /\ queue' \in [Stores -> Seq(TaskKind)] /\ DOMAIN queue'[s] = DOMAIN queue[s] /\ queue'[s][1] = u
       /\ \A j \in DOMAIN queue[s] : j # 1 => queue'[s][j] = queue[s][j]
       /\ \A x \in Stores \ {s} : queue'[x] = queue[x]
  <2>1. queue' = [queue EXCEPT ![s] = [queue[s] EXCEPT ![1] = u]]
    BY <1>1, <1>7, <1>8 DEF HasRead
  <2>2. PICK next : next = [queue[s] EXCEPT ![1] = u]
    OBVIOUS
  <2>3. queue' = [queue EXCEPT ![s] = next]
    BY <2>1, <2>2
  <2> QED
    BY <1>2, <1>3, <1>9, <2>2, <2>3, ReadsQueue
<1>11. ASSUME NEW x \in Stores, NEW j \in DOMAIN queue'[x]
       PROVE  /\ j \in DOMAIN queue[x] /\ queue'[x][j].who = queue[x][j].who
              /\ (x = s /\ j = 1 /\ queue'[x][j] = u) \/ queue'[x][j] = queue[x][j]
  <2>1. CASE x = s /\ j = 1
    BY <1>1, <1>3, <1>9, <1>10, <2>1
  <2>2. CASE x # s \/ j # 1
    BY <1>10, <2>2
  <2> QED
    BY <2>1, <2>2
<1>12. Sound(s, u)'
  <2>1. TaskOf(s, u, act[u.who])'
    BY <1>3, <1>4, <1>9 DEF Sound, TaskOf
  <2>2. u.what = "update" => u.run \in Runs
    <3>1. u.what = "update" => act[u.who].run = u.run /\ act[u.who].op # "list" /\ act[u.who].at = "saving"
      BY <1>3, <1>5, <1>9 DEF Sound, TaskOf
    <3> QED
      BY <1>3, <1>9, <3>1, ActorFacts DEF Placed, PlacesOf
  <2>3. u.what = "update" /\ u.seen[u.run] # None => index'[u.run] # None
    BY <1>4, <1>7, <1>9, <2>2 DEF NoRows
  <2>4. ~u.torn => \A r \in Runs : KindOf[r] = FileOf[s] => u.seen[r] = index'[r]
    BY <1>4, <1>7, <1>9
  <2>5. SeenByTask(s, u)'
    BY <1>5, <1>7, <1>9, <2>3, <2>4 DEF SeenByTask
  <2> QED
    BY <2>1, <2>5 DEF Sound
<1>13. TasksInv'
  <2> SUFFICES ASSUME NEW x \in Stores, NEW j \in DOMAIN queue'[x], NEW w, w = queue'[x][j]
               PROVE  Sound(x, w)' /\ (w.at = "read" => j = 1)
    BY DEF TasksInv
  <2>1. CASE x = s /\ j = 1 /\ w = u
    BY <1>12, <2>1 DEF Sound, TaskOf, SeenByTask
  <2>2. CASE j \in DOMAIN queue[x] /\ w = queue[x][j]
    <3>1. Sound(x, w) /\ (w.at = "read" => j = 1)
      BY <1>2, <2>2 DEF TasksInv
    <3> QED
      BY <1>4, <3>1 DEF Sound, TaskOf, SeenByTask
  <2> QED
    BY <1>11, <2>1, <2>2
<1>14. OneTaskEach'
  BY <1>2, <1>11 DEF OneTaskEach
<1>15. HistoryTypeOK'
  BY <1>2, <1>4, <1>6, <1>10 DEF HistoryTypeOK
<1>16. PlacesInv' /\ CompanyInv' /\ WrittenInv' /\ KnownInv' /\ GoneInv' /\ EndedInv'
  BY <1>4, RestStays DEF HistoryInv
<1> QED
  BY <1>13, <1>14, <1>15, <1>16 DEF HistoryInv, QueueInv

(* a step of a store                                                        *)
LEMMA StoreStepKeeps ==
  ASSUME HistoryInv, NEW s \in Stores, StoreStep(s)
  PROVE  HistoryInv'
BY ReadyKeeps, TaskReadsKeeps, TaskIdlesKeeps, TaskWritesKeeps, TaskFailsKeeps DEF StoreStep

-----------------------------------------------------------------------------
(* Every step keeps the invariant.                                          *)
LEMMA HistoryInvStep == HistoryInv /\ [Next]_vars => HistoryInv'
<1> SUFFICES ASSUME HistoryInv, [Next]_vars PROVE HistoryInv'
  OBVIOUS
<1>1. ASSUME NEW a \in Callers, Call(a) PROVE HistoryInv'
  BY <1>1, CallKeeps
<1>2. ASSUME NEW a \in Actors, Proceed(a) PROVE HistoryInv'
  BY <1>2, ProceedKeeps
<1>3. ASSUME NEW s \in Stores, StoreStep(s) PROVE HistoryInv'
  BY <1>3, StoreStepKeeps
<1>4. ASSUME NEW s \in Sessions, Disconnect(s) PROVE HistoryInv'
  BY <1>4, DisconnectKeeps
<1>5. ASSUME NEW s \in Sessions, TakeEvent(s) PROVE HistoryInv'
  BY <1>5, TakeEventKeeps
<1>6. ASSUME NEW s \in Sessions, NEW r \in Runs, Connect(s, r) PROVE HistoryInv'
  BY <1>6, ConnectKeeps
<1>7. ASSUME NEW r \in Runs, Emit(r) \/ TeamEmit(r) PROVE HistoryInv'
  BY <1>7, EmitKeeps, TeamEmitKeeps
<1>8. CASE Crash
  BY <1>8, CrashKeeps
<1>9. CASE UNCHANGED vars
  <2>1. /\ UNCHANGED <<act, queue, index, manifest, alive, made, calls, faults, known, gone, lost>>
        /\ UNCHANGED <<watched, inbox, events, ended>>
    BY <1>9 DEF vars, bounds, history
  <2>2. HistoryTypeOK
    BY DEF HistoryInv
  <2> QED
    BY <2>1, <2>2, SocketKeeps DEF HistoryTypeOK
<1> QED
  BY <1>1, <1>2, <1>3, <1>4, <1>5, <1>6, <1>7, <1>8, <1>9 DEF Next

(* The whole invariant of the run history, for any number of callers,       *)
(* sockets and runs.                                                        *)
THEOREM HistoryInvariance == Spec => []HistoryInv
<1>1. Init => HistoryInv
  BY HistoryInitInv
<1>2. HistoryInv /\ [Next]_vars => HistoryInv'
  BY HistoryInvStep
<1> QED
  BY <1>1, <1>2, PTL DEF Spec

(* The index, the manifests, the queues of the stores and the operations    *)
(* under way have their types.                                              *)
THEOREM HistoryTypeCorrect == Spec => []HistoryTypeOK
<1>1. HistoryInv => HistoryTypeOK
  BY DEF HistoryInv
<1> QED
  BY <1>1, HistoryInvariance, PTL

(* The row and the manifest of a run that was made or restored stay until   *)
(* somebody deletes the run, whatever is written of other runs meanwhile:   *)
(* only a torn write, which the run is lost to, drops a row of another run. *)
THEOREM RowsStayUntilDeleted == Spec => []ListedUntilDeleted
<1>1. HistoryInv => ListedUntilDeleted
  BY DEF HistoryInv, KnownInv
<1> QED
  BY <1>1, HistoryInvariance, PTL

(* A run that was deleted while no other call was about it has no manifest  *)
(* and no row again: not by the events of it that waited for the store, and *)
(* not by a later continuation.                                             *)
THEOREM DeletedRunsStayAway == Spec => []DeletedIsGone
<1>1. HistoryInv => DeletedIsGone
  BY DEF HistoryInv, GoneInv, Away, DeletedIsGone
<1> QED
  BY <1>1, HistoryInvariance, PTL

(* A run that was terminated while nothing else was done with it is not     *)
(* listed as active.                                                        *)
THEOREM TerminatedRunsAreIdle == Spec => []IdleOnceTerminated
<1>1. HistoryInv => IdleOnceTerminated
  BY DEF HistoryInv, EndedInv, AtRest, IdleOnceTerminated
<1> QED
  BY <1>1, HistoryInvariance, PTL

=============================================================================
