------------------------------- MODULE TeamStream -------------------------------
(****************************************************************************)
(* The WebSocket streams of agent teams: AgentTeamStreamHandler with its    *)
(* sessions and their stream loops, the aggregator's numbering, and the     *)
(* rebroadcast of remote events through the run locator, while the runs of  *)
(* one team definition start, stop and are resolved by concurrent commands. *)
(* Of the run maps TeamRun has the details; here a run is its version.      *)
(*                                                                          *)
(* A message that was sent while its team had no run has no envelope and is *)
(* not kept.                                                                *)
(*                                                                          *)
(* Bounds: MaxRuns runs, MaxEvents events of each team's own stream, and    *)
(* MaxRemote events that workers post.                                      *)
(****************************************************************************)
EXTENDS TeamConnections, Sequences, FiniteSets

CONSTANTS
  Teams, Commands,
  TeamOf,      \* the team of a session or of a command
  MaxEvents, MaxRemote,
  None

ASSUME TeamStreamAssumption ==
  /\ \A x \in Sessions \cup Commands : TeamOf[x] \in Teams
  /\ MaxRuns \in Nat /\ MaxEvents \in Nat /\ MaxRemote \in Nat
  /\ None \notin Teams

Worker == None      \* the source of remote events

VARIABLES
  byTeam,      \* TeamRunLocator.recordByTeamId, the record's run
  byRun,       \* TeamRunLocator.recordByRunId, the record's team
  command,     \* resolveOrCreateRun calls
  sequence,    \* TeamEventAggregator.sequenceByRunId
  emitted,     \* events of each team's own stream, and of workers, so far
  session,     \* the life of a WebSocket session
  queue,       \* the events its stream holds for the session's loop
  sent         \* history: the messages each connection received

vars == <<current, started, byTeam, byRun, command, sequence, emitted,
          session, queue, sent>>

Init ==
  /\ NoRunYet
  /\ byTeam = [t \in Teams |-> NoRun]
  /\ byRun = [r \in Runs |-> None]
  /\ command = [c \in Commands |-> "new"]
  /\ sequence = [r \in Runs |-> 0]
  /\ emitted = [source \in Teams \cup {Worker} |-> 0]
  /\ session = [s \in Sessions |-> "new"]
  /\ queue = [s \in Sessions |-> <<>>]
  /\ sent = [s \in Sessions |-> <<>>]

runVars == <<current, started, byTeam, byRun, command>>
streamVars == <<sequence, emitted, session, queue, sent>>

-----------------------------------------------------------------------------
(* The run locator                                                          *)

ActiveRun(t) == IF byTeam[t] = current THEN current ELSE NoRun

(* resolveActiveRun forgets a record whose run is gone                      *)
ForgetStale(t) ==
  LET stale == byTeam[t] # NoRun /\ byTeam[t] # current
  IN  /\ byTeam' = IF stale THEN [byTeam EXCEPT ![t] = NoRun] ELSE byTeam
      /\ byRun' = IF stale THEN [byRun EXCEPT ![byTeam[t]] = None] ELSE byRun

(* resolveOrCreateRun up to the await of the team's definition              *)
Resolve(c) ==
  /\ command[c] = "new"
  /\ ForgetStale(TeamOf[c])
  /\ command' = [command EXCEPT ![c] =
                   IF ActiveRun(TeamOf[c]) # NoRun THEN "resolved" ELSE "loading"]
  /\ UNCHANGED <<current, started, streamVars>>

(* startRunIfMissing and the two records                                    *)
Loaded(c) ==
  LET r == IF current # NoRun THEN current ELSE started + 1
  IN  /\ command[c] = "loading"
      /\ r \in Runs
      /\ command' = [command EXCEPT ![c] = "resolved"]
      /\ current' = r
      /\ started' = r
      /\ byTeam' = [byTeam EXCEPT ![TeamOf[c]] = r]
      /\ byRun' = [byRun EXCEPT ![r] = TeamOf[c]]
      /\ UNCHANGED streamVars

StopRun ==
  /\ StopActiveRun
  /\ UNCHANGED <<byTeam, byRun, command, streamVars>>

-----------------------------------------------------------------------------
(* Sessions                                                                 *)

(* a team without a stream leaves its session in the session manager        *)
Connect(s) ==
  /\ session[s] = "new"
  /\ \E at \in {"open", "unserved"} : session' = [session EXCEPT ![s] = at]
  /\ UNCHANGED <<runVars, sequence, emitted, queue, sent>>

Open(t) == {s \in Sessions : session[s] = "open" /\ TeamOf[s] = t}

Emit(t) ==
  /\ emitted[t] < MaxEvents
  /\ emitted' = [emitted EXCEPT ![t] = @ + 1]
  /\ queue' = [s \in Sessions |-> IF s \in Open(t) THEN Append(queue[s], emitted[t] + 1)
                                  ELSE queue[s]]
  /\ UNCHANGED <<runVars, sequence, session, sent>>

(* the aggregator's next number of the run                                  *)
Number(r) == sequence' = [sequence EXCEPT ![r] = @ + 1]

Deliver(receivers, r, source, event) ==
  LET message == [run |-> r, number |-> sequence[r] + 1, source |-> source, event |-> event]
  IN  sent' = [s \in Sessions |-> IF s \in receivers THEN Append(sent[s], message) ELSE sent[s]]

(* the loop converts the next event, numbers it and sends it; a connection  *)
(* that is closing loses it                                                 *)
Stream(s) ==
  LET t == TeamOf[s]
      r == ActiveRun(t)
  IN  /\ queue[s] # <<>>
      /\ queue' = [queue EXCEPT ![s] = Tail(@)]
      /\ ForgetStale(t)
      /\ \/ r = NoRun /\ UNCHANGED <<sequence, sent>>
         \/ r # NoRun /\ Number(r) /\ Deliver({s} \cap Open(t), r, t, Head(queue[s]))
      /\ UNCHANGED <<current, started, command, emitted, session>>

Disconnect(s) ==
  /\ session[s] = "open"
  /\ session' = [session EXCEPT ![s] = "closing"]
  /\ UNCHANGED <<runVars, sequence, emitted, queue, sent>>

(* the closed stream ends the loop, with what it still held                 *)
Disconnected(s) ==
  /\ session[s] = "closing"
  /\ session' = [session EXCEPT ![s] = "closed"]
  /\ queue' = [queue EXCEPT ![s] = <<>>]
  /\ UNCHANGED <<runVars, sequence, emitted, sent>>

-----------------------------------------------------------------------------
(* Remote events.  The route awaits its fence over microtasks only, which   *)
(* no other request, file or socket callback interrupts, so the fence, the  *)
(* numbering and the rebroadcast are one step.                              *)

Rebroadcast(r, event) ==
  LET t == byRun[r]
  IN  \/ t = None /\ UNCHANGED <<byTeam, byRun, sent>>
      \/ /\ t # None
         /\ ForgetStale(t)
         /\ Deliver(IF ActiveRun(t) # NoRun THEN Open(t) ELSE {}, r, Worker, event)

(* (slip: the run fence is left out)                                        *)
IngestUnfenced(r) ==
  /\ emitted[Worker] < MaxRemote
  /\ emitted' = [emitted EXCEPT ![Worker] = @ + 1]
  /\ Number(r)
  /\ Rebroadcast(r, emitted[Worker] + 1)
  /\ UNCHANGED <<current, started, command, session, queue>>

(* an event of run r is posted to the host                                  *)
Ingest(r) ==
  /\ emitted[Worker] < MaxRemote
  /\ emitted' = [emitted EXCEPT ![Worker] = @ + 1]
  /\ \/ r # current /\ UNCHANGED <<byTeam, byRun, sequence, sent>>
     \/ r = current /\ Number(r) /\ Rebroadcast(r, emitted[Worker] + 1)
  /\ UNCHANGED <<current, started, command, session, queue>>

-----------------------------------------------------------------------------
Next ==
  \/ \E c \in Commands : Resolve(c) \/ Loaded(c)
  \/ \E s \in Sessions : Connect(s) \/ Stream(s) \/ Disconnect(s) \/ Disconnected(s)
  \/ \E t \in Teams : Emit(t)
  \/ \E r \in 1 .. started : Ingest(r)
  \/ StopRun

Spec == Init /\ [][Next]_vars

-----------------------------------------------------------------------------
(* Properties                                                               *)

(* On one connection the envelopes' numbers increase, over local and remote *)
(* events and although all the sessions of all teams share the counter, and *)
(* never fall back to an older run ("attaches ordered team stream envelopes *)
(* on streamed team events").  And a number of a run stands for one event   *)
(* on every connection.                                                     *)
StreamIsOrdered ==
  /\ \A s \in Sessions : \A i, j \in 1 .. Len(sent[s]) :
       i < j => \/ sent[s][i].run < sent[s][j].run
                \/ sent[s][i].run = sent[s][j].run /\ sent[s][i].number < sent[s][j].number
  /\ \A s, u \in Sessions : \A i \in 1 .. Len(sent[s]), j \in 1 .. Len(sent[u]) :
       LET m == sent[s][i]
           n == sent[u][j]
       IN  (m.run = n.run /\ m.number = n.number) => (m.source = n.source /\ m.event = n.event)
=============================================================================
