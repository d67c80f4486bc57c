------------------------- MODULE TeamConnectionsProofs -------------------------
(****************************************************************************)
(* What holds on the connections of a team definition, for any number of    *)
(* teams, connections, commands, runs, events and approval requests.        *)
(*                                                                          *)
(* TeamStream: whatever numbers an event does so for the definition's last  *)
(* run, and every number that was sent is below that run's counter; so the  *)
(* next envelope comes after all those on every connection, and is not      *)
(* taken for any of them.                                                   *)
(*                                                                          *)
(* ToolApproval: an entry of the policy is lost only to an answer that was  *)
(* accepted in the entry's own run.                                         *)
(****************************************************************************)
EXTENDS TeamStream, ToolApproval, TLAPS

Message == [run : Runs, number : Nat, source : Teams \cup {Worker}, event : Nat]

StreamTypeOK ==
  /\ current \in Runs \cup {NoRun} /\ started \in 0 .. MaxRuns
  /\ byTeam \in [Teams -> Runs \cup {NoRun}]
  /\ byRun \in [Runs -> Teams \cup {None}]
  /\ command \in [Commands -> {"new", "loading", "resolved"}]
  /\ sequence \in [Runs -> Nat]
  /\ emitted \in [Teams \cup {Worker} -> Nat]
  /\ session \in [Sessions -> {"new", "open", "unserved", "closing", "closed"}]
  /\ queue \in [Sessions -> Seq(Nat)]
  /\ sent \in [Sessions -> Seq(Message)]

(* the active run is the last one that was started                          *)
LastRunInv == current # NoRun => current = started

(* no envelope is ahead of its run's counter, or of the runs                *)
CountedInv ==
  \A s \in Sessions : \A i \in 1 .. Len(sent[s]) :
    sent[s][i].run <= started /\ sent[s][i].number <= sequence[sent[s][i].run]

StreamInv == StreamTypeOK /\ LastRunInv /\ CountedInv /\ StreamIsOrdered

-----------------------------------------------------------------------------
(* Nothing was sent yet.                                                    *)
LEMMA StreamInitInv == Init => StreamInv
BY TeamStreamAssumption
   DEF Init, NoRunYet, StreamInv, StreamTypeOK, LastRunInv, CountedInv, StreamIsOrdered,
       Runs, NoRun, Worker

(* What the locator forgets leaves its maps well formed.                    *)
LEMMA ForgetTypes ==
  ASSUME StreamTypeOK, NEW t \in Teams, ForgetStale(t)
  PROVE  /\ byTeam' \in [Teams -> Runs \cup {NoRun}]
         /\ byRun' \in [Runs -> Teams \cup {None}]
BY DEF StreamTypeOK, ForgetStale

(* An envelope of the last run, numbered by its counter, on any connections. *)
LEMMA DeliverTypes ==
  ASSUME StreamTypeOK, NEW receivers, NEW r \in Runs, Number(r),
         NEW source \in Teams \cup {Worker}, NEW event \in Nat,
         Deliver(receivers, r, source, event)
  PROVE  /\ sequence' \in [Runs -> Nat]
         /\ sent' \in [Sessions -> Seq(Message)]
<1> DEFINE message == [run |-> r, number |-> sequence[r] + 1, source |-> source, event |-> event]
<1>1. sequence' \in [Runs -> Nat]
  BY DEF StreamTypeOK, Number
<1>2. message \in Message
  BY DEF StreamTypeOK, Message
<1>3. sent' = [s \in Sessions |-> IF s \in receivers THEN Append(sent[s], message) ELSE sent[s]]
  BY DEF Deliver
<1> HIDE DEF message
<1>4. ASSUME NEW s \in Sessions
      PROVE  sent[s] \in Seq(Message) /\ Append(sent[s], message) \in Seq(Message)
  BY <1>2 DEF StreamTypeOK
<1> QED
  BY <1>1, <1>3, <1>4

LEMMA SentFacts ==
  ASSUME StreamTypeOK, NEW s \in Sessions, NEW i \in 1 .. Len(sent[s])
  PROVE  /\ sent[s][i].run \in Runs /\ sent[s][i].number \in Nat
         /\ sequence[sent[s][i].run] \in Nat
<1>1. sent[s] \in Seq(Message)
  BY DEF StreamTypeOK
<1>2. sent[s][i] \in Message
  BY <1>1
<1> QED
  BY <1>2 DEF StreamTypeOK, Message

LEMMA DeliverPlaces ==
  ASSUME StreamTypeOK, NEW receivers, NEW r \in Runs,
         NEW source \in Teams \cup {Worker}, NEW event \in Nat,
         Deliver(receivers, r, source, event),
         NEW s \in Sessions, NEW i \in 1 .. Len(sent'[s])
  PROVE  \/ i \in 1 .. Len(sent[s]) /\ sent'[s][i] = sent[s][i]
         \/ /\ i = Len(sent[s]) + 1
            /\ sent'[s][i] = [run |-> r, number |-> sequence[r] + 1,
                              source |-> source, event |-> event]
<1> DEFINE message == [run |-> r, number |-> sequence[r] + 1, source |-> source, event |-> event]
<1>1. sent[s] \in Seq(Message)
  BY DEF StreamTypeOK
<1>2. sent'[s] = Append(sent[s], message) \/ sent'[s] = sent[s]
  BY DEF Deliver, StreamTypeOK
<1> HIDE DEF message
<1>3. CASE sent'[s] = Append(sent[s], message)
  <2>1. /\ Len(sent'[s]) = Len(sent[s]) + 1 /\ Len(sent[s]) \in Nat
        /\ sent'[s][Len(sent[s]) + 1] = message
        /\ \A k \in 1 .. Len(sent[s]) : sent'[s][k] = sent[s][k]
    BY <1>1, <1>3
  <2>2. i \in 1 .. Len(sent[s]) \/ i = Len(sent[s]) + 1
    BY <2>1
  <2> QED
    BY <2>1, <2>2 DEF message
<1> QED
  BY <1>2, <1>3 DEF message

LEMMA DeliverStep ==
  ASSUME StreamInv, NEW receivers, NEW r \in Runs, r = started, started' = started,
         NEW source \in Teams \cup {Worker}, NEW event \in Nat,
         Number(r), Deliver(receivers, r, source, event)
  PROVE  CountedInv' /\ StreamIsOrdered'
<1> DEFINE message == [run |-> r, number |-> sequence[r] + 1, source |-> source, event |-> event]
           Old(s, i) == i \in 1 .. Len(sent[s]) /\ sent'[s][i] = sent[s][i]
           New(s, i) == i = Len(sent[s]) + 1 /\ sent'[s][i] = message
<1>1. ASSUME NEW s \in Sessions, NEW i \in 1 .. Len(sent'[s])
      PROVE  Old(s, i) \/ New(s, i)
  <2>1. StreamTypeOK
    BY DEF StreamInv
  <2> QED
    BY <2>1, DeliverPlaces
<1> HIDE DEF Old, New
<1>2. /\ sequence' \in [Runs -> Nat] /\ sequence'[r] = sequence[r] + 1
      /\ \A q \in Runs : sequence[q] \in Nat /\ sequence[q] <= sequence'[q]
  BY DEF StreamInv, StreamTypeOK, Number
<1>3. ASSUME NEW s \in Sessions, NEW i \in 1 .. Len(sent[s])
      PROVE  /\ sent[s][i].run \in Runs /\ sent[s][i].number \in Nat
             /\ sent[s][i].run <= r
             /\ sent[s][i].number <= sequence[sent[s][i].run]
             /\ sent[s][i].run = r => sent[s][i].number < message.number
  <2>1. /\ sent[s][i].run \in Runs /\ sent[s][i].number \in Nat
        /\ sequence[sent[s][i].run] \in Nat
    BY SentFacts DEF StreamInv
  <2>2. sent[s][i].run <= started /\ sent[s][i].number <= sequence[sent[s][i].run]
    BY DEF StreamInv, CountedInv
  <2> QED
    BY <1>2, <2>1, <2>2
<1>4. CountedInv'
  <2> SUFFICES ASSUME NEW s \in Sessions, NEW i \in 1 .. Len(sent'[s])
               PROVE  sent'[s][i].run <= started /\ sent'[s][i].number <= sequence'[sent'[s][i].run]
    BY DEF CountedInv
  <2>1. CASE Old(s, i)
    <3>1. /\ sent[s][i].run \in Runs /\ sent[s][i].number \in Nat
          /\ sent[s][i].run <= r /\ sent[s][i].number <= sequence[sent[s][i].run]
      BY <1>3, <2>1 DEF Old
    <3>2. sequence[sent[s][i].run] <= sequence'[sent[s][i].run]
      BY <1>2, <3>1
    <3> QED
      BY <1>2, <2>1, <3>1, <3>2 DEF Old, Runs
  <2>2. CASE New(s, i)
    BY <1>2, <2>2 DEF New, Runs
  <2> QED
    BY <1>1, <2>1, <2>2
<1>5. ASSUME NEW s \in Sessions, NEW i \in 1 .. Len(sent'[s]), NEW j \in 1 .. Len(sent'[s]), i < j
      PROVE  \/ sent'[s][i].run < sent'[s][j].run
             \/ sent'[s][i].run = sent'[s][j].run /\ sent'[s][i].number < sent'[s][j].number
  <2>1. CASE Old(s, i) /\ Old(s, j)
    BY <1>5, <2>1 DEF Old, StreamInv, StreamIsOrdered
  <2>2. CASE Old(s, i) /\ New(s, j)
    BY <1>3, <2>2 DEF Old, New, Runs
  <2>3. CASE New(s, i)
    <3>1. Len(sent[s]) \in Nat
      BY DEF StreamInv, StreamTypeOK
    <3>2. j <= Len(sent[s]) + 1 /\ j \in Nat
      BY <1>1, <3>1 DEF Old, New
    <3> QED
      BY <1>5, <2>3, <3>1, <3>2 DEF New
  <2> QED
    BY <1>1, <2>1, <2>2, <2>3
<1>6. ASSUME NEW s \in Sessions, NEW u \in Sessions,
             NEW i \in 1 .. Len(sent'[s]), NEW j \in 1 .. Len(sent'[u]),
             sent'[s][i].run = sent'[u][j].run, sent'[s][i].number = sent'[u][j].number
      PROVE  sent'[s][i].source = sent'[u][j].source /\ sent'[s][i].event = sent'[u][j].event
  <2>1. CASE Old(s, i) /\ Old(u, j)
    BY <1>6, <2>1 DEF Old, StreamInv, StreamIsOrdered
  <2>2. CASE New(s, i) /\ New(u, j)
    BY <2>2 DEF New
  <2>3. CASE Old(s, i) /\ New(u, j)
    BY <1>3, <1>6, <2>3 DEF Old, New
  <2>4. CASE New(s, i) /\ Old(u, j)
    BY <1>3, <1>6, <2>4 DEF Old, New
  <2> QED
    BY <1>1, <2>1, <2>2, <2>3, <2>4
<1> QED
  BY <1>4, <1>5, <1>6 DEF StreamIsOrdered

(* Where nothing is numbered or sent, only the runs may move on.            *)
LEMMA NothingSentStep ==
  ASSUME StreamInv, UNCHANGED <<sequence, sent>>, started' \in Nat, started <= started'
  PROVE  CountedInv' /\ StreamIsOrdered'
<1>1. StreamIsOrdered'
  <2>1. StreamIsOrdered /\ sent' = sent
    BY DEF StreamInv
  <2>2. ASSUME NEW s \in Sessions,
               NEW i \in 1 .. Len(sent'[s]), NEW j \in 1 .. Len(sent'[s]), i < j
        PROVE  \/ sent'[s][i].run < sent'[s][j].run
               \/ sent'[s][i].run = sent'[s][j].run /\ sent'[s][i].number < sent'[s][j].number
    BY <2>1, <2>2 DEF StreamIsOrdered
  <2>3. ASSUME NEW s \in Sessions, NEW u \in Sessions,
               NEW i \in 1 .. Len(sent'[s]), NEW j \in 1 .. Len(sent'[u]),
               sent'[s][i].run = sent'[u][j].run, sent'[s][i].number = sent'[u][j].number
        PROVE  sent'[s][i].source = sent'[u][j].source /\ sent'[s][i].event = sent'[u][j].event
    BY <2>1, <2>3 DEF StreamIsOrdered
  <2> QED
    BY <2>2, <2>3 DEF StreamIsOrdered
<1>2. ASSUME NEW s \in Sessions, NEW i \in 1 .. Len(sent[s])
      PROVE  sent[s][i].run <= started' /\ sent[s][i].number <= sequence[sent[s][i].run]
  <2>1. sent[s][i].run \in Nat
    BY SentFacts DEF StreamInv, Runs
  <2>2. sent[s][i].run <= started /\ sent[s][i].number <= sequence[sent[s][i].run]
    BY DEF StreamInv, CountedInv
  <2>3. started \in Nat
    BY TeamStreamAssumption DEF StreamInv, StreamTypeOK
  <2> QED
    BY <2>1, <2>2, <2>3
<1>3. CountedInv'
  BY <1>2 DEF CountedInv
<1> QED
  BY <1>1, <1>3

-----------------------------------------------------------------------------
(* The steps of commands and runs.                                          *)
LEMMA ResolveStep ==
  ASSUME StreamInv, NEW c \in Commands, Resolve(c)
  PROVE  StreamInv'
<1>1. TeamOf[c] \in Teams
  BY TeamStreamAssumption
<1>2. UNCHANGED <<current, started, sequence, emitted, session, queue, sent>>
  BY DEF Resolve, streamVars
<1>3. StreamTypeOK'
  BY <1>1, <1>2, ForgetTypes DEF Resolve, StreamInv, StreamTypeOK
<1>4. LastRunInv'
  BY <1>2 DEF StreamInv, LastRunInv
<1> QED
  BY <1>2, <1>3, <1>4, NothingSentStep DEF StreamInv, StreamTypeOK

LEMMA LoadedStep ==
  ASSUME StreamInv, NEW c \in Commands, Loaded(c)
  PROVE  StreamInv'
<1>1. TeamOf[c] \in Teams
  BY TeamStreamAssumption
<1>2. UNCHANGED <<sequence, emitted, session, queue, sent>>
  BY DEF Loaded, streamVars
<1>3. started' \in Runs /\ current' = started' /\ started <= started'
  BY DEF Loaded, StreamInv, StreamTypeOK, LastRunInv, Runs, NoRun
<1>4. StreamTypeOK'
  BY <1>1, <1>2, <1>3, TeamStreamAssumption DEF Loaded, StreamInv, StreamTypeOK, Runs
<1>5. LastRunInv'
  BY <1>3 DEF LastRunInv
<1> QED
  BY <1>2, <1>3, <1>4, <1>5, NothingSentStep DEF StreamInv, Runs

LEMMA StopRunStep ==
  ASSUME StreamInv, StopRun
  PROVE  StreamInv'
<1>1. UNCHANGED <<started, sequence, sent>>
  BY DEF StopRun, StopActiveRun, streamVars
<1>2. StreamTypeOK' /\ LastRunInv'
  BY DEF StopRun, StopActiveRun, streamVars, StreamInv, StreamTypeOK, LastRunInv
<1> QED
  BY <1>1, <1>2, NothingSentStep DEF StreamInv, StreamTypeOK

(* The steps of sessions, except their loops.                               *)
LEMMA SessionStep ==
  ASSUME StreamInv, NEW s \in Sessions, Connect(s) \/ Disconnect(s) \/ Disconnected(s)
  PROVE  StreamInv'
<1>1. UNCHANGED <<current, started, byTeam, byRun, command, sequence, emitted, sent>>
  BY DEF Connect, Disconnect, Disconnected, runVars
<1>2. /\ session' \in [Sessions -> {"new", "open", "unserved", "closing", "closed"}]
      /\ queue' \in [Sessions -> Seq(Nat)]
  <2>1. CASE Connect(s) \/ Disconnect(s)
    BY <2>1 DEF Connect, Disconnect, StreamInv, StreamTypeOK
  <2>2. CASE Disconnected(s)
    <3>1. <<>> \in Seq(Nat)
      OBVIOUS
    <3> QED
      BY <2>2, <3>1 DEF Disconnected, StreamInv, StreamTypeOK
  <2> QED
    BY <2>1, <2>2
<1>3. StreamTypeOK' /\ LastRunInv'
  BY <1>1, <1>2 DEF StreamInv, StreamTypeOK, LastRunInv
<1> QED
  BY <1>1, <1>3, NothingSentStep DEF StreamInv, StreamTypeOK

LEMMA EmitStep ==
  ASSUME StreamInv, NEW t \in Teams, Emit(t)
  PROVE  StreamInv'
<1>1. UNCHANGED <<current, started, byTeam, byRun, command, sequence, session, sent>>
  BY DEF Emit, runVars
<1>2. /\ emitted' \in [Teams \cup {Worker} -> Nat]
      /\ queue' \in [Sessions -> Seq(Nat)]
  BY DEF Emit, StreamInv, StreamTypeOK
<1>3. StreamTypeOK' /\ LastRunInv'
  BY <1>1, <1>2 DEF StreamInv, StreamTypeOK, LastRunInv
<1> QED
  BY <1>1, <1>3, NothingSentStep DEF StreamInv, StreamTypeOK

(* A loop numbers what its queue holds for the active run, if there is one. *)
LEMMA StreamStep ==
  ASSUME StreamInv, NEW s \in Sessions, Stream(s)
  PROVE  StreamInv'
<1>1. TeamOf[s] \in Teams
  BY TeamStreamAssumption
<1>2. UNCHANGED <<current, started, command, emitted, session>>
  BY DEF Stream
<1>3. Head(queue[s]) \in Nat /\ queue' \in [Sessions -> Seq(Nat)]
  BY DEF Stream, StreamInv, StreamTypeOK
<1>4. /\ byTeam' \in [Teams -> Runs \cup {NoRun}]
      /\ byRun' \in [Runs -> Teams \cup {None}]
  BY <1>1, ForgetTypes DEF Stream, StreamInv
<1>5. LastRunInv'
  BY <1>2 DEF StreamInv, LastRunInv
<1>6. CASE UNCHANGED <<sequence, sent>>
  <2>1. StreamTypeOK'
    BY <1>2, <1>3, <1>4, <1>6 DEF StreamInv, StreamTypeOK
  <2> QED
    BY <1>2, <1>5, <1>6, <2>1, NothingSentStep DEF StreamInv, StreamTypeOK
<1>7. CASE /\ ActiveRun(TeamOf[s]) # NoRun
           /\ Number(ActiveRun(TeamOf[s]))
           /\ Deliver({s} \cap Open(TeamOf[s]), ActiveRun(TeamOf[s]), TeamOf[s], Head(queue[s]))
  <2>1. ActiveRun(TeamOf[s]) \in Runs /\ ActiveRun(TeamOf[s]) = started
    BY <1>7 DEF ActiveRun, StreamInv, StreamTypeOK, LastRunInv
  <2>2. StreamTypeOK'
    BY <1>1, <1>2, <1>3, <1>4, <1>7, <2>1, DeliverTypes DEF StreamInv, StreamTypeOK
  <2>3. CountedInv' /\ StreamIsOrdered'
    BY <1>1, <1>2, <1>3, <1>7, <2>1, DeliverStep
  <2> QED
    BY <1>5, <2>2, <2>3 DEF StreamInv
<1> QED
  BY <1>6, <1>7 DEF Stream

(* The fence lets only events of the active run through.                    *)
LEMMA IngestStep ==
  ASSUME StreamInv, NEW r \in 1 .. started, Ingest(r)
  PROVE  StreamInv'
<1>1. UNCHANGED <<current, started, command, session, queue>>
  BY DEF Ingest
<1>2. emitted[Worker] + 1 \in Nat /\ emitted' \in [Teams \cup {Worker} -> Nat]
  BY DEF Ingest, StreamInv, StreamTypeOK
<1>3. LastRunInv'
  BY <1>1 DEF StreamInv, LastRunInv
<1>4. CASE UNCHANGED <<byTeam, byRun, sequence, sent>>
  <2>1. StreamTypeOK'
    BY <1>1, <1>2, <1>4 DEF StreamInv, StreamTypeOK
  <2> QED
    BY <1>1, <1>3, <1>4, <2>1, NothingSentStep DEF StreamInv, StreamTypeOK
<1>5. CASE r = current /\ Number(r) /\ Rebroadcast(r, emitted[Worker] + 1)
  <2>1. r \in Runs /\ r = started
    BY <1>5 DEF StreamInv, StreamTypeOK, LastRunInv, Runs, NoRun
  <2>2. byRun[r] \in Teams \cup {None}
    BY <2>1 DEF StreamInv, StreamTypeOK
  <2>3. CASE byRun[r] = None /\ UNCHANGED <<byTeam, byRun, sent>>
    <3>1. Deliver({}, r, Worker, emitted[Worker] + 1)
      BY <2>3 DEF Deliver, StreamInv, StreamTypeOK
    <3>2. StreamTypeOK'
      BY <1>1, <1>2, <1>5, <2>1, <2>3, <3>1, DeliverTypes DEF StreamInv, StreamTypeOK
    <3>3. CountedInv' /\ StreamIsOrdered'
      BY <1>1, <1>2, <1>5, <2>1, <3>1, DeliverStep
    <3> QED
      BY <1>3, <3>2, <3>3 DEF StreamInv
  <2>4. CASE byRun[r] # None /\ ForgetStale(byRun[r])
    <3>1. PICK receivers : Deliver(receivers, r, Worker, emitted[Worker] + 1)
      BY <1>5, <2>4 DEF Rebroadcast
    <3>2. /\ byTeam' \in [Teams -> Runs \cup {NoRun}]
          /\ byRun' \in [Runs -> Teams \cup {None}]
      BY <2>2, <2>4, ForgetTypes DEF StreamInv
    <3>3. StreamTypeOK'
      BY <1>1, <1>2, <1>5, <2>1, <3>1, <3>2, DeliverTypes DEF StreamInv, StreamTypeOK
    <3>4. CountedInv' /\ StreamIsOrdered'
      BY <1>1, <1>2, <1>5, <2>1, <3>1, DeliverStep
    <3> QED
      BY <1>3, <3>3, <3>4 DEF StreamInv
  <2> QED
    BY <1>5, <2>3, <2>4 DEF Rebroadcast
<1> QED
  BY <1>4, <1>5 DEF Ingest

LEMMA StreamInvStep == StreamInv /\ [Next]_vars => StreamInv'
<1>1. ASSUME StreamInv, UNCHANGED vars PROVE StreamInv'
  <2>1. UNCHANGED <<current, started, byTeam, byRun, command, sequence, emitted,
                    session, queue, sent>>
    BY <1>1 DEF vars
  <2>2. StreamTypeOK' /\ LastRunInv'
    BY <1>1, <2>1 DEF StreamInv, StreamTypeOK, LastRunInv
  <2>3. CountedInv' /\ StreamIsOrdered'
    BY <1>1, <2>1 DEF StreamInv, CountedInv, StreamIsOrdered
  <2> QED
    BY <2>2, <2>3 DEF StreamInv
<1> QED
  BY <1>1, ResolveStep, LoadedStep, StopRunStep, SessionStep, EmitStep, StreamStep, IngestStep
     DEF Next

THEOREM StreamInvariance == Spec => []StreamInv
BY StreamInitInv, StreamInvStep, PTL DEF Spec

-----------------------------------------------------------------------------
(* Records of runs, counters, sessions and queues keep their types.         *)
THEOREM StreamTypeCorrect == Spec => []StreamTypeOK
<1>1. StreamInv => StreamTypeOK
  BY DEF StreamInv
<1> QED
  BY <1>1, StreamInvariance, PTL

(* Numbers on a connection rise and name one event on all of them, although *)
(* every loop of every team numbers with the run's one counter              *)
(* (agent-team-stream-handler.ts:493).                                      *)
THEOREM EnvelopesAreOrdered == Spec => []StreamIsOrdered
<1>1. StreamInv => StreamIsOrdered
  BY DEF StreamInv
<1> QED
  BY <1>1, StreamInvariance, PTL

-----------------------------------------------------------------------------
(* Tool approvals                                                           *)

(* The initial states have their types.                                     *)
LEMMA ApprovalInitTypes == ApprovalInit => ApprovalTypeOK
BY ToolApprovalAssumption DEF ApprovalInit, NoRunYet, ApprovalTypeOK, Runs, NoRun

(* Issuing registers at most an entry of the active run, which has started. *)
LEMMA IssueKeepsType ==
  ASSUME ApprovalTypeOK, NEW i \in Invocations, Issue(i)
  PROVE  /\ pending' \subseteq (1 .. started) \X Invocations
         /\ pending \subseteq pending'
         /\ current # NoRun => <<current, i>> \in pending'
BY ToolApprovalAssumption DEF ApprovalTypeOK, Issue, NoRun

(* Every step keeps the types.                                              *)
LEMMA ApprovalNextTypes == ApprovalTypeOK /\ [ApprovalNext]_approvalVars => ApprovalTypeOK'
<1> SUFFICES ASSUME ApprovalTypeOK, [ApprovalNext]_approvalVars PROVE ApprovalTypeOK'
  OBVIOUS
<1> USE ToolApprovalAssumption
<1>1. CASE StartRun
  <2>1. /\ started \in Nat /\ started + 1 \in 0 .. MaxRuns /\ 0 .. started \subseteq 0 .. started + 1
        /\ 1 .. started \subseteq 1 .. started + 1
    BY <1>1 DEF StartRun, ApprovalTypeOK
  <2>2. pending \subseteq (1 .. started + 1) \X Invocations
    BY <2>1 DEF ApprovalTypeOK
  <2>3. /\ token \in [Sessions -> [Invocations -> 0 .. started + 1]]
        /\ answerRun \in [Sessions -> [Invocations -> 0 .. started + 1]]
    BY <2>1 DEF ApprovalTypeOK
  <2> QED BY <1>1, <2>1, <2>2, <2>3 DEF StartRun, ApprovalTypeOK
<1>2. CASE EndRun
  BY <1>2 DEF EndRun, StopActiveRun, ApprovalTypeOK, NoRun
<1>3. CASE \E i \in Invocations : Request(i)
  BY <1>3 DEF Request, ApprovalTypeOK
<1>4. ASSUME NEW s \in Sessions, NEW i \in Invocations, Convert(s, i) PROVE ApprovalTypeOK'
  <2>1. current \in 0 .. started
    BY DEF ApprovalTypeOK, NoRun
  <2> QED BY <1>4, <2>1, IssueKeepsType DEF Convert, ApprovalTypeOK
<1>5. ASSUME NEW s \in Sessions, NEW i \in Invocations,
             AnswerWithToken(s, i) \/ AnswerWithoutToken(s, i)
      PROVE  ApprovalTypeOK'
  <2>1. pending' \subseteq (1 .. started) \X Invocations
    BY <1>5, IssueKeepsType DEF AnswerWithToken, AnswerWithoutToken, ApprovalTypeOK
  <2>2. current \in 0 .. started
    BY DEF ApprovalTypeOK, NoRun
  <2>3. Dispatch(s, i) \/ \E why \in Refused : Refuse(s, i, why)
    BY <1>5 DEF AnswerWithToken, AnswerWithoutToken, Refused
  <2>4. CASE Dispatch(s, i)
    BY <2>1, <2>2, <2>4 DEF Dispatch, ApprovalTypeOK
  <2>5. CASE \E why \in Refused : Refuse(s, i, why)
    BY <2>1, <2>5 DEF Refuse, ApprovalTypeOK
  <2> QED BY <2>3, <2>4, <2>5
<1>6. ASSUME NEW s \in Sessions, NEW i \in Invocations, Accept(s, i) PROVE ApprovalTypeOK'
  <2>1. accepted' \in [Runs -> [Invocations -> Nat]]
    <3>1. PICK q : accepted' = [accepted EXCEPT ![q][i] = @ + 1]
      BY <1>6 DEF Accept
    <3>2. ASSUME NEW r \in Runs PROVE accepted'[r] \in [Invocations -> Nat]
      <4>1. accepted[r] \in [Invocations -> Nat]
        BY DEF ApprovalTypeOK
      <4>2. accepted'[r] = IF r = q THEN [accepted[r] EXCEPT ![i] = @ + 1] ELSE accepted[r]
        BY <3>1 DEF ApprovalTypeOK
      <4> QED BY <4>1, <4>2
    <3>3. accepted' = [r \in Runs |-> accepted'[r]]
      BY <3>1 DEF ApprovalTypeOK
    <3> QED BY <3>2, <3>3
  <2>2. pending' \subseteq pending
    BY <1>6 DEF Accept, CompleteInvocation
  <2>3. answer' \in [Sessions -> [Invocations -> {"none", "dispatching", "accepted"} \cup Refused]]
    BY <1>6 DEF Accept, ApprovalTypeOK
  <2> QED BY <1>6, <2>1, <2>2, <2>3 DEF Accept, ApprovalTypeOK
<1>7. ASSUME NEW s \in Sessions, NEW i \in Invocations, Reject(s, i) PROVE ApprovalTypeOK'
  BY <1>7 DEF Reject, ApprovalTypeOK, Refused
<1>8. CASE UNCHANGED approvalVars
  BY <1>8 DEF approvalVars, ApprovalTypeOK
<1> QED BY <1>1, <1>2, <1>3, <1>4, <1>5, <1>6, <1>7, <1>8 DEF ApprovalNext

(* The variables keep their types (ApprovalTypeOK).                         *)
THEOREM ApprovalTypeCorrect == ApprovalSpec => []ApprovalTypeOK
BY ApprovalInitTypes, ApprovalNextTypes, PTL DEF ApprovalSpec

-----------------------------------------------------------------------------
(* An entry is only ever lost to an answer that was accepted in its run.    *)
LEMMA EntryStays ==
  ASSUME ApprovalTypeOK, [ApprovalNext]_approvalVars, NEW r \in Runs, NEW i \in Invocations,
         <<r, i>> \in pending \/ accepted[r][i] > 0
  PROVE  (<<r, i>> \in pending \/ accepted[r][i] > 0)'
<1>1. ASSUME NEW u \in Sessions, NEW j \in Invocations, Accept(u, j)
      PROVE  (<<r, i>> \in pending \/ accepted[r][i] > 0)'
  <2>1. CASE answerRun[u][j] = r /\ j = i
    BY <1>1, <2>1 DEF Accept, ApprovalTypeOK
  <2>2. CASE ~(answerRun[u][j] = r /\ j = i)
    <3>1. <<r, i>> \in pending => <<r, i>> \in pending'
      BY <1>1, <2>2 DEF Accept, CompleteInvocation
    <3>2. accepted'[r][i] = accepted[r][i]
      BY <1>1, <2>2 DEF Accept, ApprovalTypeOK
    <3> QED BY <3>1, <3>2
  <2> QED BY <2>1, <2>2
<1>2. ASSUME NEW u \in Sessions, NEW j \in Invocations,
             Convert(u, j) \/ AnswerWithToken(u, j) \/ AnswerWithoutToken(u, j) \/ Reject(u, j)
      PROVE  pending \subseteq pending' /\ accepted' = accepted
  BY <1>2, IssueKeepsType
  DEF Convert, AnswerWithToken, AnswerWithoutToken, Reject, Refuse, Dispatch
<1>3. ASSUME StartRun \/ EndRun \/ (\E j \in Invocations : Request(j)) \/ UNCHANGED approvalVars
      PROVE  pending' = pending /\ accepted' = accepted
  BY <1>3 DEF StartRun, EndRun, Request, approvalVars
<1> QED BY <1>1, <1>2, <1>3 DEF ApprovalNext

(* A connection's token is the one it had, or it was just issued.           *)
LEMMA TokenIsOldOrIssued ==
  ASSUME ApprovalTypeOK, [ApprovalNext]_approvalVars, NEW s \in Sessions, NEW i \in Invocations
  PROVE  \/ token'[s][i] = token[s][i]
         \/ token'[s][i] = current /\ (current # NoRun => <<current, i>> \in pending')
<1>1. ASSUME NEW u \in Sessions, NEW j \in Invocations, Convert(u, j)
      PROVE  \/ token'[s][i] = token[s][i]
             \/ token'[s][i] = current /\ (current # NoRun => <<current, i>> \in pending')
  <2>1. CASE u = s /\ j = i
    BY <1>1, <2>1, IssueKeepsType DEF Convert, ApprovalTypeOK
  <2>2. CASE ~(u = s /\ j = i)
    BY <1>1, <2>2 DEF Convert, ApprovalTypeOK
  <2> QED BY <2>1, <2>2
<1>2. ASSUME NEW u \in Sessions, NEW j \in Invocations,
             AnswerWithToken(u, j) \/ AnswerWithoutToken(u, j) \/ Accept(u, j) \/ Reject(u, j)
      PROVE  token' = token
  BY <1>2 DEF AnswerWithToken, AnswerWithoutToken, Accept, Reject, Refuse, Dispatch
<1>3. ASSUME StartRun \/ EndRun \/ (\E j \in Invocations : Request(j)) \/ UNCHANGED approvalVars
      PROVE  token' = token
  BY <1>3 DEF StartRun, EndRun, Request, approvalVars
<1> QED BY <1>1, <1>2, <1>3 DEF ApprovalNext

(* Every step keeps the tokens good.                                        *)
LEMMA NextKeepsTokensGood ==
  ApprovalTypeOK /\ TokensStayGood /\ [ApprovalNext]_approvalVars => TokensStayGood'
<1> SUFFICES ASSUME ApprovalTypeOK, TokensStayGood, [ApprovalNext]_approvalVars,
                    NEW s \in Sessions, NEW i \in Invocations, token'[s][i] # NoRun
             PROVE  (<<token[s][i], i>> \in pending \/ accepted[token[s][i]][i] > 0)'
  BY DEF TokensStayGood
<1>1. CASE token'[s][i] = token[s][i]
  <2>1. token[s][i] \in Runs
    BY <1>1, ToolApprovalAssumption DEF ApprovalTypeOK, Runs, NoRun
  <2>2. <<token[s][i], i>> \in pending \/ accepted[token[s][i]][i] > 0
    BY <1>1 DEF TokensStayGood
  <2>3. PICK r \in Runs : r = token[s][i]
    BY <2>1
  <2>4. (<<r, i>> \in pending \/ accepted[r][i] > 0)'
    BY <2>2, <2>3, EntryStays
  <2> QED BY <1>1, <2>3, <2>4
<1>2. CASE token'[s][i] = current /\ <<current, i>> \in pending'
  BY <1>2
<1> QED BY <1>1, <1>2, TokenIsOldOrIssued

(* A request shown with a token can be answered while its run is active,    *)
(* until a member accepted an answer in that run (TokensStayGood).          *)
THEOREM TokensAreGood == ApprovalSpec => []TokensStayGood
<1>1. ApprovalInit => TokensStayGood
  BY DEF ApprovalInit, NoRunYet, TokensStayGood
<1> QED BY <1>1, NextKeepsTokensGood, ApprovalTypeCorrect, PTL DEF ApprovalSpec
=============================================================================
