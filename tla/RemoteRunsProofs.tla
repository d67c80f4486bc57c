----------------------------- MODULE RemoteRunsProofs -----------------------------
(****************************************************************************)
(* A run between its host and a worker, for any number of commands,         *)
(* envelopes, attempts, nodes, runs, teams and restarts.                    *)
(*                                                                          *)
(* First the command bridge.  Its invariant ties the server's set of        *)
(* processed ids to what became of the attempts: an id is recorded exactly  *)
(* while an attempt of it is "done", and an attempt is only deduplicated    *)
(* against one that was executed.                                           *)
(*                                                                          *)
(* Then the routing adapter: a bootstrap is under way exactly while its     *)
(* command is registered as in flight, and a node only becomes ready when   *)
(* it was bootstrapped.  Over the bridge the composition implements both,   *)
(* so their theorems hold of it, and host and worker agree, because         *)
(* whatever makes the adapter send a command was an answer to a bootstrap   *)
(* that the worker had executed.                                            *)
(*                                                                          *)
(* Last the worker: its behaviours are behaviours of the bridge, a run      *)
(* works with its own configuration only, and a run that no handler is      *)
(* changing is whole.  That is the hard one.  While a bootstrap or stop of  *)
(* a run is under way, what holds of the run depends on where its handler   *)
(* is suspended: Midway says it place by place.  It survives what handlers  *)
(* of other runs do in between because those never revive a team, and       *)
(* create only teams that no run was ever bound to.                         *)
(****************************************************************************)
EXTENDS HostToWorker, WorkerRun, TLAPS

Executed(e) == \E n \in Attempts : request[e][n] \in {"done", "forgotten"}

UnsentInv ==
  \A e \in Envelopes :
    /\ client[e].at = "new" => client[e].attempt = 0
    /\ client[e].at # "new" => client[e].attempt \in Attempts
    /\ \A n \in Attempts : n > client[e].attempt => request[e][n] = "none"

RecordedInv ==
  \A e \in Envelopes : e \in processed <=> \E n \in Attempts : request[e][n] = "done"

DedupedInv ==
  \A e \in Envelopes : (\E n \in Attempts : request[e][n] = "deduped") => Executed(e)

BridgeInv == BridgeTypeOK /\ UnsentInv /\ RecordedInv /\ DedupedInv /\ DeliveredWasExecuted

-----------------------------------------------------------------------------
(* The initial states satisfy the invariant: nothing was sent yet.          *)
LEMMA BridgeInitInv == BridgeInit => BridgeInv
BY CommandBridgeAssumption
   DEF BridgeInit, BridgeInv, BridgeTypeOK, UnsentInv, RecordedInv, DedupedInv,
       DeliveredWasExecuted, Executed, Client, RequestState, Attempts

(* What a change of one request does to the others.                         *)
LEMMA BecomesOne ==
  ASSUME BridgeTypeOK, NEW e \in Envelopes, NEW n \in Attempts,
         NEW st \in RequestState, Becomes(e, n, st)
  PROVE  /\ request' \in [Envelopes -> [Attempts -> RequestState]]
         /\ request'[e][n] = st
         /\ \A f \in Envelopes, k \in Attempts :
              (f # e \/ k # n) => request'[f][k] = request[f][k]
BY DEF Becomes, BridgeTypeOK

-----------------------------------------------------------------------------
(* The invariant's parts, each along every step.                            *)

LEMMA TypeStep == BridgeTypeOK /\ UnsentInv /\ [BridgeNext]_bridgeVars => BridgeTypeOK'
<1> SUFFICES ASSUME BridgeTypeOK, UnsentInv, [BridgeNext]_bridgeVars PROVE BridgeTypeOK'
  OBVIOUS
<1> USE CommandBridgeAssumption DEF BridgeTypeOK, Client, Attempts
<1>1. ASSUME NEW e \in Envelopes, HostStep(e) PROVE BridgeTypeOK'
  <2>1. CASE Send(e)
    BY <2>1, BecomesOne, 1 \in Attempts, "sent" \in RequestState DEF Send, Transmit, RequestState
  <2>2. CASE Acknowledge(e)
    BY <2>2 DEF Acknowledge
  <2>3. CASE Retry(e)
    <3>1. client[e].attempt + 1 \in Attempts
      BY <2>3 DEF Retry
    <3> QED
      BY <2>3, <3>1, BecomesOne, "sent" \in RequestState DEF Retry, Transmit, RequestState
  <2>4. CASE GiveUp(e)
    BY <2>4 DEF GiveUp
  <2> QED
    BY <1>1, <2>1, <2>2, <2>3, <2>4 DEF HostStep
<1>2. ASSUME NEW e \in Envelopes, NEW n \in Attempts, WorkerStep(e, n) PROVE BridgeTypeOK'
  BY <1>2, BecomesOne
     DEF WorkerStep, Dedupe, Execute, Complete, Refuse, RequestState
<1>3. CASE Restart
  BY <1>3 DEF Restart, AfterRestart, RequestState
<1>4. CASE UNCHANGED bridgeVars
  BY <1>4 DEF bridgeVars
<1> QED
  BY <1>1, <1>2, <1>3, <1>4 DEF BridgeNext

LEMMA UnsentStep ==
  BridgeTypeOK /\ UnsentInv /\ [BridgeNext]_bridgeVars => UnsentInv'
<1> SUFFICES ASSUME BridgeTypeOK, UnsentInv, [BridgeNext]_bridgeVars PROVE UnsentInv'
  OBVIOUS
<1> USE CommandBridgeAssumption DEF BridgeTypeOK, UnsentInv, Client, Attempts
<1>1. ASSUME NEW e \in Envelopes, NEW n \in Attempts,
             Transmit(e, n), n > client[e].attempt
      PROVE  UnsentInv'
  BY <1>1, BecomesOne, "sent" \in RequestState DEF Transmit, RequestState
<1>2. ASSUME NEW e \in Envelopes, HostStep(e) PROVE UnsentInv'
  <2>1. CASE Send(e)
    BY <1>1, <2>1 DEF Send
  <2>2. CASE Acknowledge(e)
    BY <2>2 DEF Acknowledge
  <2>3. CASE Retry(e)
    BY <1>1, <2>3 DEF Retry
  <2>4. CASE GiveUp(e)
    BY <2>4 DEF GiveUp
  <2> QED
    BY <1>2, <2>1, <2>2, <2>3, <2>4 DEF HostStep
<1>3. ASSUME NEW e \in Envelopes, NEW n \in Attempts, WorkerStep(e, n) PROVE UnsentInv'
  <2>1. /\ request[e][n] # "none"
        /\ \E st \in RequestState : Becomes(e, n, st)
        /\ client' = client
    BY <1>3 DEF WorkerStep, Dedupe, Execute, Complete, Refuse, RequestState
  <2> QED
    BY <2>1, BecomesOne
<1>4. CASE Restart
  BY <1>4 DEF Restart, AfterRestart
<1>5. CASE UNCHANGED bridgeVars
  BY <1>5 DEF bridgeVars
<1> QED
  BY <1>2, <1>3, <1>4, <1>5 DEF BridgeNext

(* A transmission only touches an attempt that was never sent.              *)
LEMMA TransmitFacts ==
  ASSUME BridgeTypeOK, UnsentInv, NEW e \in Envelopes, HostStep(e)
  PROVE  /\ processed' = processed
         /\ \A f \in Envelopes, k \in Attempts :
              \/ request'[f][k] = request[f][k]
              \/ request[f][k] = "none" /\ request'[f][k] = "sent"
<1> USE CommandBridgeAssumption DEF BridgeTypeOK, UnsentInv, Client, Attempts
<1>1. ASSUME NEW n \in Attempts, Transmit(e, n), n > client[e].attempt
      PROVE  /\ processed' = processed
             /\ \A f \in Envelopes, k \in Attempts :
                  \/ request'[f][k] = request[f][k]
                  \/ request[f][k] = "none" /\ request'[f][k] = "sent"
  BY <1>1, BecomesOne, "sent" \in RequestState DEF Transmit, RequestState
<1>2. CASE Send(e)
  BY <1>1, <1>2 DEF Send
<1>3. CASE Retry(e)
  BY <1>1, <1>3 DEF Retry
<1>4. CASE Acknowledge(e) \/ GiveUp(e)
  BY <1>4 DEF Acknowledge, GiveUp
<1> QED
  BY <1>2, <1>3, <1>4 DEF HostStep

LEMMA RecordedStep ==
  BridgeTypeOK /\ UnsentInv /\ RecordedInv /\ [BridgeNext]_bridgeVars => RecordedInv'
<1> SUFFICES ASSUME BridgeTypeOK, UnsentInv, RecordedInv, [BridgeNext]_bridgeVars
             PROVE  RecordedInv'
  OBVIOUS
<1>1. ASSUME NEW e \in Envelopes, HostStep(e) PROVE RecordedInv'
  BY <1>1, TransmitFacts DEF RecordedInv
<1>2. ASSUME NEW e \in Envelopes, NEW n \in Attempts, WorkerStep(e, n) PROVE RecordedInv'
  <2>1. CASE Complete(e, n)
    BY <2>1, BecomesOne, "done" \in RequestState DEF Complete, RecordedInv, RequestState
  <2>2. CASE Dedupe(e, n) \/ Execute(e, n) \/ Refuse(e, n)
    <3>1. /\ request[e][n] # "done"
          /\ processed' = processed
          /\ \E st \in RequestState \ {"done"} : Becomes(e, n, st)
      BY <2>2 DEF Dedupe, Execute, Refuse, RequestState
    <3> QED
      BY <3>1, BecomesOne DEF RecordedInv
  <2> QED
    BY <1>2, <2>1, <2>2 DEF WorkerStep
<1>3. CASE Restart
  BY <1>3 DEF Restart, AfterRestart, RecordedInv
<1>4. CASE UNCHANGED bridgeVars
  BY <1>4 DEF bridgeVars, RecordedInv
<1> QED
  BY <1>1, <1>2, <1>3, <1>4 DEF BridgeNext

(* What was executed stays executed, across restarts too.                   *)
LEMMA ExecutedForEver ==
  ASSUME BridgeTypeOK, UnsentInv, [BridgeNext]_bridgeVars, NEW f \in Envelopes, Executed(f)
  PROVE  Executed(f)'
<1>1. PICK k \in Attempts : request[f][k] \in {"done", "forgotten"}
  BY DEF Executed
<1> SUFFICES request'[f][k] \in {"done", "forgotten"}
  BY DEF Executed
<1>2. ASSUME NEW e \in Envelopes, HostStep(e) PROVE request'[f][k] \in {"done", "forgotten"}
  BY <1>1, <1>2, TransmitFacts
<1>3. ASSUME NEW e \in Envelopes, NEW n \in Attempts, WorkerStep(e, n)
      PROVE  request'[f][k] \in {"done", "forgotten"}
  <2>1. /\ request[e][n] \notin {"done", "forgotten"}
        /\ \E st \in RequestState : Becomes(e, n, st)
    BY <1>3 DEF WorkerStep, Dedupe, Execute, Complete, Refuse, RequestState
  <2> QED
    BY <1>1, <2>1, BecomesOne
<1>4. CASE Restart
  BY <1>1, <1>4 DEF Restart, AfterRestart
<1>5. CASE UNCHANGED bridgeVars
  BY <1>1, <1>5 DEF bridgeVars
<1> QED
  BY <1>2, <1>3, <1>4, <1>5 DEF BridgeNext

LEMMA DedupedStep ==
  ASSUME BridgeTypeOK, UnsentInv, RecordedInv, DedupedInv, [BridgeNext]_bridgeVars
  PROVE  DedupedInv'
<1> SUFFICES ASSUME NEW f \in Envelopes, NEW k \in Attempts, request'[f][k] = "deduped"
             PROVE  Executed(f)'
  BY DEF DedupedInv
<1> SUFFICES Executed(f)
  BY ExecutedForEver
<1>1. CASE request[f][k] = "deduped"
  BY <1>1 DEF DedupedInv
<1>2. CASE request[f][k] # "deduped"
  <2>1. ASSUME NEW e \in Envelopes, HostStep(e) PROVE FALSE
    BY <1>2, <2>1, TransmitFacts
  <2>2. ASSUME NEW e \in Envelopes, NEW n \in Attempts, WorkerStep(e, n) PROVE Executed(f)
    <3>1. CASE Dedupe(e, n)
      <4>1. f = e
        BY <1>2, <3>1, BecomesOne, "deduped" \in RequestState DEF Dedupe, RequestState
      <4> QED
        BY <3>1, <4>1 DEF Dedupe, RecordedInv, Executed
    <3>2. CASE Execute(e, n) \/ Complete(e, n) \/ Refuse(e, n)
      <4>1. \E st \in RequestState \ {"deduped"} : Becomes(e, n, st)
        BY <3>2 DEF Execute, Complete, Refuse, RequestState
      <4> QED
        BY <1>2, <4>1, BecomesOne
    <3> QED
      BY <2>2, <3>1, <3>2 DEF WorkerStep
  <2>3. CASE Restart
    BY <1>2, <2>3 DEF Restart, AfterRestart
  <2>4. CASE UNCHANGED bridgeVars
    BY <1>2, <2>4 DEF bridgeVars
  <2> QED
    BY <2>1, <2>2, <2>3, <2>4 DEF BridgeNext
<1> QED
  BY <1>1, <1>2

LEMMA DeliveredStep ==
  ASSUME BridgeInv, [BridgeNext]_bridgeVars
  PROVE  DeliveredWasExecuted'
<1> USE DEF BridgeInv
<1> SUFFICES ASSUME NEW f \in Envelopes, client'[f].at = "delivered"
             PROVE  Executed(f)'
  BY DEF DeliveredWasExecuted, Executed
<1> SUFFICES Executed(f)
  BY ExecutedForEver
<1>1. CASE client[f].at = "delivered"
  BY <1>1 DEF DeliveredWasExecuted, Executed
<1>2. CASE client[f].at # "delivered"
  <2>1. ASSUME NEW e \in Envelopes, HostStep(e) PROVE Executed(f)
    <3>1. CASE Acknowledge(e)
      <4>1. f = e
        BY <1>2, <3>1 DEF Acknowledge, BridgeTypeOK, Client
      <4>2. client[e].attempt \in Attempts
        BY <3>1 DEF Acknowledge, UnsentInv
      <4> QED
        BY <3>1, <4>1, <4>2 DEF Acknowledge, DedupedInv, Executed
    <3>2. ASSUME NEW n \in Nat, Transmit(e, n) PROVE FALSE
      <4>1. client'[f].at \in {"sending", client[f].at}
        BY <3>2 DEF Transmit, BridgeTypeOK, Client
      <4> QED
        BY <1>2, <4>1
    <3>3. CASE Send(e)
      BY <3>2, <3>3 DEF Send
    <3>4. CASE Retry(e)
      BY <3>2, <3>4, CommandBridgeAssumption DEF Retry, BridgeTypeOK, Client
    <3>5. CASE GiveUp(e)
      <4>1. client'[f].at \in {"failed", client[f].at}
        BY <3>5 DEF GiveUp, BridgeTypeOK, Client
      <4> QED
        BY <1>2, <4>1
    <3> QED
      BY <2>1, <3>1, <3>3, <3>4, <3>5 DEF HostStep
  <2>2. CASE client' = client
    BY <1>2, <2>2
  <2> QED
    BY <2>1, <2>2 DEF BridgeNext, WorkerStep, Dedupe, Execute, Complete, Refuse, Restart, bridgeVars
<1> QED
  BY <1>1, <1>2

LEMMA BridgeInvStep == BridgeInv /\ [BridgeNext]_bridgeVars => BridgeInv'
BY TypeStep, UnsentStep, RecordedStep, DedupedStep, DeliveredStep DEF BridgeInv

THEOREM BridgeInvariance == BridgeSpec => []BridgeInv
BY BridgeInitInv, BridgeInvStep, PTL DEF BridgeSpec

-----------------------------------------------------------------------------
(* Client, requests, processed ids and restarts keep their types.           *)
THEOREM BridgeTypeCorrect == BridgeSpec => []BridgeTypeOK
<1>1. BridgeInv => BridgeTypeOK
  BY DEF BridgeInv
<1> QED
  BY <1>1, BridgeInvariance, PTL

(* A delivery that the client reports did execute on the worker, although   *)
(* the answer may have been a dedupe and the worker may have restarted      *)
(* (host-node-bridge-client.ts:42).                                         *)
THEOREM DeliveryIsTrue == BridgeSpec => []DeliveredWasExecuted
<1>1. BridgeInv => DeliveredWasExecuted
  BY DEF BridgeInv
<1> QED
  BY <1>1, BridgeInvariance, PTL

(* One life of the worker never starts a command again that it completed:   *)
(* an attempt that begins to execute finds no attempt "done", because its   *)
(* id would be recorded (worker-node-bridge-server.ts:19).                  *)
THEOREM SuccessIsFinal == BridgeSpec => SuccessIsNotRepeated
<1> DEFINE Starts(e, n) == request[e][n] # "executing" /\ request'[e][n] = "executing"
           Fresh(e) == \A k \in Attempts : request[e][k] # "done"
<1>1. ASSUME BridgeInv, [BridgeNext]_bridgeVars
      PROVE  [\A e \in Envelopes, n \in Attempts : Starts(e, n) => Fresh(e)]_bridgeVars
  <2> SUFFICES ASSUME NEW f \in Envelopes, NEW k \in Attempts, Starts(f, k)
               PROVE  Fresh(f)
    OBVIOUS
  <2> USE <1>1 DEF BridgeInv
  <2>1. ASSUME NEW e \in Envelopes, HostStep(e) PROVE FALSE
    BY <2>1, TransmitFacts
  <2>2. ASSUME NEW e \in Envelopes, NEW n \in Attempts, WorkerStep(e, n) PROVE Fresh(f)
    <3>1. CASE Execute(e, n)
      <4>1. f = e
        BY <3>1, BecomesOne, "executing" \in RequestState DEF Execute, RequestState
      <4> QED
        BY <3>1, <4>1 DEF Execute, RecordedInv
    <3>2. CASE Dedupe(e, n) \/ Complete(e, n) \/ Refuse(e, n)
      <4>1. \E st \in RequestState \ {"executing"} : Becomes(e, n, st)
        BY <3>2 DEF Dedupe, Complete, Refuse, RequestState
      <4> QED
        BY <4>1, BecomesOne
    <3> QED
      BY <2>2, <3>1, <3>2 DEF WorkerStep
  <2>3. CASE Restart
    BY <2>3 DEF Restart, AfterRestart
  <2>4. CASE UNCHANGED bridgeVars
    BY <2>4 DEF bridgeVars
  <2> QED
    BY <1>1, <2>1, <2>2, <2>3, <2>4 DEF BridgeNext
<1> QED
  BY <1>1, BridgeInvariance, PTL DEF BridgeSpec, SuccessIsNotRepeated

-----------------------------------------------------------------------------
(* The routing adapter                                                      *)

(* A command that bootstraps is the one registered for its node, and a      *)
(* waiting command's node has one registered.                               *)
InFlightInv ==
  /\ \A c \in Commands : place[c] = "bootstrapping" =>
       NodeOf[c] \in Remote /\ inFlight[NodeOf[c]] = c
  /\ \A c \in Commands : place[c] = "waiting" =>
       NodeOf[c] \in Remote /\ inFlight[NodeOf[c]] # NoCommand
  /\ \A n \in Remote : inFlight[n] # NoCommand =>
       place[inFlight[n]] = "bootstrapping" /\ NodeOf[inFlight[n]] = n

ReadyInv == ready \subseteq bootstrapped

SendingInv ==
  \A c \in Commands : place[c] = "sending" => NodeOf[c] \in ready

AdapterInv == TypeOK /\ InFlightInv /\ ReadyInv /\ SendingInv /\ ReadyNodesAreLeftAlone

-----------------------------------------------------------------------------
(* Nothing was dispatched yet.                                              *)
LEMMA AdapterInitInv == AdapterInit => AdapterInv
BY RoutingAssumption
   DEF AdapterInit, AdapterInv, TypeOK, InFlightInv, ReadyInv, SendingInv, ReadyNodesAreLeftAlone, Place

(* A dispatch that leaves the bootstraps alone.                             *)
LEMMA DispatchToReadyStep ==
  ASSUME AdapterInv, NEW c \in Commands, place[c] = "idle",
         UNCHANGED <<readiness, stopVars>>,
         \/ Goes(c, "local")
         \/ NodeOf[c] \in ready /\ Goes(c, "sending")
  PROVE  AdapterInv'
BY RoutingAssumption
   DEF AdapterInv, TypeOK, InFlightInv, ReadyInv, SendingInv, ReadyNodesAreLeftAlone,
       Goes, Place, readiness, stopVars, Remote

LEMMA DispatchWaitsStep ==
  ASSUME AdapterInv, NEW c \in Commands, place[c] = "idle",
         UNCHANGED <<readiness, stopVars>>,
         NodeOf[c] \in Remote \ ready, inFlight[NodeOf[c]] # NoCommand, Goes(c, "waiting")
  PROVE  AdapterInv'
BY RoutingAssumption
   DEF AdapterInv, TypeOK, InFlightInv, ReadyInv, SendingInv, ReadyNodesAreLeftAlone,
       Goes, Place, readiness, stopVars, Remote

LEMMA DispatchBootstrapsStep ==
  ASSUME AdapterInv, NEW c \in Commands, place[c] = "idle",
         UNCHANGED <<ready, bootstrapped, stopVars>>,
         NodeOf[c] \in Remote \ ready, inFlight[NodeOf[c]] = NoCommand,
         Goes(c, "bootstrapping"), inFlight' = [inFlight EXCEPT ![NodeOf[c]] = c]
  PROVE  AdapterInv'
BY RoutingAssumption
   DEF AdapterInv, TypeOK, InFlightInv, ReadyInv, SendingInv, ReadyNodesAreLeftAlone,
       Goes, Place, stopVars, Remote

LEMMA DispatchStep ==
  ASSUME AdapterInv, NEW c \in Commands, Dispatch(c)
  PROVE  AdapterInv'
BY DispatchToReadyStep, DispatchWaitsStep, DispatchBootstrapsStep
   DEF Dispatch, readiness

(* What the end of a bootstrap does to those that await it.                 *)
LEMMA SettleFacts ==
  ASSUME AdapterInv, NEW c \in Commands, NEW p \in Place, Settle(c, p)
  PROVE  /\ NodeOf[c] \in Remote
         /\ \A d \in Commands :
              /\ (d \in Awaiting(c)) => place'[d] = p /\ NodeOf[d] = NodeOf[c]
              /\ (d \notin Awaiting(c)) => place'[d] = place[d]
              /\ (d \notin Awaiting(c) /\ place[d] \in {"bootstrapping", "waiting"})
                   => NodeOf[d] # NodeOf[c]
         /\ place' \in [Commands -> Place]
         /\ inFlight' \in [Remote -> Commands \cup {NoCommand}]
         /\ inFlight'[NodeOf[c]] = NoCommand
         /\ \A n \in Remote : n # NodeOf[c] => inFlight'[n] = inFlight[n]
BY RoutingAssumption DEF AdapterInv, TypeOK, InFlightInv, Settle, Awaiting

LEMMA SettleKeepsInFlight ==
  ASSUME AdapterInv, NEW c \in Commands, NEW p \in {"sending", "rejected"}, Settle(c, p)
  PROVE  InFlightInv'
<1>1. p \in Place
  BY DEF Place
<1>2. ASSUME NEW d \in Commands, place'[d] \in {"bootstrapping", "waiting"}
      PROVE  place'[d] = place[d] /\ NodeOf[d] # NodeOf[c]
  BY <1>1, <1>2, SettleFacts
<1>3. ASSUME NEW n \in Remote, inFlight'[n] # NoCommand
      PROVE  place'[inFlight'[n]] = "bootstrapping" /\ NodeOf[inFlight'[n]] = n
  <2>1. n # NodeOf[c] /\ inFlight'[n] = inFlight[n]
    BY <1>1, <1>3, SettleFacts
  <2>2. /\ inFlight[n] \in Commands
        /\ place[inFlight[n]] = "bootstrapping"
        /\ NodeOf[inFlight[n]] = n
    BY <1>3, <2>1 DEF AdapterInv, InFlightInv, TypeOK
  <2>3. inFlight[n] \notin Awaiting(c)
    BY <1>1, <2>1, <2>2, SettleFacts
  <2> QED
    BY <1>1, <2>1, <2>2, <2>3, SettleFacts
<1> QED
  BY <1>1, <1>2, <1>3, SettleFacts DEF AdapterInv, InFlightInv

LEMMA SucceedsStep ==
  ASSUME AdapterInv, NEW c \in Commands, BootstrapSucceeds(c)
  PROVE  AdapterInv'
<1>1. "sending" \in Place
  BY DEF Place
<1>2. InFlightInv'
  BY SettleKeepsInFlight DEF BootstrapSucceeds
<1>3. TypeOK'
  <2>1. Settle(c, "sending")
    BY DEF BootstrapSucceeds
  <2>2. /\ NodeOf[c] \in Remote
        /\ place' \in [Commands -> Place]
        /\ inFlight' \in [Remote -> Commands \cup {NoCommand}]
    BY <1>1, <2>1, SettleFacts
  <2>3. UNCHANGED stopVars
    BY <2>1 DEF Settle
  <2> QED
    BY <2>2, <2>3 DEF BootstrapSucceeds, AdapterInv, TypeOK, stopVars
<1>4. ReadyInv'
  BY DEF BootstrapSucceeds, AdapterInv, ReadyInv
<1>5. SendingInv' /\ ReadyNodesAreLeftAlone'
  BY <1>1, SettleFacts DEF BootstrapSucceeds, AdapterInv, SendingInv, ReadyNodesAreLeftAlone
<1> QED
  BY <1>2, <1>3, <1>4, <1>5 DEF AdapterInv

LEMMA FailsStep ==
  ASSUME AdapterInv, NEW c \in Commands, BootstrapFails(c)
  PROVE  AdapterInv'
<1>1. "rejected" \in Place
  BY DEF Place
<1>2. InFlightInv'
  BY SettleKeepsInFlight DEF BootstrapFails
<1>3. TypeOK'
  <2>1. Settle(c, "rejected")
    BY DEF BootstrapFails
  <2>2. /\ NodeOf[c] \in Remote
        /\ place' \in [Commands -> Place]
        /\ inFlight' \in [Remote -> Commands \cup {NoCommand}]
    BY <1>1, <2>1, SettleFacts
  <2>3. UNCHANGED stopVars
    BY <2>1 DEF Settle
  <2> QED
    BY <2>2, <2>3 DEF BootstrapFails, AdapterInv, TypeOK, stopVars
<1>4. ReadyInv'
  BY DEF BootstrapFails, AdapterInv, ReadyInv
<1>5. SendingInv' /\ ReadyNodesAreLeftAlone'
  BY <1>1, SettleFacts DEF BootstrapFails, AdapterInv, SendingInv, ReadyNodesAreLeftAlone
<1> QED
  BY <1>2, <1>3, <1>4, <1>5 DEF AdapterInv

LEMMA AnswerStep ==
  ASSUME AdapterInv, NEW c \in Commands, Answer(c)
  PROVE  AdapterInv'
BY RoutingAssumption
   DEF Answer, AdapterInv, TypeOK, InFlightInv, ReadyInv, SendingInv, ReadyNodesAreLeftAlone,
       Goes, Place, readiness, stopVars, Remote

(* The stop touches nothing that commands use.                              *)
LEMMA StopStep ==
  ASSUME AdapterInv, Stop \/ StopFails \/ (\E n \in Nodes : TellNode(n)) \/ UNCHANGED vars
  PROVE  AdapterInv'
<1>1. UNCHANGED <<readiness, place>>
  BY DEF Stop, StopFails, TellNode, vars, readiness
<1>2. /\ stopping' \in {"idle", "running", "accepted", "rejected"}
      /\ told' \subseteq Nodes
  BY DEF AdapterInv, TypeOK, Stop, StopFails, TellNode, vars
<1> QED
  BY <1>1, <1>2
     DEF AdapterInv, TypeOK, InFlightInv, ReadyInv, SendingInv, ReadyNodesAreLeftAlone, readiness

LEMMA AdapterInvStep == AdapterInv /\ [AdapterNext]_vars => AdapterInv'
BY DispatchStep, SucceedsStep, FailsStep, AnswerStep, StopStep DEF AdapterNext

THEOREM AdapterInvariance == AdapterSpec => []AdapterInv
BY AdapterInitInv, AdapterInvStep, PTL DEF AdapterSpec

-----------------------------------------------------------------------------
(* The adapter's sets and maps keep their types.                            *)
THEOREM AdapterTypeCorrect == AdapterSpec => []TypeOK
<1>1. AdapterInv => TypeOK
  BY DEF AdapterInv
<1> QED
  BY <1>1, AdapterInvariance, PTL

(* No envelope leaves for a worker before one of the run's bootstraps was   *)
(* answered by it, whoever started that bootstrap.                          *)
THEOREM BootstrapComesFirst == AdapterSpec => []SentAfterBootstrap
<1>1. AdapterInv => SentAfterBootstrap
  BY DEF AdapterInv, SentAfterBootstrap, SendingInv, ReadyInv
<1> QED
  BY <1>1, AdapterInvariance, PTL

(* However many commands dispatch at once, a node has one bootstrap, and    *)
(* who waits at a node waits for that one.                                  *)
THEOREM OneBootstrapPerNode == AdapterSpec => []BootstrapIsShared
<1>1. AdapterInv => BootstrapIsShared
  <2>1. ASSUME AdapterInv, NEW c \in Commands, NEW d \in Commands,
               place[c] = "bootstrapping", place[d] = "bootstrapping", NodeOf[c] = NodeOf[d]
        PROVE  c = d
    BY <2>1 DEF AdapterInv, InFlightInv
  <2>2. ASSUME AdapterInv, NEW c \in Commands, place[c] = "waiting"
        PROVE  \E d \in Commands : place[d] = "bootstrapping" /\ NodeOf[d] = NodeOf[c]
    BY <2>2 DEF AdapterInv, InFlightInv, TypeOK
  <2> QED
    BY <2>1, <2>2 DEF BootstrapIsShared
<1> QED
  BY <1>1, AdapterInvariance, PTL

(* A ready node is neither bootstrapped nor waited for again.               *)
THEOREM ReadyStaysReady == AdapterSpec => []ReadyNodesAreLeftAlone
<1>1. AdapterInv => ReadyNodesAreLeftAlone
  BY DEF AdapterInv
<1> QED
  BY <1>1, AdapterInvariance, PTL

-----------------------------------------------------------------------------
(* The adapter over the bridge                                              *)

BootstrapRan == \E d \in Commands : Executed(BootstrapOf(d))

(* What the adapter waits for is what the bridge's client is sending, and   *)
(* commands are sent, and nodes are ready, only after a bootstrap ran.      *)
SendsInv ==
  /\ \A c \in Commands : client[Command(c)].at = "sending" => place[c] = "sending"
  /\ \A c \in Commands : place[c] = "accepted" => client[Command(c)].at = "delivered"

RanInv ==
  /\ ready # {} => BootstrapRan
  /\ \A c \in Commands : place[c] = "sending" => BootstrapRan
  /\ \A c \in Commands : client[Command(c)].at # "new" => BootstrapRan

BothInv == AdapterInv /\ BridgeInv /\ SendsInv /\ RanInv

LEMMA EnvelopeFacts ==
  /\ \A c \in Commands : BootstrapOf(c) \in Envelopes /\ Command(c) \in Envelopes
  /\ \A c, d \in Commands :
       /\ BootstrapOf(c) # Command(d)
       /\ Command(c) = Command(d) => c = d
BY HostToWorkerAssumption DEF BootstrapOf, Command

(* To the bridge, every step is one of its own.                             *)
LEMMA BridgeStep == [HostToWorkerNext]_bothVars => [BridgeNext]_bridgeVars
<1> SUFFICES ASSUME [HostToWorkerNext]_bothVars PROVE [BridgeNext]_bridgeVars
  OBVIOUS
<1>1. ASSUME NEW c \in Commands, HostAsks(c) PROVE UNCHANGED bridgeVars
  BY <1>1 DEF HostAsks
<1>2. ASSUME NEW c \in Commands, Delivery(c) PROVE \E e \in Envelopes : HostStep(e)
  BY <1>2, EnvelopeFacts
     DEF Delivery, BootstrapDelivered, BootstrapGivenUp, CommandDelivered, CommandGivenUp,
         HostStep
<1>3. CASE SendEnvelope
  BY <1>3, EnvelopeFacts DEF SendEnvelope, BridgeNext, HostStep
<1>4. CASE Underway
  BY <1>4 DEF Underway, BridgeNext, HostStep
<1>5. CASE UNCHANGED bothVars
  BY <1>5 DEF bothVars
<1> QED
  BY <1>1, <1>2, <1>3, <1>4, <1>5 DEF HostToWorkerNext, BridgeNext

(* To the adapter as well, because what ends a command's sending finds the  *)
(* command waiting for it.                                                  *)
LEMMA AdapterStep == SendsInv /\ [HostToWorkerNext]_bothVars => [AdapterNext]_vars
<1> SUFFICES ASSUME SendsInv, [HostToWorkerNext]_bothVars PROVE [AdapterNext]_vars
  OBVIOUS
<1>1. ASSUME NEW c \in Commands, HostAsks(c) PROVE AdapterNext
  BY <1>1 DEF HostAsks, AdapterNext
<1>2. ASSUME NEW c \in Commands, Delivery(c) PROVE AdapterNext
  <2>1. CASE BootstrapDelivered(c) \/ BootstrapGivenUp(c)
    BY <2>1 DEF BootstrapDelivered, BootstrapGivenUp, AdapterNext
  <2>2. CASE CommandDelivered(c) \/ CommandGivenUp(c)
    <3>1. place[c] = "sending"
      BY <2>2 DEF CommandDelivered, CommandGivenUp, Acknowledge, GiveUp, SendsInv
    <3>2. Answer(c)
      BY <2>2, <3>1 DEF CommandDelivered, CommandGivenUp, CommandEnds, Answer
    <3> QED
      BY <3>2 DEF AdapterNext
  <2> QED
    BY <1>2, <2>1, <2>2 DEF Delivery
<1>3. CASE SendEnvelope \/ Underway
  BY <1>3 DEF SendEnvelope, Underway
<1>4. CASE UNCHANGED bothVars
  BY <1>4 DEF bothVars
<1> QED
  BY <1>1, <1>2, <1>3, <1>4 DEF HostToWorkerNext

(* How the places of the commands and the clients change together.          *)
LEMMA StepFacts ==
  ASSUME BothInv, [HostToWorkerNext]_bothVars, NEW c \in Commands
  PROVE  LET e == Command(c) IN
         \/ client'[e] = client[e] /\ place'[c] = place[c]
         \/ /\ client'[e] = client[e]
            /\ place[c] # "sending" /\ place'[c] \notin {place[c], "accepted"}
            /\ place'[c] = "sending" => ready # {} \/ BootstrapRan'
         \/ client'[e].at = "sending" /\ place[c] = "sending" /\ place'[c] = "sending"
         \/ client'[e].at = "delivered" /\ place[c] = "sending" /\ place'[c] = "accepted"
         \/ client'[e].at = "failed" /\ place[c] = "sending" /\ place'[c] = "rejected"
<1> DEFINE e == Command(c)
           Facts ==
             \/ client'[e] = client[e] /\ place'[c] = place[c]
             \/ /\ client'[e] = client[e]
                /\ place[c] # "sending" /\ place'[c] \notin {place[c], "accepted"}
                /\ place'[c] = "sending" => ready # {} \/ BootstrapRan'
             \/ client'[e].at = "sending" /\ place[c] = "sending" /\ place'[c] = "sending"
             \/ client'[e].at = "delivered" /\ place[c] = "sending" /\ place'[c] = "accepted"
             \/ client'[e].at = "failed" /\ place[c] = "sending" /\ place'[c] = "rejected"
<1> SUFFICES Facts
  OBVIOUS
<1>0. /\ client \in [Envelopes -> Client] /\ place \in [Commands -> Place]
      /\ e \in Envelopes
  BY EnvelopeFacts DEF BothInv, AdapterInv, TypeOK, BridgeInv, BridgeTypeOK
<1>1. ASSUME NEW d \in Commands, HostAsks(d) PROVE Facts
  <2>1. client' = client
    BY <1>1 DEF HostAsks, bridgeVars
  <2>2. \/ place'[c] = place[c]
        \/ place[c] = "idle" /\ place'[c] \in {"local", "waiting", "bootstrapping"}
        \/ place[c] = "idle" /\ place'[c] = "sending" /\ ready # {}
    BY <1>0, <1>1 DEF HostAsks, Dispatch, Goes
  <2> QED
    BY <2>1, <2>2
<1>2. ASSUME NEW d \in Commands, BootstrapDelivered(d) PROVE Facts
  <2>1. client'[e] = client[e]
    BY <1>0, <1>2, EnvelopeFacts DEF BootstrapDelivered, Acknowledge, Client
  <2>2. Executed(BootstrapOf(d))'
    <3>1. client'[BootstrapOf(d)].at = "delivered"
      BY <1>0, <1>2, EnvelopeFacts DEF BootstrapDelivered, Acknowledge, Client
    <3>2. BridgeInv'
      BY BridgeStep, BridgeInvStep DEF BothInv
    <3> QED
      BY <3>1, <3>2, EnvelopeFacts DEF BridgeInv, DeliveredWasExecuted, Executed
  <2>3. \/ place'[c] = place[c]
        \/ place[c] \in {"waiting", "bootstrapping"} /\ place'[c] = "sending"
    BY <1>2 DEF BootstrapDelivered, BootstrapSucceeds, Settle, Awaiting
  <2> QED
    BY <2>1, <2>2, <2>3 DEF BootstrapRan
<1>3. ASSUME NEW d \in Commands, BootstrapGivenUp(d) PROVE Facts
  <2>1. client'[e] = client[e]
    BY <1>0, <1>3, EnvelopeFacts DEF BootstrapGivenUp, GiveUp, Client
  <2>2. \/ place'[c] = place[c]
        \/ place[c] \in {"waiting", "bootstrapping"} /\ place'[c] = "rejected"
    BY <1>3 DEF BootstrapGivenUp, BootstrapFails, Settle, Awaiting
  <2> QED
    BY <2>1, <2>2
<1>4. ASSUME NEW d \in Commands, CommandDelivered(d) PROVE Facts
  <2>1. place[d] = "sending"
    BY <1>4 DEF CommandDelivered, Acknowledge, BothInv, SendsInv
  <2>2. CASE d = c
    BY <1>0, <1>4, <2>1, <2>2 DEF CommandDelivered, CommandEnds, Acknowledge, Goes, Client
  <2>3. CASE d # c
    <3>1. Command(d) # e
      BY <2>3, EnvelopeFacts
    <3> QED
      BY <1>0, <1>4, <2>3, <3>1 DEF CommandDelivered, CommandEnds, Acknowledge, Goes
  <2> QED
    BY <2>2, <2>3
<1>5. ASSUME NEW d \in Commands, CommandGivenUp(d) PROVE Facts
  <2>1. place[d] = "sending"
    BY <1>5 DEF CommandGivenUp, GiveUp, BothInv, SendsInv
  <2>2. CASE d = c
    BY <1>0, <1>5, <2>1, <2>2 DEF CommandGivenUp, CommandEnds, GiveUp, Goes, Client
  <2>3. CASE d # c
    <3>1. Command(d) # e
      BY <2>3, EnvelopeFacts
    <3> QED
      BY <1>0, <1>5, <2>3, <3>1 DEF CommandGivenUp, CommandEnds, GiveUp, Goes
  <2> QED
    BY <2>2, <2>3
<1>6. CASE SendEnvelope
  <2>1. place' = place
    BY <1>6 DEF SendEnvelope, vars
  <2>2. PICK d \in Commands :
          \/ place[d] = "bootstrapping" /\ Send(BootstrapOf(d))
          \/ place[d] = "sending" /\ Send(Command(d))
    BY <1>6 DEF SendEnvelope
  <2>3. CASE Send(Command(d)) /\ place[d] = "sending" /\ d = c
    BY <1>0, <2>1, <2>3 DEF Send, Transmit
  <2>4. CASE Send(Command(d)) /\ d # c
    <3>1. Command(d) # e
      BY <2>4, EnvelopeFacts
    <3> QED
      BY <1>0, <2>1, <2>4, <3>1 DEF Send, Transmit
  <2>5. CASE Send(BootstrapOf(d))
    BY <1>0, <2>1, <2>5, EnvelopeFacts DEF Send, Transmit
  <2> QED
    BY <2>2, <2>3, <2>4, <2>5
<1>7. CASE Underway
  <2>1. place' = place
    BY <1>7 DEF Underway, vars
  <2>2. CASE \E f \in Envelopes : Retry(f)
    <3>1. PICK f \in Envelopes : Retry(f)
      BY <2>2
    <3>2. CASE f = e
      <4>1. place[c] = "sending"
        BY <3>1, <3>2 DEF Retry, BothInv, SendsInv
      <4>2. client'[e].at = "sending"
        BY <1>0, <3>1, <3>2 DEF Retry, Transmit
      <4> QED
        BY <2>1, <4>1, <4>2
    <3>3. CASE f # e
      BY <1>0, <2>1, <3>1, <3>3 DEF Retry, Transmit
    <3> QED
      BY <3>2, <3>3
  <2>3. CASE client' = client
    BY <2>1, <2>3
  <2> QED
    BY <1>7, <2>2, <2>3
       DEF Underway, WorkerStep, Dedupe, Execute, Complete, Refuse, Restart
<1>8. CASE UNCHANGED bothVars
  BY <1>8 DEF bothVars, vars, bridgeVars
<1> QED
  BY <1>1, <1>2, <1>3, <1>4, <1>5, <1>6, <1>7, <1>8 DEF HostToWorkerNext, Delivery

LEMMA SendsStep ==
  ASSUME BothInv, [HostToWorkerNext]_bothVars
  PROVE  SendsInv'
<1>1. ASSUME NEW c \in Commands, client'[Command(c)].at = "sending"
      PROVE  place'[c] = "sending"
  BY <1>1, StepFacts DEF BothInv, SendsInv
<1>2. ASSUME NEW c \in Commands, place'[c] = "accepted"
      PROVE  client'[Command(c)].at = "delivered"
  BY <1>2, StepFacts DEF BothInv, SendsInv
<1> QED
  BY <1>1, <1>2 DEF SendsInv

(* A bootstrap that ran did so for ever, and the first node became ready    *)
(* with the answer to one.                                                  *)
LEMMA RanStep ==
  ASSUME BothInv, [HostToWorkerNext]_bothVars
  PROVE  RanInv'
<1>1. BootstrapRan => BootstrapRan'
  BY BridgeStep, ExecutedForEver, EnvelopeFacts DEF BootstrapRan, BothInv, BridgeInv
<1>2. ready' = ready \/ BootstrapRan'
  <2>1. ASSUME NEW d \in Commands, BootstrapDelivered(d) PROVE BootstrapRan'
    <3>1. BridgeInv'
      BY BridgeStep, BridgeInvStep DEF BothInv
    <3>2. client'[BootstrapOf(d)].at = "delivered"
      BY <2>1, EnvelopeFacts DEF BootstrapDelivered, Acknowledge, BothInv, BridgeInv, BridgeTypeOK, Client
    <3> QED
      BY <3>1, <3>2, EnvelopeFacts DEF BridgeInv, DeliveredWasExecuted, Executed, BootstrapRan
  <2> QED
    BY <2>1
       DEF HostToWorkerNext, HostAsks, Dispatch, Delivery, BootstrapGivenUp, BootstrapFails,
           CommandDelivered, CommandGivenUp, CommandEnds, readiness, SendEnvelope, Underway,
           vars, bothVars
<1>3. ASSUME NEW c \in Commands, place'[c] = "sending" PROVE BootstrapRan'
  BY <1>1, <1>3, StepFacts DEF BothInv, RanInv
<1>4. ASSUME NEW c \in Commands, client'[Command(c)].at # "new" PROVE BootstrapRan'
  BY <1>1, <1>4, StepFacts DEF BothInv, RanInv
<1> QED
  BY <1>1, <1>2, <1>3, <1>4 DEF BothInv, RanInv

LEMMA BothInit == HostToWorkerInit => BothInv
<1> SUFFICES ASSUME HostToWorkerInit PROVE BothInv
  OBVIOUS
<1>1. AdapterInv /\ BridgeInv
  BY AdapterInitInv, BridgeInitInv DEF HostToWorkerInit
<1>2. SendsInv /\ RanInv
  BY EnvelopeFacts DEF HostToWorkerInit, AdapterInit, BridgeInit, SendsInv, RanInv
<1> QED
  BY <1>1, <1>2 DEF BothInv

LEMMA BothStep == BothInv /\ [HostToWorkerNext]_bothVars => BothInv'
BY AdapterStep, AdapterInvStep, BridgeStep, BridgeInvStep, SendsStep, RanStep DEF BothInv

THEOREM BothInvariance == HostToWorkerSpec => []BothInv
BY BothInit, BothStep, PTL DEF HostToWorkerSpec

-----------------------------------------------------------------------------
(* Over the bridge the adapter behaves as it does over deliveries that just *)
(* end, and under the adapter the bridge is a command bridge: each keeps    *)
(* all that was proved of it alone.                                         *)
THEOREM CompositionImplementsBoth == HostToWorkerSpec => AdapterSpec /\ BridgeSpec
<1>1. HostToWorkerInit => AdapterInit /\ BridgeInit
  BY DEF HostToWorkerInit
<1>2. BothInv /\ [HostToWorkerNext]_bothVars => [AdapterNext]_vars /\ [BridgeNext]_bridgeVars
  BY AdapterStep, BridgeStep DEF BothInv
<1> QED
  BY <1>1, <1>2, BothInvariance, PTL DEF HostToWorkerSpec, AdapterSpec, BridgeSpec

(* No command of a run begins on a worker before a bootstrap of the run     *)
(* ended there, and what the adapter reports as accepted was executed       *)
(* (host-node-bridge-client.ts:42, team-routing-port-adapter.ts:209).       *)
THEOREM HostKnowsTheWorker == HostToWorkerSpec => []HostAndWorkerAgree
<1>1. ASSUME BothInv PROVE HostAndWorkerAgree
  <2>1. ASSUME NEW c \in Commands, NEW n \in Attempts,
               request[Command(c)][n] \notin {"none", "sent"}
        PROVE  \E d \in Commands : NodeOf[d] = NodeOf[c] /\ RanToTheEnd(BootstrapOf(d))
    <3>1. client[Command(c)].at # "new"
      BY <1>1, <2>1, EnvelopeFacts, CommandBridgeAssumption
         DEF BothInv, BridgeInv, UnsentInv, Attempts
    <3> QED
      BY <1>1, <3>1, HostToWorkerAssumption DEF BothInv, RanInv, BootstrapRan, Executed, RanToTheEnd
  <2>2. ASSUME NEW c \in Commands, place[c] = "accepted" PROVE RanToTheEnd(Command(c))
    BY <1>1, <2>2, EnvelopeFacts
       DEF BothInv, SendsInv, BridgeInv, DeliveredWasExecuted, RanToTheEnd
  <2> QED
    BY <2>1, <2>2 DEF HostAndWorkerAgree
<1> QED
  BY <1>1, BothInvariance, PTL

-----------------------------------------------------------------------------
(* The worker                                                               *)

(* where handlers of each kind of command may be suspended                  *)
PlacesOf(kind) ==
  CASE kind = "bootstrap" -> {"resolving", "rebinding", "terminating", "building",
                              "starting", "attaching"}
    [] kind = "message"   -> {"dispatching"}
    [] kind = "stop"      -> {"stopping", "closing", "tearing"}

Places == {"idle", "resolving", "rebinding", "terminating", "building", "starting",
           "attaching", "dispatching", "stopping", "closing", "tearing"}

Progress == [at : Places, team : Teams \cup {NoTeam}]

WorkerTypeOK ==
  /\ binding \in [Runs -> Teams \cup {NoTeam}]
  /\ managed \subseteq Runs
  /\ forwarder \in [Runs -> Teams \cup {NoTeam}]
  /\ alive \subseteq Teams
  /\ config \in [Teams -> Configs \cup {NoConfig}]
  /\ teamOfDefinition \in Teams \cup {NoTeam}
  /\ progress \in [Envelopes -> [Attempts -> Progress]]
  /\ disturbed \subseteq Runs

(* a handler is suspended exactly where a request of its kind executes      *)
SuspendedInv ==
  \A e \in Envelopes, n \in Attempts :
    IF request[e][n] = "executing" THEN progress[e][n].at \in PlacesOf(KindOf[e])
                                   ELSE progress[e][n] = Idle

(* the teams that a run is bound to, dead or alive, that its bootstrap is   *)
(* creating and that its messages are handed to, have its configuration     *)
ConfigInv ==
  /\ \A t \in alive : config[t] # NoConfig
  /\ \A r \in Runs : binding[r] # NoTeam => config[binding[r]] = ConfigOf[r]
  /\ \A e \in Envelopes, n \in Attempts :
       /\ At(e, n, "starting") => progress[e][n].team # NoTeam
       /\ (progress[e][n].at \in {"starting", "dispatching"} /\ progress[e][n].team # NoTeam) =>
            config[progress[e][n].team] = ConfigOf[RunOf[e]]

Whole(r) ==
  /\ binding[r] # NoTeam => r \in managed
  /\ binding[r] \in alive => forwarder[r] = binding[r]
  /\ binding[r] = NoTeam => r \notin managed /\ forwarder[r] = NoTeam

Unbound(r) == binding[r] = NoTeam /\ r \notin managed /\ forwarder[r] = NoTeam

(* what a suspended bootstrap or stop of r may count on                     *)
Midway(r, p) ==
  /\ p.at \in {"resolving", "stopping"} => Whole(r)
  /\ p.at = "rebinding" => /\ binding[r] \notin alive \cup {NoTeam}
                           /\ r \in managed /\ forwarder[r] = NoTeam
  /\ p.at \in {"terminating", "building", "starting", "closing"} => Unbound(r)
  /\ p.at = "attaching" => /\ binding[r] # NoTeam
                           /\ r \in managed /\ forwarder[r] = NoTeam
                           /\ p.team = NoTeam => binding[r] \notin alive
                           /\ p.team # NoTeam => p.team = binding[r]
  /\ p.at = "tearing" => forwarder[r] = NoTeam

RunInv(r) ==
  r \notin disturbed =>
    /\ ControlOf(r) = {} => Whole(r)
    /\ \A q \in ControlOf(r) : ControlOf(r) = {q} /\ Midway(r, progress[q[1]][q[2]])

WorkerInv ==
  /\ BridgeInv /\ WorkerTypeOK /\ SuspendedInv /\ ConfigInv
  /\ \A r \in Runs : RunInv(r)

-----------------------------------------------------------------------------
(* A worker's step is a step of the bridge, or leaves the bridge alone.     *)
LEMMA WorkerStepsBridge == [Next]_allVars => [BridgeNext]_bridgeVars
<1> SUFFICES ASSUME [Next]_allVars PROVE [BridgeNext]_bridgeVars
  OBVIOUS
<1>1. ASSUME NEW e \in Envelopes, HostCommand(e) PROVE BridgeNext
  BY <1>1 DEF HostCommand, BridgeNext, HostStep
<1>2. ASSUME NEW e \in Envelopes, NEW n \in Attempts, Receive(e, n) PROVE BridgeNext
  BY <1>2 DEF Receive, Bootstrap, ReceiveMessage, StopTeam, StopWithoutTeam, StartControl,
              BridgeNext, WorkerStep
<1>3. ASSUME NEW e \in Envelopes, NEW n \in Attempts, Handle(e, n)
      PROVE  BridgeNext \/ UNCHANGED bridgeVars
  <2>1. ASSUME Return(e, n) \/ Throw(e, n) PROVE BridgeNext
    BY <2>1 DEF Return, Throw, BridgeNext, WorkerStep
  <2>2. CASE \/ AlreadyBound(e, n) \/ Attached(e, n) \/ MessageHandled(e, n)
             \/ RunClosed(e, n) \/ HandlerFails(e, n)
    BY <2>1, <2>2 DEF AlreadyBound, Attached, MessageHandled, RunClosed, HandlerFails
  <2>3. CASE BoundToDeadTeam(e, n) \/ Terminated(e, n) \/ TeamIdle(e, n) \/ TeamStopped(e, n)
    BY <2>3 DEF BoundToDeadTeam, Terminated, TeamIdle, Bind, TeamStopped, Await
  <2>4. CASE NotBound(e, n) \/ TornDown(e, n)
    BY <2>4 DEF NotBound, TornDown, ReuseTeam, Bind, ReplaceTeam, Await
  <2>5. ASSUME NEW t \in Teams, Built(e, n, t) PROVE UNCHANGED bridgeVars
    BY <2>5 DEF Built, Await
  <2> QED
    BY <1>3, <2>2, <2>3, <2>4, <2>5 DEF Handle
<1>4. ASSUME NEW t \in Teams, TerminateTeam(t) PROVE UNCHANGED bridgeVars
  BY <1>4 DEF TerminateTeam
<1>5. CASE RestartWorker
  BY <1>5 DEF RestartWorker, BridgeNext
<1>6. CASE UNCHANGED allVars
  BY <1>6 DEF allVars
<1> QED
  BY <1>1, <1>2, <1>3, <1>4, <1>5, <1>6 DEF Next

(* Nothing arrived yet.                                                     *)
LEMMA WorkerInitInv == Init => WorkerInv
<1> SUFFICES ASSUME Init PROVE WorkerInv
  OBVIOUS
<1>1. BridgeInv
  BY BridgeInitInv DEF Init
<1>2. WorkerTypeOK
  BY DEF Init, WorkerTypeOK, Progress, Places, Idle
<1>3. SuspendedInv /\ ConfigInv
  BY DEF Init, BridgeInit, SuspendedInv, ConfigInv, At, Idle
<1>4. ASSUME NEW r \in Runs PROVE RunInv(r)
  BY DEF Init, BridgeInit, RunInv, ControlOf, Whole, NoTeam, Teams
<1> QED
  BY <1>1, <1>2, <1>3, <1>4 DEF WorkerInv

-----------------------------------------------------------------------------
(* What the steps of a handler have in common                               *)

(* A handler is suspended at a place of its command's kind.                 *)
LEMMA HandlerFacts ==
  ASSUME WorkerInv, NEW e \in Envelopes, NEW n \in Attempts, progress[e][n].at # "idle"
  PROVE  /\ request[e][n] = "executing" /\ progress[e][n].at \in PlacesOf(KindOf[e])
         /\ RunOf[e] \in Runs /\ progress[e][n].team \in Teams \cup {NoTeam}
<1>1. progress[e][n] \in Progress
  BY DEF WorkerInv, WorkerTypeOK
<1> QED
  BY <1>1, WorkerRunAssumption DEF WorkerInv, SuspendedInv, Idle, Progress

(* The only bootstrap or stop of an undisturbed run knows what it may count on. *)
LEMMA MidwayFacts ==
  ASSUME WorkerInv, NEW e \in Envelopes, NEW n \in Attempts, progress[e][n].at # "idle",
         KindOf[e] # "message", RunOf[e] \notin disturbed
  PROVE  ControlOf(RunOf[e]) = {<<e, n>>} /\ Midway(RunOf[e], progress[e][n])
<1>1. request[e][n] = "executing" /\ RunOf[e] \in Runs
  BY HandlerFacts
<1>2. <<e, n>> \in ControlOf(RunOf[e])
  BY <1>1 DEF ControlOf
<1>3. RunInv(RunOf[e])
  BY <1>1 DEF WorkerInv
<1> QED
  BY <1>2, <1>3 DEF RunInv

LEMMA ProgressFacts ==
  ASSUME WorkerTypeOK, NEW e \in Envelopes, NEW n \in Attempts, NEW p \in Progress,
         progress' = [progress EXCEPT ![e][n] = p]
  PROVE  /\ progress' \in [Envelopes -> [Attempts -> Progress]]
         /\ progress'[e][n] = p
         /\ \A f \in Envelopes, k \in Attempts :
              (f # e \/ k # n) => progress'[f][k] = progress[f][k]
BY DEF WorkerTypeOK

(* The bootstraps and stops under way, when at most one request of e changes. *)
LEMMA ControlFacts ==
  ASSUME NEW e \in Envelopes, NEW n \in Attempts,
         \A f \in Envelopes, k \in Attempts :
           (f # e \/ k # n) => (request'[f][k] = "executing" <=> request[f][k] = "executing")
  PROVE  /\ \A r \in Runs : (r # RunOf[e] \/ KindOf[e] = "message") =>
              ControlOf(r)' = ControlOf(r)
         /\ (request'[e][n] = "executing" <=> request[e][n] = "executing") =>
              \A r \in Runs : ControlOf(r)' = ControlOf(r)
         /\ (request'[e][n] = "executing" /\ KindOf[e] # "message") =>
              ControlOf(RunOf[e])' = ControlOf(RunOf[e]) \cup {<<e, n>>}
         /\ request'[e][n] # "executing" =>
              ControlOf(RunOf[e])' = ControlOf(RunOf[e]) \ {<<e, n>>}
BY DEF ControlOf

(* Teams are created once, and never come back.                             *)
TeamsMoveOn ==
  /\ alive' \subseteq Teams /\ teamOfDefinition' \in Teams \cup {NoTeam}
  /\ config' \in [Teams -> Configs \cup {NoConfig}]
  /\ \A t \in Teams : config[t] # NoConfig => config'[t] = config[t]
  /\ \A t \in alive' : (t \in alive \/ config[t] = NoConfig) /\ config'[t] # NoConfig

(* Only run r is bound, tracked or forwarded differently, and as it should. *)
OnlyRun(r) ==
  /\ binding' \in [Runs -> Teams \cup {NoTeam}]
  /\ managed' \subseteq Runs
  /\ forwarder' \in [Runs -> Teams \cup {NoTeam}]
  /\ \A q \in Runs \ {r} :
       binding'[q] = binding[q] /\ forwarder'[q] = forwarder[q] /\ (q \in managed' <=> q \in managed)
  /\ binding'[r] # NoTeam => config'[binding'[r]] = ConfigOf[r]

(* A run that a step does not touch.                                        *)
LEMMA Elsewhere ==
  ASSUME WorkerInv, NEW r \in Runs, TeamsMoveOn,
         ControlOf(r)' = ControlOf(r),
         \A q \in ControlOf(r) : progress'[q[1]][q[2]] = progress[q[1]][q[2]],
         binding'[r] = binding[r], forwarder'[r] = forwarder[r],
         r \in managed' <=> r \in managed,
         r \in disturbed => r \in disturbed'
  PROVE  RunInv(r)'
<1>1. binding[r] \in alive' => binding[r] \in alive
  <2> SUFFICES ASSUME binding[r] \in alive', binding[r] \notin alive PROVE FALSE
    OBVIOUS
  <2>1. config[binding[r]] = NoConfig
    BY DEF TeamsMoveOn
  <2>2. binding[r] # NoTeam
    BY DEF TeamsMoveOn, Teams, NoTeam
  <2>3. config[binding[r]] = ConfigOf[r]
    BY <2>2 DEF WorkerInv, ConfigInv
  <2> QED
    BY <2>1, <2>3, WorkerRunAssumption
<1>2. Whole(r) => Whole(r)'
  BY <1>1 DEF Whole
<1>3. ASSUME NEW p, Midway(r, p) PROVE Midway(r, p)'
  BY <1>1, <1>2, <1>3 DEF Midway, Unbound
<1>4. RunInv(r)
  BY DEF WorkerInv
<1> QED
  BY <1>2, <1>3, <1>4 DEF RunInv

(* What a step of the handler of (e, n) leaves of the other handlers.       *)
LEMMA SuspendedStep ==
  ASSUME WorkerInv, NEW e \in Envelopes, NEW n \in Attempts, NEW p \in Progress,
         progress' = [progress EXCEPT ![e][n] = p],
         \A f \in Envelopes, k \in Attempts :
           (f # e \/ k # n) => request'[f][k] = request[f][k],
         IF request'[e][n] = "executing" THEN p.at \in PlacesOf(KindOf[e]) ELSE p = Idle
  PROVE  SuspendedInv'
<1>1. SuspendedInv /\ WorkerTypeOK
  BY DEF WorkerInv
<1> SUFFICES ASSUME NEW f \in Envelopes, NEW k \in Attempts
             PROVE  IF request'[f][k] = "executing" THEN progress'[f][k].at \in PlacesOf(KindOf[f])
                                                    ELSE progress'[f][k] = Idle
  BY DEF SuspendedInv
<1>2. CASE f = e /\ k = n
  BY <1>1, <1>2, ProgressFacts
<1>3. CASE f # e \/ k # n
  <2>1. progress'[f][k] = progress[f][k] /\ request'[f][k] = request[f][k]
    BY <1>1, <1>3, ProgressFacts
  <2> QED
    BY <1>1, <2>1 DEF SuspendedInv
<1> QED
  BY <1>2, <1>3

LEMMA ConfigStep ==
  ASSUME WorkerInv, NEW e \in Envelopes, NEW n \in Attempts, NEW p \in Progress,
         progress' = [progress EXCEPT ![e][n] = p],
         TeamsMoveOn, OnlyRun(RunOf[e]),
         p.at = "starting" => p.team # NoTeam,
         (p.at \in {"starting", "dispatching"} /\ p.team # NoTeam) =>
           config'[p.team] = ConfigOf[RunOf[e]]
  PROVE  ConfigInv'
<1>1. ConfigInv /\ WorkerTypeOK
  BY DEF WorkerInv
<1>2. \A t \in alive' : config'[t] # NoConfig
  BY DEF TeamsMoveOn
<1>3. ASSUME NEW t \in Teams, NEW r \in Runs, config[t] = ConfigOf[r]
      PROVE  config'[t] = ConfigOf[r]
  BY <1>3, WorkerRunAssumption DEF TeamsMoveOn
<1>4. ASSUME NEW r \in Runs, binding'[r] # NoTeam PROVE config'[binding'[r]] = ConfigOf[r]
  <2>1. CASE r = RunOf[e]
    BY <1>4, <2>1 DEF OnlyRun
  <2>2. CASE r # RunOf[e]
    <3>1. binding'[r] = binding[r] /\ binding[r] \in Teams \cup {NoTeam}
      BY <1>1, <2>2 DEF OnlyRun, WorkerTypeOK
    <3> QED
      BY <1>1, <1>3, <1>4, <3>1 DEF ConfigInv
  <2> QED
    BY <2>1, <2>2
<1>5. ASSUME NEW f \in Envelopes, NEW k \in Attempts
      PROVE  /\ progress'[f][k].at = "starting" => progress'[f][k].team # NoTeam
             /\ (progress'[f][k].at \in {"starting", "dispatching"}
                   /\ progress'[f][k].team # NoTeam) =>
                  config'[progress'[f][k].team] = ConfigOf[RunOf[f]]
  <2>1. CASE f = e /\ k = n
    BY <1>1, <2>1, ProgressFacts
  <2>2. CASE f # e \/ k # n
    <3>1. progress'[f][k] = progress[f][k]
      BY <1>1, <2>2, ProgressFacts
    <3>2. progress[f][k].team \in Teams \cup {NoTeam} /\ RunOf[f] \in Runs
      BY <1>1, WorkerRunAssumption DEF WorkerTypeOK, Progress
    <3> QED
      BY <1>1, <1>3, <3>1, <3>2 DEF ConfigInv, At
  <2> QED
    BY <2>1, <2>2
<1> QED
  BY <1>2, <1>4, <1>5 DEF ConfigInv, At

(* Runs other than that of the handler that steps.                          *)
LEMMA OthersStep ==
  ASSUME WorkerInv, NEW e \in Envelopes, NEW n \in Attempts, NEW p \in Progress,
         progress' = [progress EXCEPT ![e][n] = p],
         \A f \in Envelopes, k \in Attempts :
           (f # e \/ k # n) => request'[f][k] = request[f][k],
         TeamsMoveOn, OnlyRun(RunOf[e]), disturbed \subseteq disturbed',
         NEW r \in Runs,
         \/ r # RunOf[e]
         \/ KindOf[e] = "message" /\ UNCHANGED runVars
  PROVE  RunInv(r)'
<1>1. ControlOf(r)' = ControlOf(r)
  <2>1. \A f \in Envelopes, k \in Attempts :
          (f # e \/ k # n) => (request'[f][k] = "executing" <=> request[f][k] = "executing")
    OBVIOUS
  <2> QED
    BY <2>1, ControlFacts
<1>2. ASSUME NEW q \in ControlOf(r)
      PROVE  progress'[q[1]][q[2]] = progress[q[1]][q[2]]
  <2>1. q[1] \in Envelopes /\ q[2] \in Attempts /\ (q[1] # e \/ q[2] # n)
    BY DEF ControlOf
  <2> QED
    BY <2>1, ProgressFacts DEF WorkerInv
<1>3. /\ binding'[r] = binding[r] /\ forwarder'[r] = forwarder[r]
      /\ r \in managed' <=> r \in managed
  BY DEF OnlyRun, runVars
<1> QED
  BY <1>1, <1>2, <1>3, Elsewhere

-----------------------------------------------------------------------------
(* The three kinds of step of a handler: it starts, goes on, or ends        *)

LEMMA WorkerTypeStep ==
  ASSUME WorkerInv, NEW e \in Envelopes, NEW n \in Attempts, NEW p \in Progress,
         progress' = [progress EXCEPT ![e][n] = p],
         TeamsMoveOn, OnlyRun(RunOf[e]), disturbed' \subseteq Runs
  PROVE  WorkerTypeOK'
<1>1. progress' \in [Envelopes -> [Attempts -> Progress]]
  BY ProgressFacts DEF WorkerInv
<1> QED
  BY <1>1 DEF WorkerTypeOK, TeamsMoveOn, OnlyRun

LEMMA GoesOn ==
  ASSUME WorkerInv, [Next]_allVars, NEW e \in Envelopes, NEW n \in Attempts,
         progress[e][n].at # "idle", KindOf[e] # "message",
         NEW at \in PlacesOf(KindOf[e]) \cap Places, NEW t \in Teams \cup {NoTeam},
         Await(e, n, at, t), UNCHANGED disturbed,
         TeamsMoveOn, OnlyRun(RunOf[e]),
         at = "starting" => t # NoTeam /\ config'[t] = ConfigOf[RunOf[e]],
         RunOf[e] \notin disturbed => Midway(RunOf[e], [at |-> at, team |-> t])'
  PROVE  WorkerInv'
<1> DEFINE p == [at |-> at, team |-> t]
<1>1. p \in Progress /\ p.at = at /\ p.team = t
  BY DEF Progress
<1>2. progress' = [progress EXCEPT ![e][n] = p] /\ request' = request
  BY DEF Await, bridgeVars
<1>3. request[e][n] = "executing" /\ RunOf[e] \in Runs
  BY HandlerFacts
<1>4. disturbed' = disturbed /\ disturbed \subseteq Runs
  BY DEF WorkerInv, WorkerTypeOK
<1>5. at # "dispatching"
  BY WorkerRunAssumption DEF PlacesOf
<1> HIDE DEF p
<1>6. BridgeInv'
  BY WorkerStepsBridge, BridgeInvStep DEF WorkerInv
<1>7. WorkerTypeOK'
  BY <1>1, <1>2, <1>4, WorkerTypeStep
<1>8. SuspendedInv'
  BY <1>1, <1>2, <1>3, SuspendedStep
<1>9. ConfigInv'
  BY <1>1, <1>2, <1>5, ConfigStep
<1>10. ASSUME NEW r \in Runs, r # RunOf[e] PROVE RunInv(r)'
  BY <1>1, <1>2, <1>4, <1>10, OthersStep
<1>11. RunInv(RunOf[e])'
  <2> SUFFICES ASSUME RunOf[e] \notin disturbed PROVE RunInv(RunOf[e])'
    BY <1>4 DEF RunInv
  <2>1. ControlOf(RunOf[e])' = {<<e, n>>}
    BY <1>2, MidwayFacts DEF ControlOf
  <2>2. progress'[e][n] = p
    <3>1. WorkerTypeOK
      BY DEF WorkerInv
    <3> QED
      BY <3>1, <1>1, <1>2, ProgressFacts
  <2>3. Midway(RunOf[e], p)'
    BY DEF p
  <2>4. ASSUME NEW q \in ControlOf(RunOf[e])'
        PROVE  q = <<e, n>> /\ progress'[q[1]][q[2]] = p
    BY <2>1, <2>2
  <2>5. ASSUME NEW q \in ControlOf(RunOf[e])' PROVE Midway(RunOf[e], progress[q[1]][q[2]])'
    BY <2>3, <2>4 DEF Midway
  <2> QED
    BY <2>1, <2>4, <2>5 DEF RunInv
<1> QED
  BY <1>6, <1>7, <1>8, <1>9, <1>10, <1>11 DEF WorkerInv

LEMMA Ends ==
  ASSUME WorkerInv, [Next]_allVars, NEW e \in Envelopes, NEW n \in Attempts,
         progress[e][n].at # "idle",
         Return(e, n) \/ Throw(e, n), UNCHANGED disturbed,
         TeamsMoveOn, OnlyRun(RunOf[e]),
         \/ KindOf[e] = "message" /\ UNCHANGED runVars
         \/ KindOf[e] # "message" /\ (RunOf[e] \notin disturbed => Whole(RunOf[e])')
  PROVE  WorkerInv'
<1>1. Idle \in Progress /\ Idle.at = "idle" /\ Idle.team = NoTeam
  BY DEF Idle, Progress, Places
<1>2. /\ progress' = [progress EXCEPT ![e][n] = Idle]
      /\ request'[e][n] # "executing"
      /\ \A f \in Envelopes, k \in Attempts :
           (f # e \/ k # n) => request'[f][k] = request[f][k]
  BY BecomesOne, "done" \in RequestState, "failed" \in RequestState
     DEF Return, Throw, Complete, Refuse, WorkerInv, BridgeInv, RequestState
<1>3. RunOf[e] \in Runs
  BY HandlerFacts
<1>4. disturbed' = disturbed /\ disturbed \subseteq Runs
  BY DEF WorkerInv, WorkerTypeOK
<1>5. BridgeInv'
  BY WorkerStepsBridge, BridgeInvStep DEF WorkerInv
<1>6. WorkerTypeOK'
  BY <1>1, <1>2, <1>4, WorkerTypeStep
<1>7. SuspendedInv'
  BY <1>1, <1>2, SuspendedStep
<1>8. ConfigInv'
  BY <1>1, <1>2, ConfigStep
<1>9. ASSUME NEW r \in Runs, r # RunOf[e] \/ KindOf[e] = "message" PROVE RunInv(r)'
  BY <1>1, <1>2, <1>4, <1>9, OthersStep
<1>10. CASE KindOf[e] # "message"
  <2> SUFFICES ASSUME RunOf[e] \notin disturbed PROVE RunInv(RunOf[e])'
    BY <1>4, <1>5, <1>6, <1>7, <1>8, <1>9 DEF RunInv, WorkerInv
  <2>1. ControlOf(RunOf[e])' = ControlOf(RunOf[e]) \ {<<e, n>>}
    BY <1>2, ControlFacts
  <2>2. ControlOf(RunOf[e])' = {}
    BY <1>10, <2>1, MidwayFacts
  <2> QED
    BY <1>10, <2>2 DEF RunInv
<1> QED
  BY <1>5, <1>6, <1>7, <1>8, <1>9, <1>10 DEF WorkerInv

(* Starting a bootstrap or stop while another one is under way disturbs.    *)
LEMMA Starts ==
  ASSUME WorkerInv, [Next]_allVars, NEW e \in Envelopes, NEW n \in Attempts,
         KindOf[e] # "message", NEW at \in PlacesOf(KindOf[e]) \cap Places,
         StartControl(e, n, at), at # "starting",
         TeamsMoveOn, OnlyRun(RunOf[e]),
         Whole(RunOf[e]) => Midway(RunOf[e], [at |-> at, team |-> NoTeam])'
  PROVE  WorkerInv'
<1> DEFINE p == [at |-> at, team |-> NoTeam]
<1>1. p \in Progress /\ p.at = at /\ p.team = NoTeam
  BY DEF Progress
<1>2. /\ progress' = [progress EXCEPT ![e][n] = p]
      /\ request'[e][n] = "executing"
      /\ \A f \in Envelopes, k \in Attempts :
           (f # e \/ k # n) => request'[f][k] = request[f][k]
  BY BecomesOne, "executing" \in RequestState
     DEF StartControl, Execute, WorkerInv, BridgeInv, RequestState
<1>3. RunOf[e] \in Runs
  BY WorkerRunAssumption
<1>4. /\ disturbed \subseteq disturbed' /\ disturbed' \subseteq Runs
      /\ ControlOf(RunOf[e]) # {} => RunOf[e] \in disturbed'
  BY <1>3 DEF StartControl, WorkerInv, WorkerTypeOK
<1> HIDE DEF p
<1>5. BridgeInv'
  BY WorkerStepsBridge, BridgeInvStep DEF WorkerInv
<1>6. WorkerTypeOK'
  BY <1>1, <1>2, <1>4, WorkerTypeStep
<1>7. SuspendedInv'
  BY <1>1, <1>2, SuspendedStep
<1>8. ConfigInv'
  BY <1>1, <1>2, ConfigStep
<1>9. ASSUME NEW r \in Runs, r # RunOf[e] PROVE RunInv(r)'
  BY <1>1, <1>2, <1>4, <1>9, OthersStep
<1>10. RunInv(RunOf[e])'
  <2> SUFFICES ASSUME RunOf[e] \notin disturbed' PROVE RunInv(RunOf[e])'
    BY DEF RunInv
  <2>1. ControlOf(RunOf[e]) = {} /\ RunOf[e] \notin disturbed
    BY <1>4
  <2>2. ControlOf(RunOf[e])' = ControlOf(RunOf[e]) \cup {<<e, n>>}
    BY <1>2, ControlFacts
  <2>3. Whole(RunOf[e])
    BY <1>3, <2>1 DEF WorkerInv, RunInv
  <2>4. Midway(RunOf[e], p)'
    BY <2>3 DEF p
  <2>5. progress'[e][n] = p
    <3>1. WorkerTypeOK
      BY DEF WorkerInv
    <3> QED
      BY <3>1, <1>1, <1>2, ProgressFacts
  <2>6. ASSUME NEW q \in ControlOf(RunOf[e])'
        PROVE  q = <<e, n>> /\ progress'[q[1]][q[2]] = p
    BY <2>1, <2>2, <2>5
  <2>7. ASSUME NEW q \in ControlOf(RunOf[e])' PROVE Midway(RunOf[e], progress[q[1]][q[2]])'
    BY <2>4, <2>6 DEF Midway
  <2> QED
    BY <2>1, <2>2, <2>6, <2>7 DEF RunInv
<1> QED
  BY <1>5, <1>6, <1>7, <1>8, <1>9, <1>10 DEF WorkerInv

(* A step that moves no handler and leaves every run's records alone.       *)
LEMMA HandlersRest ==
  ASSUME WorkerInv, [Next]_allVars, TeamsMoveOn,
         UNCHANGED <<binding, managed, forwarder, progress, disturbed>>,
         \A f \in Envelopes, k \in Attempts :
           request'[f][k] = "executing" <=> request[f][k] = "executing"
  PROVE  WorkerInv'
<1>1. BridgeInv'
  BY WorkerStepsBridge, BridgeInvStep DEF WorkerInv
<1>2. WorkerTypeOK' /\ SuspendedInv'
  BY DEF WorkerInv, WorkerTypeOK, SuspendedInv, TeamsMoveOn
<1>3. ConfigInv'
  <2>1. ASSUME NEW t \in Teams, NEW r \in Runs, config[t] = ConfigOf[r]
        PROVE  config'[t] = ConfigOf[r]
    BY <2>1, WorkerRunAssumption DEF TeamsMoveOn
  <2>2. ASSUME NEW f \in Envelopes, NEW k \in Attempts
        PROVE  progress[f][k].team \in Teams \cup {NoTeam} /\ RunOf[f] \in Runs
    BY WorkerRunAssumption DEF WorkerInv, WorkerTypeOK, Progress
  <2> QED
    BY <2>1, <2>2 DEF WorkerInv, WorkerTypeOK, ConfigInv, At, TeamsMoveOn
<1>4. ASSUME NEW r \in Runs PROVE RunInv(r)'
  <2>1. ControlOf(r)' = ControlOf(r)
    BY DEF ControlOf
  <2> QED
    BY <2>1, Elsewhere
<1> QED
  BY <1>1, <1>2, <1>3, <1>4 DEF WorkerInv

-----------------------------------------------------------------------------
(* The steps of RUN_BOOTSTRAP                                               *)

LEMMA TeamsRest ==
  ASSUME WorkerInv, UNCHANGED <<config, teamOfDefinition>>, alive' \subseteq alive
  PROVE  TeamsMoveOn
BY DEF WorkerInv, WorkerTypeOK, ConfigInv, TeamsMoveOn

LEMMA RunsRest ==
  ASSUME WorkerInv, TeamsMoveOn, UNCHANGED runVars, NEW r \in Runs
  PROVE  OnlyRun(r)
<1>1. binding[r] \in Teams \cup {NoTeam} /\ ConfigOf[r] # NoConfig
  BY WorkerRunAssumption DEF WorkerInv, WorkerTypeOK
<1>2. binding[r] # NoTeam => config[binding[r]] = ConfigOf[r]
  BY DEF WorkerInv, ConfigInv
<1>3. binding[r] # NoTeam => config'[binding[r]] = ConfigOf[r]
  BY <1>1, <1>2 DEF TeamsMoveOn
<1> QED
  BY <1>3 DEF WorkerInv, WorkerTypeOK, OnlyRun, runVars

(* The run of a handler is unbound, keeps its team or is bound to one of its *)
(* configuration.                                                           *)
LEMMA RunChanges ==
  ASSUME WorkerInv, UNCHANGED <<config, teamOfDefinition>>, alive' \subseteq alive,
         NEW r \in Runs, NEW b \in Teams \cup {NoTeam}, NEW f \in Teams \cup {NoTeam},
         \/ b \in {NoTeam, binding[r]}
         \/ config[b] = ConfigOf[r],
         \/ binding' = [binding EXCEPT ![r] = b]
         \/ binding' = binding /\ b = binding[r],
         managed' \in {managed, managed \cup {r}, managed \ {r}},
         \/ forwarder' = [forwarder EXCEPT ![r] = f]
         \/ forwarder' = forwarder
  PROVE  OnlyRun(r)
<1>1. binding'[r] = b
  BY DEF WorkerInv, WorkerTypeOK
<1>2. b # NoTeam => config[b] = ConfigOf[r]
  BY DEF WorkerInv, ConfigInv
<1> QED
  BY <1>1, <1>2 DEF WorkerInv, WorkerTypeOK, OnlyRun

LEMMA KindFacts ==
  ASSUME NEW e \in Envelopes
  PROVE  /\ KindOf[e] = "bootstrap" =>
              PlacesOf(KindOf[e]) = {"resolving", "rebinding", "terminating", "building",
                                     "starting", "attaching"}
         /\ KindOf[e] = "message" => PlacesOf(KindOf[e]) = {"dispatching"}
         /\ KindOf[e] = "stop" => PlacesOf(KindOf[e]) = {"stopping", "closing", "tearing"}
         /\ KindOf[e] \in {"bootstrap", "message", "stop"}
BY WorkerRunAssumption DEF PlacesOf

LEMMA BindStep ==
  ASSUME WorkerInv, [Next]_allVars, NEW e \in Envelopes, NEW n \in Attempts,
         progress[e][n].at # "idle", KindOf[e] = "bootstrap",
         NEW t \in Teams, config[t] = ConfigOf[RunOf[e]],
         Bind(e, n, t), UNCHANGED disturbed
  PROVE  WorkerInv'
<1>1. RunOf[e] \in Runs
  BY HandlerFacts
<1>2. UNCHANGED teamVars /\ NoTeam \notin Teams
  BY DEF Bind, Teams, NoTeam
<1>3. TeamsMoveOn
  BY <1>2, TeamsRest DEF teamVars
<1>4. OnlyRun(RunOf[e])
  BY <1>1, <1>2, RunChanges DEF Bind, teamVars
<1>5. PICK u \in Teams \cup {NoTeam} :
        u = (IF t \in alive THEN t ELSE NoTeam) /\ Await(e, n, "attaching", u)
  BY DEF Bind
<1>6. Midway(RunOf[e], [at |-> "attaching", team |-> u])'
  BY <1>1, <1>2, <1>5 DEF Bind, teamVars, Midway, WorkerInv, WorkerTypeOK
<1>7. "attaching" \in PlacesOf(KindOf[e]) \cap Places
  BY KindFacts DEF Places
<1> QED
  BY <1>2, <1>3, <1>4, <1>5, <1>6, <1>7, GoesOn

LEMMA ReuseTeamStep ==
  ASSUME WorkerInv, [Next]_allVars, NEW e \in Envelopes, NEW n \in Attempts,
         progress[e][n].at # "idle", KindOf[e] = "bootstrap",
         ReuseTeam(e, n), UNCHANGED disturbed
  PROVE  WorkerInv'
<1>1. CurrentTeam \in Teams
  BY DEF ReuseTeam, CurrentTeam, WorkerInv, WorkerTypeOK
<1> QED
  BY <1>1, BindStep DEF ReuseTeam

LEMMA ReplaceTeamStep ==
  ASSUME WorkerInv, [Next]_allVars, NEW e \in Envelopes, NEW n \in Attempts,
         progress[e][n].at # "idle", KindOf[e] = "bootstrap",
         NEW b, NEW m, ReplaceTeam(e, n, b, m), UNCHANGED disturbed,
         \/ b = binding /\ m = managed
         \/ b = [binding EXCEPT ![RunOf[e]] = NoTeam] /\ m = managed \ {RunOf[e]},
         RunOf[e] \notin disturbed =>
           forwarder[RunOf[e]] = NoTeam /\ b[RunOf[e]] = NoTeam /\ RunOf[e] \notin m
  PROVE  WorkerInv'
<1>1. RunOf[e] \in Runs
  BY HandlerFacts
<1>2. /\ alive' \subseteq alive /\ UNCHANGED <<forwarder, config, teamOfDefinition>>
      /\ binding' = b /\ managed' = m
  BY DEF ReplaceTeam
<1>3. TeamsMoveOn
  BY <1>2, TeamsRest
<1>4. /\ binding[RunOf[e]] \in Teams \cup {NoTeam}
      /\ forwarder[RunOf[e]] \in Teams \cup {NoTeam} /\ NoTeam \in Teams \cup {NoTeam}
  BY <1>1 DEF WorkerInv, WorkerTypeOK
<1>5. OnlyRun(RunOf[e])
  BY <1>1, <1>2, <1>4, RunChanges
<1>6. PICK at \in {"building", "terminating"}, t \in Teams \cup {NoTeam} : Await(e, n, at, t)
  BY DEF ReplaceTeam, CurrentTeam, WorkerInv, WorkerTypeOK
<1>7. RunOf[e] \notin disturbed => Midway(RunOf[e], [at |-> at, team |-> t])'
  BY <1>2, <1>6 DEF Midway, Unbound
<1>8. at \in PlacesOf(KindOf[e]) \cap Places /\ at # "starting"
  BY <1>6, KindFacts DEF Places
<1> QED
  BY <1>3, <1>5, <1>6, <1>7, <1>8, GoesOn

LEMMA AlreadyBoundStep ==
  ASSUME WorkerInv, [Next]_allVars, NEW e \in Envelopes, NEW n \in Attempts,
         AlreadyBound(e, n)
  PROVE  WorkerInv'
<1>1. progress[e][n].at = "resolving" /\ KindOf[e] = "bootstrap" /\ RunOf[e] \in Runs
  BY HandlerFacts, KindFacts DEF AlreadyBound, At
<1>2. TeamsMoveOn
  BY TeamsRest DEF AlreadyBound, teamVars
<1>3. OnlyRun(RunOf[e])
  BY <1>1, RunChanges DEF AlreadyBound, teamVars, WorkerInv, WorkerTypeOK
<1>4. RunOf[e] \notin disturbed => Whole(RunOf[e])'
  <2> SUFFICES ASSUME RunOf[e] \notin disturbed PROVE Whole(RunOf[e])'
    OBVIOUS
  <2>1. Whole(RunOf[e])
    BY <1>1, MidwayFacts DEF Midway
  <2> QED
    BY <2>1 DEF Whole, AlreadyBound, teamVars, WorkerInv, WorkerTypeOK, NoTeam, Teams
<1> QED
  BY <1>1, <1>2, <1>3, <1>4, Ends DEF AlreadyBound

LEMMA BoundToDeadTeamStep ==
  ASSUME WorkerInv, [Next]_allVars, NEW e \in Envelopes, NEW n \in Attempts,
         BoundToDeadTeam(e, n)
  PROVE  WorkerInv'
<1>1. progress[e][n].at = "resolving" /\ KindOf[e] = "bootstrap" /\ RunOf[e] \in Runs
  BY HandlerFacts, KindFacts DEF BoundToDeadTeam, At
<1>2. TeamsMoveOn
  BY TeamsRest DEF BoundToDeadTeam, teamVars
<1>3. OnlyRun(RunOf[e])
  BY <1>1, RunChanges DEF BoundToDeadTeam, teamVars, WorkerInv, WorkerTypeOK
<1>4. RunOf[e] \notin disturbed => Midway(RunOf[e], [at |-> "rebinding", team |-> NoTeam])'
  <2> SUFFICES ASSUME RunOf[e] \notin disturbed
               PROVE  Midway(RunOf[e], [at |-> "rebinding", team |-> NoTeam])'
    OBVIOUS
  <2>1. Whole(RunOf[e])
    BY <1>1, MidwayFacts DEF Midway
  <2> QED
    BY <1>1, <2>1 DEF Midway, Whole, BoundToDeadTeam, teamVars, WorkerInv, WorkerTypeOK
<1>5. "rebinding" \in PlacesOf(KindOf[e]) \cap Places
  BY <1>1, KindFacts DEF Places
<1> QED
  BY <1>1, <1>2, <1>3, <1>4, <1>5, GoesOn DEF BoundToDeadTeam

LEMMA NotBoundStep ==
  ASSUME WorkerInv, [Next]_allVars, NEW e \in Envelopes, NEW n \in Attempts, NotBound(e, n)
  PROVE  WorkerInv'
<1>1. progress[e][n].at = "resolving" /\ KindOf[e] = "bootstrap"
  BY HandlerFacts, KindFacts DEF NotBound, At
<1>2. RunOf[e] \notin disturbed => Unbound(RunOf[e])
  BY <1>1, MidwayFacts DEF NotBound, Midway, Whole, Unbound
<1>3. CASE ReuseTeam(e, n)
  BY <1>1, <1>3, ReuseTeamStep DEF NotBound
<1>4. CASE ReplaceTeam(e, n, binding, managed)
  BY <1>1, <1>2, <1>4, ReplaceTeamStep DEF NotBound, Unbound
<1> QED
  BY <1>3, <1>4 DEF NotBound

LEMMA TornDownStep ==
  ASSUME WorkerInv, [Next]_allVars, NEW e \in Envelopes, NEW n \in Attempts, TornDown(e, n)
  PROVE  WorkerInv'
<1>1. progress[e][n].at = "rebinding" /\ KindOf[e] = "bootstrap" /\ RunOf[e] \in Runs
  BY HandlerFacts, KindFacts DEF TornDown, At
<1>2. RunOf[e] \notin disturbed => forwarder[RunOf[e]] = NoTeam
  BY <1>1, MidwayFacts DEF Midway
<1>3. CASE ReuseTeam(e, n)
  BY <1>1, <1>3, ReuseTeamStep DEF TornDown
<1>4. CASE ReplaceTeam(e, n, [binding EXCEPT ![RunOf[e]] = NoTeam], managed \ {RunOf[e]})
  <2>1. [binding EXCEPT ![RunOf[e]] = NoTeam][RunOf[e]] = NoTeam
    BY <1>1 DEF WorkerInv, WorkerTypeOK
  <2> QED
    BY <1>1, <1>2, <1>4, <2>1, ReplaceTeamStep DEF TornDown
<1> QED
  BY <1>3, <1>4 DEF TornDown

LEMMA TerminatedStep ==
  ASSUME WorkerInv, [Next]_allVars, NEW e \in Envelopes, NEW n \in Attempts, Terminated(e, n)
  PROVE  WorkerInv'
<1>1. progress[e][n].at = "terminating" /\ KindOf[e] = "bootstrap" /\ RunOf[e] \in Runs
  BY HandlerFacts, KindFacts DEF Terminated, At
<1>2. TeamsMoveOn
  BY DEF Terminated, TeamsMoveOn, WorkerInv, WorkerTypeOK, ConfigInv
<1>3. OnlyRun(RunOf[e])
  BY <1>1, <1>2, RunsRest DEF Terminated
<1>4. RunOf[e] \notin disturbed => Midway(RunOf[e], [at |-> "building", team |-> NoTeam])'
  BY <1>1, MidwayFacts DEF Terminated, Midway, Unbound, runVars
<1>5. "building" \in PlacesOf(KindOf[e]) \cap Places
  BY <1>1, KindFacts DEF Places
<1> QED
  BY <1>1, <1>2, <1>3, <1>4, <1>5, GoesOn DEF Terminated

LEMMA BuiltStep ==
  ASSUME WorkerInv, [Next]_allVars, NEW e \in Envelopes, NEW n \in Attempts,
         NEW t \in Teams, Built(e, n, t)
  PROVE  WorkerInv'
<1>1. progress[e][n].at = "building" /\ KindOf[e] = "bootstrap" /\ RunOf[e] \in Runs
  BY HandlerFacts, KindFacts DEF Built, At
<1>2. ConfigOf[RunOf[e]] \in Configs /\ ConfigOf[RunOf[e]] # NoConfig
  BY <1>1, WorkerRunAssumption
<1>3. config'[t] = ConfigOf[RunOf[e]]
  BY DEF Built, WorkerInv, WorkerTypeOK
<1>4. TeamsMoveOn
  BY <1>2 DEF Built, TeamsMoveOn, WorkerInv, WorkerTypeOK, ConfigInv
<1>5. OnlyRun(RunOf[e])
  BY <1>1, <1>4, RunsRest DEF Built
<1>6. RunOf[e] \notin disturbed => Midway(RunOf[e], [at |-> "starting", team |-> t])'
  BY <1>1, MidwayFacts DEF Built, Midway, Unbound, runVars
<1>7. "starting" \in PlacesOf(KindOf[e]) \cap Places /\ t # NoTeam
  BY <1>1, KindFacts DEF Places, Teams, NoTeam
<1> QED
  BY <1>1, <1>3, <1>4, <1>5, <1>6, <1>7, GoesOn DEF Built

LEMMA TeamIdleStep ==
  ASSUME WorkerInv, [Next]_allVars, NEW e \in Envelopes, NEW n \in Attempts, TeamIdle(e, n)
  PROVE  WorkerInv'
<1>1. progress[e][n].at = "starting" /\ KindOf[e] = "bootstrap"
  BY HandlerFacts, KindFacts DEF TeamIdle, At
<1>2. PICK t \in Teams : t = progress[e][n].team /\ config[t] = ConfigOf[RunOf[e]]
  BY <1>1, HandlerFacts DEF WorkerInv, ConfigInv, At
<1>3. Bind(e, n, t)
  BY <1>2 DEF TeamIdle
<1> QED
  BY <1>1, <1>2, <1>3, BindStep DEF TeamIdle

LEMMA AttachedStep ==
  ASSUME WorkerInv, [Next]_allVars, NEW e \in Envelopes, NEW n \in Attempts, Attached(e, n)
  PROVE  WorkerInv'
<1>1. /\ progress[e][n].at = "attaching" /\ KindOf[e] = "bootstrap" /\ RunOf[e] \in Runs
      /\ progress[e][n].team \in Teams \cup {NoTeam}
  BY HandlerFacts, KindFacts DEF Attached, At
<1>2. TeamsMoveOn
  BY TeamsRest DEF Attached, teamVars
<1>3. OnlyRun(RunOf[e])
  BY <1>1, RunChanges DEF Attached, teamVars, WorkerInv, WorkerTypeOK
<1>4. RunOf[e] \notin disturbed => Whole(RunOf[e])'
  <2> SUFFICES ASSUME RunOf[e] \notin disturbed PROVE Whole(RunOf[e])'
    OBVIOUS
  <2>1. /\ binding[RunOf[e]] # NoTeam /\ RunOf[e] \in managed
        /\ progress[e][n].team = NoTeam => binding[RunOf[e]] \notin alive
        /\ progress[e][n].team # NoTeam => progress[e][n].team = binding[RunOf[e]]
    BY <1>1, MidwayFacts DEF Midway
  <2> QED
    BY <1>1, <2>1 DEF Whole, Attached, teamVars, WorkerInv, WorkerTypeOK
<1> QED
  BY <1>1, <1>2, <1>3, <1>4, Ends DEF Attached

-----------------------------------------------------------------------------
(* The steps of CONTROL_STOP, of messages, and failures                     *)

LEMMA TeamStoppedStep ==
  ASSUME WorkerInv, [Next]_allVars, NEW e \in Envelopes, NEW n \in Attempts, TeamStopped(e, n)
  PROVE  WorkerInv'
<1>1. progress[e][n].at = "stopping" /\ KindOf[e] = "stop" /\ RunOf[e] \in Runs
  BY HandlerFacts, KindFacts DEF TeamStopped, At
<1>2. TeamsMoveOn
  BY TeamsRest DEF TeamStopped, teamVars
<1>3. OnlyRun(RunOf[e])
  BY <1>1, RunChanges DEF TeamStopped, teamVars, WorkerInv, WorkerTypeOK
<1>4. Midway(RunOf[e], [at |-> "tearing", team |-> NoTeam])'
  BY <1>1 DEF TeamStopped, Midway, WorkerInv, WorkerTypeOK
<1>5. "tearing" \in PlacesOf(KindOf[e]) \cap Places
  BY <1>1, KindFacts DEF Places
<1> QED
  BY <1>1, <1>2, <1>3, <1>4, <1>5, GoesOn DEF TeamStopped

LEMMA RunClosedStep ==
  ASSUME WorkerInv, [Next]_allVars, NEW e \in Envelopes, NEW n \in Attempts, RunClosed(e, n)
  PROVE  WorkerInv'
<1>1. /\ progress[e][n].at \in {"closing", "tearing"} /\ KindOf[e] = "stop"
      /\ RunOf[e] \in Runs
  BY HandlerFacts, KindFacts DEF RunClosed, At
<1>2. TeamsMoveOn
  BY TeamsRest DEF RunClosed, teamVars
<1>3. OnlyRun(RunOf[e])
  BY <1>1, RunChanges DEF RunClosed, teamVars, WorkerInv, WorkerTypeOK
<1>4. RunOf[e] \notin disturbed => Whole(RunOf[e])'
  <2> SUFFICES ASSUME RunOf[e] \notin disturbed PROVE Whole(RunOf[e])'
    OBVIOUS
  <2>1. forwarder[RunOf[e]] = NoTeam /\ (At(e, n, "closing") => binding[RunOf[e]] = NoTeam)
    BY <1>1, MidwayFacts DEF Midway, Unbound, At
  <2>2. binding'[RunOf[e]] = NoTeam /\ forwarder'[RunOf[e]] = NoTeam /\ RunOf[e] \notin managed'
    BY <1>1, <2>1 DEF RunClosed, At, WorkerInv, WorkerTypeOK
  <2>3. NoTeam \notin alive'
    BY DEF RunClosed, teamVars, WorkerInv, WorkerTypeOK, Teams, NoTeam
  <2> QED
    BY <2>2, <2>3 DEF Whole
<1> QED
  BY <1>1, <1>2, <1>3, <1>4, Ends DEF RunClosed

LEMMA MessageHandledStep ==
  ASSUME WorkerInv, [Next]_allVars, NEW e \in Envelopes, NEW n \in Attempts,
         MessageHandled(e, n)
  PROVE  WorkerInv'
<1>1. progress[e][n].at = "dispatching" /\ KindOf[e] = "message" /\ RunOf[e] \in Runs
  BY HandlerFacts, KindFacts DEF MessageHandled, At
<1>2. TeamsMoveOn
  BY TeamsRest DEF MessageHandled, teamVars
<1> QED
  BY <1>1, <1>2, RunsRest, Ends DEF MessageHandled

(* Where a handler may fail its run is whole: still, or unbound as before.  *)
LEMMA HandlerFailsStep ==
  ASSUME WorkerInv, [Next]_allVars, NEW e \in Envelopes, NEW n \in Attempts,
         HandlerFails(e, n)
  PROVE  WorkerInv'
<1>1. /\ progress[e][n].at \in {"resolving", "terminating", "building", "starting",
                                "dispatching", "stopping"}
      /\ RunOf[e] \in Runs
  BY HandlerFacts DEF HandlerFails
<1>2. TeamsMoveOn
  BY TeamsRest DEF HandlerFails, teamVars
<1>3. OnlyRun(RunOf[e])
  BY <1>1, <1>2, RunsRest DEF HandlerFails
<1>4. CASE KindOf[e] = "message"
  BY <1>1, <1>2, <1>3, <1>4, Ends DEF HandlerFails
<1>5. CASE KindOf[e] # "message"
  <2>1. progress[e][n].at # "dispatching"
    BY <1>1, <1>5, HandlerFacts, KindFacts
  <2>2. RunOf[e] \notin disturbed => Whole(RunOf[e]) \/ Unbound(RunOf[e])
    BY <1>1, <1>5, <2>1, MidwayFacts DEF Midway
  <2>3. NoTeam \notin alive
    BY DEF WorkerInv, WorkerTypeOK, Teams, NoTeam
  <2>4. RunOf[e] \notin disturbed => Whole(RunOf[e])'
    BY <2>2, <2>3 DEF Whole, Unbound, HandlerFails, runVars, teamVars
  <2> QED
    BY <1>1, <1>2, <1>3, <1>5, <2>4, Ends DEF HandlerFails
<1> QED
  BY <1>4, <1>5

-----------------------------------------------------------------------------
(* The arrival of commands, and what is no handler's doing                  *)

LEMMA BootstrapStep ==
  ASSUME WorkerInv, [Next]_allVars, NEW e \in Envelopes, NEW n \in Attempts, Bootstrap(e, n)
  PROVE  WorkerInv'
<1>1. RunOf[e] \in Runs /\ KindOf[e] = "bootstrap"
  BY WorkerRunAssumption DEF Bootstrap
<1>2. TeamsMoveOn
  BY TeamsRest DEF Bootstrap, teamVars
<1>3. OnlyRun(RunOf[e])
  BY <1>1, <1>2, RunsRest DEF Bootstrap
<1>4. Whole(RunOf[e]) => Midway(RunOf[e], [at |-> "resolving", team |-> NoTeam])'
  BY DEF Bootstrap, Midway, Whole, runVars, teamVars
<1>5. "resolving" \in PlacesOf(KindOf[e]) \cap Places
  BY <1>1, KindFacts DEF Places
<1> QED
  BY <1>1, <1>2, <1>3, <1>4, <1>5, Starts DEF Bootstrap

LEMMA StopTeamStep ==
  ASSUME WorkerInv, [Next]_allVars, NEW e \in Envelopes, NEW n \in Attempts, StopTeam(e, n)
  PROVE  WorkerInv'
<1>1. RunOf[e] \in Runs /\ KindOf[e] = "stop"
  BY WorkerRunAssumption DEF StopTeam
<1>2. TeamsMoveOn
  BY TeamsRest DEF StopTeam, teamVars
<1>3. OnlyRun(RunOf[e])
  BY <1>1, <1>2, RunsRest DEF StopTeam
<1>4. Whole(RunOf[e]) => Midway(RunOf[e], [at |-> "stopping", team |-> NoTeam])'
  BY DEF StopTeam, Midway, Whole, runVars, teamVars
<1>5. "stopping" \in PlacesOf(KindOf[e]) \cap Places
  BY <1>1, KindFacts DEF Places
<1> QED
  BY <1>1, <1>2, <1>3, <1>4, <1>5, Starts DEF StopTeam

LEMMA StopWithoutTeamStep ==
  ASSUME WorkerInv, [Next]_allVars, NEW e \in Envelopes, NEW n \in Attempts,
         StopWithoutTeam(e, n)
  PROVE  WorkerInv'
<1>1. RunOf[e] \in Runs /\ KindOf[e] = "stop"
  BY WorkerRunAssumption DEF StopWithoutTeam
<1>2. TeamsMoveOn
  BY TeamsRest DEF StopWithoutTeam, teamVars
<1>3. OnlyRun(RunOf[e])
  BY <1>1, RunChanges DEF StopWithoutTeam, teamVars, WorkerInv, WorkerTypeOK
<1>4. PICK at \in {"closing", "tearing"} :
        /\ at = IF binding[RunOf[e]] = NoTeam THEN "closing" ELSE "tearing"
        /\ StartControl(e, n, at)
  BY DEF StopWithoutTeam
<1>5. Whole(RunOf[e]) => Midway(RunOf[e], [at |-> at, team |-> NoTeam])'
  BY <1>1, <1>4
     DEF StopWithoutTeam, Midway, Whole, Unbound, teamVars, WorkerInv, WorkerTypeOK
<1>6. at \in PlacesOf(KindOf[e]) \cap Places /\ at # "starting"
  BY <1>1, <1>4, KindFacts DEF Places
<1> QED
  BY <1>1, <1>2, <1>3, <1>4, <1>5, <1>6, Starts

LEMMA ReceiveMessageStep ==
  ASSUME WorkerInv, [Next]_allVars, NEW e \in Envelopes, NEW n \in Attempts,
         ReceiveMessage(e, n)
  PROVE  WorkerInv'
<1>1. /\ RunOf[e] \in Runs /\ KindOf[e] = "message"
      /\ binding[RunOf[e]] \in Teams \cup {NoTeam}
  BY WorkerRunAssumption DEF ReceiveMessage, WorkerInv, WorkerTypeOK
<1>2. TeamsMoveOn
  BY TeamsRest DEF ReceiveMessage, teamVars
<1>3. OnlyRun(RunOf[e])
  BY <1>1, <1>2, RunsRest DEF ReceiveMessage
<1>4. PICK t \in Teams \cup {NoTeam} :
        /\ t \in {binding[RunOf[e]], NoTeam}
        /\ progress' = [progress EXCEPT ![e][n] = [at |-> "dispatching", team |-> t]]
  BY <1>1 DEF ReceiveMessage
<1> DEFINE p == [at |-> "dispatching", team |-> t]
<1>5. p \in Progress /\ p.at = "dispatching" /\ p.team = t
  BY DEF Progress, Places
<1>6. /\ request'[e][n] = "executing"
      /\ \A f \in Envelopes, k \in Attempts :
           (f # e \/ k # n) => request'[f][k] = request[f][k]
  BY BecomesOne, "executing" \in RequestState
     DEF ReceiveMessage, Execute, WorkerInv, BridgeInv, RequestState
<1>7. t # NoTeam => config'[t] = ConfigOf[RunOf[e]]
  BY <1>1, <1>3, <1>4 DEF OnlyRun, ReceiveMessage, runVars
<1>8. disturbed' = disturbed /\ disturbed \subseteq Runs
  BY DEF ReceiveMessage, WorkerInv, WorkerTypeOK
<1>9. "dispatching" \in PlacesOf(KindOf[e])
  BY <1>1, KindFacts
<1> HIDE DEF p
<1>10. progress' = [progress EXCEPT ![e][n] = p]
  BY <1>4 DEF p
<1>11. BridgeInv'
  BY WorkerStepsBridge, BridgeInvStep DEF WorkerInv
<1>12. WorkerTypeOK'
  BY <1>2, <1>3, <1>5, <1>8, <1>10, WorkerTypeStep
<1>13. SuspendedInv'
  BY <1>5, <1>6, <1>9, <1>10, SuspendedStep
<1>14. ConfigInv'
  BY <1>2, <1>3, <1>5, <1>7, <1>10, ConfigStep
<1>15. ASSUME NEW r \in Runs PROVE RunInv(r)'
  <2>1. disturbed \subseteq disturbed' /\ UNCHANGED runVars
    BY <1>8 DEF ReceiveMessage
  <2> QED
    BY <1>1, <1>2, <1>3, <1>5, <1>6, <1>10, <2>1, OthersStep
<1> QED
  BY <1>11, <1>12, <1>13, <1>14, <1>15 DEF WorkerInv

(* The host's sends, a duplicate, a team terminated on the worker.          *)
LEMMA QuietStep ==
  ASSUME WorkerInv, [Next]_allVars,
         \/ \E e \in Envelopes : HostCommand(e)
         \/ \E e \in Envelopes, n \in Attempts : Dedupe(e, n) /\ UNCHANGED workerVars
         \/ \E t \in Teams : TerminateTeam(t)
         \/ UNCHANGED allVars
  PROVE  WorkerInv'
<1>1. CASE \E e \in Envelopes : HostCommand(e)
  <2>1. UNCHANGED workerVars
    BY <1>1 DEF HostCommand
  <2>2. PICK e \in Envelopes : HostStep(e)
    BY <1>1 DEF HostCommand, HostStep
  <2>3. \A f \in Envelopes, k \in Attempts :
          request'[f][k] = "executing" <=> request[f][k] = "executing"
    BY <2>2, TransmitFacts DEF WorkerInv, BridgeInv
  <2> QED
    BY <2>1, <2>3, TeamsRest, HandlersRest DEF workerVars
<1>2. CASE \E e \in Envelopes, n \in Attempts : Dedupe(e, n) /\ UNCHANGED workerVars
  <2>1. PICK e \in Envelopes, n \in Attempts : Dedupe(e, n) /\ UNCHANGED workerVars
    BY <1>2
  <2>2. \A f \in Envelopes, k \in Attempts :
          request'[f][k] = "executing" <=> request[f][k] = "executing"
    BY <2>1, BecomesOne, "deduped" \in RequestState
       DEF Dedupe, WorkerInv, BridgeInv, RequestState
  <2> QED
    BY <2>1, <2>2, TeamsRest, HandlersRest DEF workerVars
<1>3. CASE \E t \in Teams : TerminateTeam(t)
  <2>1. TeamsMoveOn
    BY <1>3 DEF TerminateTeam, TeamsMoveOn, WorkerInv, WorkerTypeOK, ConfigInv
  <2> QED
    BY <1>3, <2>1, HandlersRest DEF TerminateTeam, bridgeVars, runVars
<1>4. CASE UNCHANGED allVars
  BY <1>4, TeamsRest, HandlersRest DEF allVars, bridgeVars, workerVars
<1> QED
  BY <1>1, <1>2, <1>3, <1>4

(* A restart leaves no handler, no team and no run.                         *)
LEMMA RestartWorkerStep ==
  ASSUME WorkerInv, [Next]_allVars, RestartWorker
  PROVE  WorkerInv'
<1>1. BridgeInv'
  BY WorkerStepsBridge, BridgeInvStep DEF WorkerInv
<1>2. WorkerTypeOK'
  BY DEF RestartWorker, WorkerInv, WorkerTypeOK, Progress, Places, Idle
<1>3. \A e \in Envelopes, n \in Attempts : request'[e][n] # "executing"
  BY DEF RestartWorker, Restart, AfterRestart
<1>4. \A e \in Envelopes, n \in Attempts : progress'[e][n] = Idle
  BY DEF RestartWorker
<1>5. SuspendedInv' /\ ConfigInv'
  BY <1>3, <1>4 DEF RestartWorker, SuspendedInv, ConfigInv, At, Idle
<1>6. ASSUME NEW r \in Runs PROVE RunInv(r)'
  BY <1>3 DEF RestartWorker, RunInv, ControlOf, Whole
<1> QED
  BY <1>1, <1>2, <1>5, <1>6 DEF WorkerInv

LEMMA WorkerInvStep == WorkerInv /\ [Next]_allVars => WorkerInv'
<1> SUFFICES ASSUME WorkerInv, [Next]_allVars PROVE WorkerInv'
  OBVIOUS
<1>1. ASSUME NEW e \in Envelopes, NEW n \in Attempts, Receive(e, n) PROVE WorkerInv'
  BY <1>1, QuietStep, BootstrapStep, ReceiveMessageStep, StopTeamStep, StopWithoutTeamStep
     DEF Receive
<1>2. ASSUME NEW e \in Envelopes, NEW n \in Attempts, Handle(e, n) PROVE WorkerInv'
  BY <1>2, AlreadyBoundStep, BoundToDeadTeamStep, NotBoundStep, TornDownStep, TerminatedStep,
     BuiltStep, TeamIdleStep, AttachedStep, MessageHandledStep, TeamStoppedStep, RunClosedStep,
     HandlerFailsStep
     DEF Handle
<1>3. CASE RestartWorker
  BY <1>3, RestartWorkerStep
<1> QED
  BY <1>1, <1>2, <1>3, QuietStep DEF Next

THEOREM WorkerInvariance == Spec => []WorkerInv
BY WorkerInitInv, WorkerInvStep, PTL DEF Spec

-----------------------------------------------------------------------------
(* A worker is a server of the command bridge: a handler completes or       *)
(* refuses the request it was started for, and touches nothing else of it   *)
(* (worker-node-bridge-server.ts:19).                                       *)
THEOREM WorkerServesTheBridge == Spec => ImplementsBridge
<1>1. Init => BridgeInit
  BY DEF Init
<1> QED
  BY <1>1, WorkerStepsBridge, PTL DEF Spec, BridgeSpec, ImplementsBridge

(* Bindings, tracking, forwarders, teams and handlers keep their types.     *)
THEOREM WorkerTypeCorrect == Spec => []WorkerTypeOK
<1>1. WorkerInv => WorkerTypeOK
  BY DEF WorkerInv
<1> QED
  BY <1>1, WorkerInvariance, PTL

(* The team a run is bound to, and that its messages are handed to, was     *)
(* created with its bindings, whichever run created or terminated teams of  *)
(* the definition meanwhile (remote-envelope-bootstrap-handler.ts:116).     *)
THEOREM RunsKeepTheirConfiguration == Spec => []RunUsesItsOwnConfiguration
<1>1. WorkerInv => RunUsesItsOwnConfiguration
  BY DEF WorkerInv, WorkerTypeOK, ConfigInv, RunUsesItsOwnConfiguration, At, Teams, NoTeam
<1> QED
  BY <1>1, WorkerInvariance, PTL

(* Without overlapping bootstraps and stops of the run itself, registry,    *)
(* tracking and forwarder agree whenever no handler of it is under way,     *)
(* after failures half way too (remote-envelope-bootstrap-handler.ts:84).   *)
THEOREM SettledRunsAreWhole == Spec => []SettledRunIsWhole
<1>1. WorkerInv => SettledRunIsWhole
  BY DEF WorkerInv, RunInv, Whole, SettledRunIsWhole, Settled
<1> QED
  BY <1>1, WorkerInvariance, PTL
=============================================================================
