------------------------------ MODULE HostToWorker ------------------------------
(****************************************************************************)
(* One run's commands from the host's routing adapter over the command      *)
(* bridge to a worker: RoutingAdapter decides what is sent and when,        *)
(* CommandBridge what becomes of it.  A promise of the adapter settles when *)
(* the bridge's client reports delivery or gives up.                        *)
(*                                                                          *)
(* There is one remote node, the worker of the bridge.  A command that      *)
(* bootstraps the node sends a bootstrap envelope of its own, and so does   *)
(* the next one after a failure.  Local commands and the control stop,       *)
(* which neither read nor change what these steps do, take no part here.    *)
(****************************************************************************)
EXTENDS RoutingAdapter, CommandBridge

CONSTANT WorkerNode

BootstrapOf(c) == <<"bootstrap", c>>
Command(c)   == <<"command", c>>

ASSUME HostToWorkerAssumption ==
  /\ LocalNode # WorkerNode
  /\ Nodes = {LocalNode, WorkerNode}
  /\ \A c \in Commands : NodeOf[c] = WorkerNode
  /\ Envelopes = {"bootstrap", "command"} \X Commands

bothVars == <<vars, bridgeVars>>

-----------------------------------------------------------------------------
(* The adapter's calls of sendCommand, and what their promises bring back    *)

(* (slip: the command leaves beside the bootstrap it needs)                 *)
SendEnvelopeAtOnce ==
  /\ \E c \in Commands :
       \/ place[c] = "bootstrapping" /\ Send(BootstrapOf(c))
       \/ place[c] \in {"bootstrapping", "sending"} /\ Send(Command(c))
  /\ UNCHANGED vars

(* createDispatcher passes the envelope to the node's bridge client         *)
SendEnvelope ==
  /\ \E c \in Commands :
       \/ place[c] = "bootstrapping" /\ Send(BootstrapOf(c))
       \/ place[c] = "sending" /\ Send(Command(c))
  /\ UNCHANGED vars

BootstrapDelivered(c) == Acknowledge(BootstrapOf(c)) /\ BootstrapSucceeds(c)
BootstrapGivenUp(c)   == GiveUp(BootstrapOf(c)) /\ BootstrapFails(c)

CommandEnds(c, p) == Goes(c, p) /\ UNCHANGED <<readiness, stopVars>>

CommandDelivered(c) == Acknowledge(Command(c)) /\ CommandEnds(c, "accepted")
CommandGivenUp(c)   == GiveUp(Command(c)) /\ CommandEnds(c, "rejected")

-----------------------------------------------------------------------------
HostAsks(c) == Dispatch(c) /\ UNCHANGED bridgeVars

Delivery(c) ==
  \/ BootstrapDelivered(c) \/ BootstrapGivenUp(c)
  \/ CommandDelivered(c) \/ CommandGivenUp(c)

(* what the bridge does without the adapter noticing                        *)
Underway ==
  /\ \/ \E e \in Envelopes : Retry(e) \/ \E n \in Attempts : WorkerStep(e, n)
     \/ Restart
  /\ UNCHANGED vars

HostToWorkerInit == AdapterInit /\ BridgeInit

HostToWorkerNext ==
  \/ \E c \in Commands : HostAsks(c) \/ Delivery(c)
  \/ SendEnvelope
  \/ Underway

(* calls are made at once, and every attempt is bounded by its timeout      *)
HostToWorkerFairness ==
  /\ WF_bothVars(SendEnvelope)
  /\ \A c \in Commands : WF_bothVars(Delivery(c))
  /\ \A e \in Envelopes : WF_bothVars(Retry(e) /\ UNCHANGED vars)

HostToWorkerSpec == HostToWorkerInit /\ [][HostToWorkerNext]_bothVars
FairHostToWorkerSpec == HostToWorkerSpec /\ HostToWorkerFairness

-----------------------------------------------------------------------------
(* Properties                                                               *)

RanToTheEnd(e) == \E n \in Attempts : request[e][n] \in {"done", "forgotten"}

(* No worker begins to execute a command of a run before it executed a      *)
(* bootstrap of that run to the end, whatever is retried, late or           *)
(* deduplicated, and whichever command started the bootstrap.  And a        *)
(* command that the adapter reports as accepted was executed where its      *)
(* member lives; what it reports as rejected may still be executed later.   *)
HostAndWorkerAgree ==
  /\ \A c \in Commands :
       (\E n \in Attempts : request[Command(c)][n] \notin {"none", "sent"}) =>
         \E d \in Commands : NodeOf[d] = NodeOf[c] /\ RanToTheEnd(BootstrapOf(d))
  /\ \A c \in Commands : place[c] = "accepted" => RanToTheEnd(Command(c))
=============================================================================
