----------------------------- MODULE RoutingAdapter -----------------------------
(****************************************************************************)
(* TeamRoutingPortAdapter: the commands of one run routed to the nodes its  *)
(* members were placed on, with the bootstrap of a remote node before its   *)
(* first command, and the stop that visits the nodes one after the other.   *)
(*                                                                          *)
(* A command is one dispatch (of a user message, an inter-agent message or  *)
(* a tool approval: they differ in the envelope only).  Its member's node   *)
(* is fixed by the placement map, which never changes.                      *)
(*                                                                          *)
(* A promise that settles resumes everyone who awaits it before any other   *)
(* callback runs, so a bootstrap and its waiters end in one step.           *)
(****************************************************************************)
EXTENDS Naturals, FiniteSets

CONSTANTS
  Commands,   \* dispatches
  Nodes,      \* nodes of the placement map
  LocalNode,  \* localNodeId
  NodeOf,     \* the node of the member a command is for
  NoCommand

ASSUME RoutingAssumption ==
  /\ NodeOf \in [Commands -> Nodes]
  /\ NoCommand \notin Commands

Remote == Nodes \ {LocalNode}

VARIABLES
  ready,        \* readyRemoteNodeIds
  inFlight,     \* readyRemoteNodeInFlight: the command that bootstraps a node
  place,        \* where a dispatch is suspended, or how it ended
  bootstrapped, \* history: nodes whose worker answered a bootstrap
  stopping,     \* the control stop: "idle", "running", "accepted", "rejected"
  told          \* nodes the control stop was delivered to

vars == <<ready, inFlight, place, bootstrapped, stopping, told>>

Place == {"idle", "local", "bootstrapping", "waiting", "sending", "accepted", "rejected"}

TypeOK ==
  /\ ready \subseteq Remote
  /\ inFlight \in [Remote -> Commands \cup {NoCommand}]
  /\ place \in [Commands -> Place]
  /\ bootstrapped \subseteq Remote
  /\ stopping \in {"idle", "running", "accepted", "rejected"}
  /\ told \subseteq Nodes

AdapterInit ==
  /\ ready = {}
  /\ inFlight = [n \in Remote |-> NoCommand]
  /\ place = [c \in Commands |-> "idle"]
  /\ bootstrapped = {}
  /\ stopping = "idle"
  /\ told = {}

Goes(c, p) == place' = [place EXCEPT ![c] = p]
readiness == <<ready, inFlight, bootstrapped>>
stopVars == <<stopping, told>>

-----------------------------------------------------------------------------
(* Dispatching a command                                                    *)

(* ensureRemoteNodeReadyForRun up to its first await                        *)
Dispatch(c) ==
  LET n == NodeOf[c]
  IN  /\ place[c] = "idle"
      /\ UNCHANGED <<ready, bootstrapped, stopVars>>
      /\ \/ n = LocalNode /\ Goes(c, "local") /\ UNCHANGED inFlight
         \/ n \in ready /\ Goes(c, "sending") /\ UNCHANGED inFlight
         \/ /\ n \in Remote \ ready
            /\ inFlight[n] # NoCommand
            /\ Goes(c, "waiting")
            /\ UNCHANGED inFlight
         \/ /\ n \in Remote \ ready
            /\ inFlight[n] = NoCommand
            /\ Goes(c, "bootstrapping")
            /\ inFlight' = [inFlight EXCEPT ![n] = c]

(* everyone who awaits the bootstrap that c started                         *)
Awaiting(c) ==
  {d \in Commands : d = c \/ (place[d] = "waiting" /\ NodeOf[d] = NodeOf[c])}

(* the bootstrap of c's node settled                                        *)
Settle(c, p) ==
  /\ place[c] = "bootstrapping"
  /\ place' = [d \in Commands |-> IF d \in Awaiting(c) THEN p ELSE place[d]]
  /\ inFlight' = [inFlight EXCEPT ![NodeOf[c]] = NoCommand]
  /\ UNCHANGED stopVars

BootstrapSucceeds(c) ==
  /\ Settle(c, "sending")
  /\ ready' = ready \cup {NodeOf[c]}
  /\ bootstrapped' = bootstrapped \cup {NodeOf[c]}

(* (slip: only the command that started the bootstrap is told)              *)
BootstrapFailsAlone(c) ==
  /\ place[c] = "bootstrapping"
  /\ Goes(c, "rejected")
  /\ inFlight' = [inFlight EXCEPT ![NodeOf[c]] = NoCommand]
  /\ UNCHANGED <<ready, bootstrapped, stopVars>>

(* the worker refused, or did not answer although it may have bootstrapped  *)
BootstrapFails(c) ==
  /\ Settle(c, "rejected")
  /\ UNCHANGED ready
  /\ bootstrapped' \in {bootstrapped, bootstrapped \cup {NodeOf[c]}}

(* the envelope, or the local handler, is answered                          *)
Answer(c) ==
  /\ place[c] \in {"sending", "local"}
  /\ Goes(c, "accepted") \/ Goes(c, "rejected")
  /\ UNCHANGED <<readiness, stopVars>>

-----------------------------------------------------------------------------
(* dispatchControlStop: one node after the other, in the map's order        *)

Stop ==
  /\ stopping = "idle"
  /\ stopping' = "running"
  /\ UNCHANGED <<readiness, place, told>>

TellNode(n) ==
  /\ stopping = "running"
  /\ n \notin told
  /\ told' = told \cup {n}
  /\ stopping' = IF told \cup {n} = Nodes THEN "accepted" ELSE "running"
  /\ UNCHANGED <<readiness, place>>

(* the nodes after the one that failed are not told                         *)
StopFails ==
  /\ stopping = "running"
  /\ stopping' = "rejected"
  /\ UNCHANGED <<readiness, place, told>>

-----------------------------------------------------------------------------
AdapterNext ==
  \/ \E c \in Commands : Dispatch(c) \/ BootstrapSucceeds(c) \/ BootstrapFails(c) \/ Answer(c)
  \/ \E n \in Nodes : TellNode(n)
  \/ Stop \/ StopFails

(* every delivery ends, by its answer or by its last timeout (CommandBridge, *)
(* SendEnds)                                                                *)
Fairness ==
  \A c \in Commands : WF_vars(BootstrapSucceeds(c) \/ BootstrapFails(c) \/ Answer(c))

AdapterSpec == AdapterInit /\ [][AdapterNext]_vars
FairSpec == AdapterSpec /\ Fairness

-----------------------------------------------------------------------------
(* Properties                                                               *)

(* A runtime envelope only leaves for a worker that answered the bootstrap  *)
(* of this run, also when the command itself waited for another command's   *)
(* bootstrap, and after earlier bootstraps failed ("bootstraps remote node  *)
(* readiness once before remote dispatch").                                 *)
SentAfterBootstrap ==
  \A c \in Commands :
    (place[c] = "sending" /\ NodeOf[c] # LocalNode) => NodeOf[c] \in bootstrapped

(* Concurrent commands share one bootstrap of their node, and nobody waits  *)
(* for a bootstrap that is not under way.                                   *)
BootstrapIsShared ==
  /\ \A c, d \in Commands :
       (place[c] = "bootstrapping" /\ place[d] = "bootstrapping" /\ NodeOf[c] = NodeOf[d])
         => c = d
  /\ \A c \in Commands : place[c] = "waiting" =>
       \E d \in Commands : place[d] = "bootstrapping" /\ NodeOf[d] = NodeOf[c]

(* A node that counted as ready once is never bootstrapped again by this    *)
(* run, and a command never waits at a ready node.                          *)
ReadyNodesAreLeftAlone ==
  \A c \in Commands : place[c] \in {"bootstrapping", "waiting"} => NodeOf[c] \notin ready

(* Every dispatch is answered, whatever becomes of the bootstrap it needs.  *)
DispatchEnds ==
  \A c \in Commands : place[c] # "idle" ~> place[c] \in {"accepted", "rejected"}
=============================================================================
