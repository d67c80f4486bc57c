------------------------------- MODULE Discovery -------------------------------
(****************************************************************************)
(* Node discovery: one node is the registry, the others are its clients.    *)
(* A client registers, sends heartbeats and copies the registry's list of   *)
(* peers into its own registry service; on every node the bridge copies the *)
(* list on into the node directory, from which members are placed, commands *)
(* and events are addressed and the federated catalogue names its nodes.    *)
(*                                                                          *)
(* Time is the status of a record at the registry: a maintenance tick moves *)
(* it past one more of the three thresholds.  For a node that beats this is *)
(* a fault: it beats every 5 s and the first threshold is 20 s.  Faults,    *)
(* also lost answers, nodes that stop and hosts that the uplink looks for,  *)
(* are bounded together by MaxFaults.  Node ids are persisted: a node keeps *)
(* its id when it restarts, and its address may change.                     *)
(****************************************************************************)
EXTENDS Naturals, Sequences

CONSTANTS
  Nodes, Registry,      \* node ids, and the one whose role is "registry"
  Machine,              \* [Nodes -> machines]: the host a node's requests come from
  Ports,                \* ports a client may advertise
  Followers,            \* clients whose copy of the peers is followed
  Statuses,             \* the statuses that the configured thresholds tell apart
  Beats, Syncs,         \* heartbeat and sync ticks of a client that may overlap
  MaxFaults,            \* bound on stops, lost answers, late heartbeats, uplinks
  Nothing

Clients == Nodes \ {Registry}
Loopback == "localhost"
ASSUME DiscoveryAssumption ==
  /\ Registry \in Nodes
  /\ Followers \subseteq Clients
  /\ {Nothing, "unknown", "unavailable"} \cap Nodes = {}
  /\ \A n \in Nodes : Machine[n] # Loopback
  /\ Statuses \in Seq({"ready", "degraded", "unreachable"})
  /\ Statuses # <<>> /\ Statuses[1] = "ready"
  /\ MaxFaults \in Nat

VARIABLES
  up,           \* nodes that run
  address,      \* base URL a node advertises
  peers,        \* NodeDiscoveryRegistryService.byNodeId of every node
  directory,    \* NodeDirectoryService.byNodeId of every node
  registered,   \* clients that believe they are registered
  registration, \* registrationInFlight of every client
  beat,         \* sendHeartbeatWithRegistrationRecovery of every tick
  sync,         \* syncPeersFromRegistry of every tick
  faults        \* how often the environment did the unusual

vars == <<up, address, peers, directory, registered, registration, beat,
          sync, faults>>

requests == <<registered, registration, beat, sync>>

(* A node listens on a port that no running node of its machine and    *)
(* advertises it under the loopback name                                    *)
RegistryUrl == [host |-> Machine[Registry], port |-> 0]

(* resolveEffectiveBaseUrl: a loopback address is replaced by the sender's *)
EffectiveAddress(n) ==
  IF address[n].host = Loopback /\ Machine[n] # Machine[Registry]
  THEN [address[n] EXCEPT !.host = Machine[n]]
  ELSE address[n]

Put(f, x, v) == [y \in DOMAIN f \cup {x} |-> IF y = x THEN v ELSE f[y]]

Only(x, v) == [y \in {x} |-> v]

Fault == faults < MaxFaults /\ faults' = faults + 1

-----------------------------------------------------------------------------
(* The registry service and the bridge that listens to its changes          *)

Entry(peer) == [addr |-> peer.addr, healthy |-> peer.status = "ready"]

(* applySnapshot and applyPrunedNodeIds: the host's own entry is untouched  *)
Bridged(n, list) ==
  [m \in DOMAIN list \cup {n} |-> IF m = n THEN directory[n][n] ELSE Entry(list[m])]

(* emitChange calls the bridge synchronously                                *)
Change(n, list) ==
  /\ peers' = [peers EXCEPT ![n] = list]
  /\ directory' = [directory EXCEPT ![n] = Bridged(n, list)]

Conflict(n) ==
  \/ n \in DOMAIN peers[Registry] /\ peers[Registry][n].addr # EffectiveAddress(n)
  \/ \E m \in DOMAIN peers[Registry] \ {n} : peers[Registry][m].addr = EffectiveAddress(n)

Announce(n) ==
  Change(Registry, Put(peers[Registry], n, [addr |-> EffectiveAddress(n), status |-> "ready"]))

(* (slip: the heartbeat does not report its change) *)
HeartbeatQuietly(n) ==
  /\ peers' = [peers EXCEPT ![Registry][n].status = "ready"]
  /\ UNCHANGED directory

Heartbeat(n) ==
  Change(Registry, [peers[Registry] EXCEPT ![n].status = "ready"])

(* mergePeers replaces the list but keeps the protected record of the node  *)
MergePeers(n, list) ==
  Change(n, [m \in DOMAIN list \cup {n} |-> IF m = n THEN peers[n][n] ELSE list[m]])

(* A maintenance tick at which the record of n has passed a threshold: 20 s *)
(* and 45 s after it was last seen it gets the next status, after 120 s it  *)
(* is pruned.  Ticks are 5 s apart, so no threshold is skipped.             *)
Rank(status) == CHOOSE i \in DOMAIN Statuses : Statuses[i] = status

Maintained(n) ==
  LET list == peers[Registry] IN
  IF Rank(list[n].status) = Len(Statuses)
  THEN [m \in DOMAIN list \ {n} |-> list[m]]
  ELSE [list EXCEPT ![n].status = Statuses[Rank(@) + 1]]

(* A running node whose record has its address refreshes it on every tick   *)
(* of its own, by a heartbeat or a registration                             *)
Beating(n) == n \in up /\ peers[Registry][n].addr = EffectiveAddress(n)

TickMaintenance(n) ==
  /\ Registry \in up /\ n \in DOMAIN peers[Registry]
  /\ \/ ~Beating(n) /\ UNCHANGED faults
     \/ Beating(n) /\ Fault
  /\ Change(Registry, Maintained(n))
  /\ UNCHANGED <<up, address, requests>>

-----------------------------------------------------------------------------
(* The client: register, beat, copy the peers.  A tick is started while an  *)
(* earlier one still waits; the registration they wait for is shared.  A    *)
(* request is served in the step that sends it and its answer stays in      *)
(* flight.  A request that does not get through changes nothing, nor does   *)
(* the answer to a heartbeat that was accepted: neither has a state here.   *)

Idle == [at |-> "idle", again |-> FALSE]

ServeRegistration(c) ==
  IF Conflict(c)
  THEN /\ registration' = [registration EXCEPT ![c] = "conflict"]
       /\ UNCHANGED <<peers, directory>>
  ELSE /\ registration' = [registration EXCEPT ![c] = "accepted"]
       /\ Announce(c)

(* ensureRegistered when the client is not registered                       *)
EnsureRegistered(c, b, again) ==
  /\ beat' = [beat EXCEPT ![c][b] = [at |-> "registering", again |-> again]]
  /\ \/ registration[c] = Nothing /\ ServeRegistration(c)
     \/ registration[c] # Nothing /\ UNCHANGED <<registration, peers, directory>>

ServeHeartbeat(c, b, again) ==
  IF c \in DOMAIN peers[Registry]
  THEN /\ Heartbeat(c)
       /\ beat' = [beat EXCEPT ![c][b] = Idle]
  ELSE /\ beat' = [beat EXCEPT ![c][b] = [at |-> "unknown", again |-> again]]
       /\ UNCHANGED <<peers, directory>>

BeatTick(c, b) ==
  /\ {c, Registry} \subseteq up /\ beat[c][b].at = "idle"
  /\ \/ c \in registered /\ ServeHeartbeat(c, b, FALSE) /\ UNCHANGED registration
     \/ c \notin registered /\ EnsureRegistered(c, b, FALSE)
  /\ UNCHANGED <<up, address, registered, sync, faults>>

(* The promise of the registration settles for every tick that waits for it *)
Settle(c, at) ==
  [b \in Beats |-> IF beat[c][b].at # "registering" THEN beat[c][b]
                   ELSE IF at = "idle" THEN Idle ELSE [beat[c][b] EXCEPT !.at = at]]

Registered(c) ==
  /\ registration[c] = "accepted"
  /\ registered' = registered \cup {c}
  /\ registration' = [registration EXCEPT ![c] = Nothing]
  /\ beat' = [beat EXCEPT ![c] = Settle(c, "registered")]
  /\ UNCHANGED <<up, address, peers, directory, sync, faults>>

RegistrationRefused(c) ==
  /\ registration[c] = "conflict"
  /\ registered' = registered \ {c}
  /\ registration' = [registration EXCEPT ![c] = Nothing]
  /\ beat' = [beat EXCEPT ![c] = Settle(c, "idle")]
  /\ UNCHANGED <<up, address, peers, directory, sync, faults>>

(* The answer is lost, or the registry went down                            *)
RegistrationFails(c) ==
  /\ registration[c] # Nothing
  /\ Fault
  /\ registration' = [registration EXCEPT ![c] = Nothing]
  /\ beat' = [beat EXCEPT ![c] = Settle(c, "idle")]
  /\ UNCHANGED <<up, address, peers, directory, registered, sync>>

(* The tick that registered goes on to its heartbeat                        *)
BeatRegistered(c, b) ==
  /\ beat[c][b].at = "registered"
  /\ \/ Registry \in up /\ ServeHeartbeat(c, b, beat[c][b].again)
     \/ Registry \notin up /\ beat' = [beat EXCEPT ![c][b] = Idle] /\ UNCHANGED <<peers, directory>>
  /\ UNCHANGED <<up, address, registered, registration, sync, faults>>

(* (slip: an unknown client goes on believing that it is registered) *)
BeatUnknownIgnored(c, b) ==
  /\ beat[c][b].at = "unknown" /\ ~beat[c][b].again
  /\ beat' = [beat EXCEPT ![c][b] = Idle]
  /\ UNCHANGED <<up, address, peers, directory, registered, registration, sync, faults>>

(* HEARTBEAT_UNKNOWN_NODE: register again and beat once more                *)
BeatUnknown(c, b) ==
  /\ beat[c][b].at = "unknown" /\ ~beat[c][b].again
  /\ registered' = registered \ {c}
  /\ \/ Registry \in up /\ EnsureRegistered(c, b, TRUE)
     \/ Registry \notin up /\ beat' = [beat EXCEPT ![c][b] = Idle]
       /\ UNCHANGED <<registration, peers, directory>>
  /\ UNCHANGED <<up, address, sync, faults>>

BeatUnknownAgain(c, b) ==
  /\ beat[c][b].at = "unknown" /\ beat[c][b].again
  /\ beat' = [beat EXCEPT ![c][b] = Idle]
  /\ UNCHANGED <<up, address, peers, directory, registered, registration, sync, faults>>

(* Ticks are interchangeable: a new one takes the first that is free        *)
First(S) == CHOOSE x \in S : \A y \in S : x <= y

(* The list is the registry's at the time it answers, and is merged when    *)
(* the answer arrives                                                       *)
SyncTick(c, s) ==
  /\ c \in Followers /\ {c, Registry} \subseteq up
  /\ sync[c][s] = Nothing /\ s = First({t \in Syncs : sync[c][t] = Nothing})
  /\ sync' = [sync EXCEPT ![c][s] = [list |-> peers[Registry]]]
  /\ UNCHANGED <<up, address, peers, directory, registered, registration, beat, faults>>

SyncAnswered(c, s) ==
  /\ sync[c][s] # Nothing
  /\ MergePeers(c, sync[c][s].list)
  /\ sync' = [sync EXCEPT ![c][s] = Nothing]
  /\ UNCHANGED <<up, address, registered, registration, beat, faults>>

-----------------------------------------------------------------------------
(* Nodes that stop and start                                                *)

Unstarted == [host |-> Loopback, port |-> 0]

SelfRecord(a) == [addr |-> a, status |-> "ready"]

(* What a node knew of the others, and its timers and requests, are gone    *)
Forget(n) ==
  /\ peers' = [peers EXCEPT ![n] = Only(n, SelfRecord(Unstarted))]
  /\ directory' = [directory EXCEPT ![n] = Only(n, Entry(SelfRecord(Unstarted)))]
  /\ address' = [address EXCEPT ![n] = Unstarted]
  /\ registered' = registered \ {n}
  /\ IF n = Registry
     THEN UNCHANGED <<registration, beat, sync>>
     ELSE /\ registration' = [registration EXCEPT ![n] = Nothing]
          /\ beat' = [beat EXCEPT ![n] = [b \in Beats |-> Idle]]
          /\ sync' = [sync EXCEPT ![n] = [s \in Syncs |-> Nothing]]

Stop(n) ==
  /\ n \in up /\ Fault
  /\ up' = up \ {n}
  /\ Forget(n)

(* A port that no running node of the machine uses                          *)
FreePorts(n) == Ports \ {address[m].port : m \in {x \in up : Machine[x] = Machine[n]}}

(* initializeDiscoveryRuntime announces the node to its own registry, and   *)
(* the bridge copies that list to a new directory                           *)
Start(n) ==
  /\ n \notin up
  /\ up' = up \cup {n}
  /\ \E p \in IF n = Registry THEN {0} ELSE FreePorts(n) :
       LET self == SelfRecord([host |-> Loopback, port |-> p]) IN
       /\ address' = [address EXCEPT ![n] = self.addr]
       /\ peers' = [peers EXCEPT ![n] = Only(n, self)]
       /\ directory' = [directory EXCEPT ![n] = Only(n, Entry(self))]
  /\ UNCHANGED <<requests, faults>>

-----------------------------------------------------------------------------
(* What uses the directory                                                  *)

(* resolveRemoteTargetForEventUplink: a client's worker looks for a host    *)
UplinkTarget(c, h) ==
  IF h \in DOMAIN directory[c] /\ directory[c][h].addr.host # Loopback
  THEN directory[c][h]
  ELSE [addr |-> RegistryUrl, healthy |-> TRUE]

ResolveUplink(c, h) ==
  /\ c \in up /\ h # c
  /\ Fault
  /\ directory' = [directory EXCEPT ![c] = Put(@, h, UplinkTarget(c, h))]
  /\ UNCHANGED <<up, address, peers, requests>>

(* FederatedCatalogService: the user's list of nodes names a node by the    *)
(* address the user typed; discovery names it by the peer with that address *)
Typed(m) == IF m = Registry THEN RegistryUrl ELSE EffectiveAddress(m)

PeersAt(n, a) == {m \in DOMAIN peers[n] : peers[n][m].addr = a}

CatalogIds(n, m) ==
  IF PeersAt(n, Typed(m)) = {} THEN {"typed"} ELSE PeersAt(n, Typed(m))

(* MemberPlacementResolver for one member: without a home it stays with the *)
(* host, whose own entry is always healthy                                  *)
Placement(n, home) ==
  IF home = Nothing THEN n
  ELSE IF home \notin DOMAIN directory[n] THEN "unknown"
  ELSE IF directory[n][home].healthy THEN home ELSE "unavailable"

-----------------------------------------------------------------------------

Init ==
  /\ up = {}
  /\ address = [n \in Nodes |-> Unstarted]
  /\ peers = [n \in Nodes |-> Only(n, SelfRecord(Unstarted))]
  /\ directory = [n \in Nodes |-> Only(n, Entry(peers[n][n]))]
  /\ registered = {}
  /\ registration = [c \in Clients |-> Nothing]
  /\ beat = [c \in Clients |-> [b \in Beats |-> Idle]]
  /\ sync = [c \in Clients |-> [s \in Syncs |-> Nothing]]
  /\ faults = 0

BeatStep(c, b) == BeatTick(c, b) \/ BeatRegistered(c, b) \/ BeatUnknown(c, b) \/ BeatUnknownAgain(c, b)
SyncStep(c, s) == SyncTick(c, s) \/ SyncAnswered(c, s)
RegistrationAnswer(c) == Registered(c) \/ RegistrationRefused(c)

Next ==
  \/ \E c \in Clients : TickMaintenance(c) \/ RegistrationAnswer(c) \/ RegistrationFails(c)
  \/ \E c \in Clients, b \in Beats : BeatStep(c, b)
  \/ \E c \in Clients, s \in Syncs : SyncStep(c, s)
  \/ \E n \in Nodes : Stop(n) \/ Start(n)
  \/ \E c \in Followers, h \in Nodes : ResolveUplink(c, h)

(* Timers go on ticking, a running registry answers, time passes for a node *)
(* that is silent.  That a stopped node starts again is not assumed.        *)
Fairness ==
  /\ \A c \in Clients : WF_vars(TickMaintenance(c)) /\ WF_vars(RegistrationAnswer(c))
  /\ \A c \in Clients, b \in Beats : WF_vars(BeatStep(c, b))
  /\ \A c \in Clients, s \in Syncs : WF_vars(SyncStep(c, s))

Spec == Init /\ [][Next]_vars /\ Fairness

-----------------------------------------------------------------------------

(* The directory of a running node says of every other node what its        *)
(* registry service says, except where the event uplink put the registry's  *)
(* URL for a host that is unknown or whose address is a loopback address.   *)
(* So a member is placed on another node only if discovery last saw that    *)
(* node ready (or the uplink vouched for it), and a home, also one that the *)
(* catalogue named, is unknown only when discovery does not list it.        *)
RoutesFollowPeers ==
  /\ \A n \in up : \A m \in Nodes \ {n} :
       \/ m \notin DOMAIN peers[n] /\ m \notin DOMAIN directory[n]
       \/ /\ m \in DOMAIN peers[n] /\ m \in DOMAIN directory[n]
          /\ directory[n][m] = Entry(peers[n][m])
       \/ /\ n \in Clients /\ m \in DOMAIN directory[n]
          /\ directory[n][m].addr = RegistryUrl
          /\ m \in DOMAIN peers[n] => peers[n][m].addr.host = Loopback
  /\ \A n \in up : \A home \in Nodes \cup {Nothing} \cup UNION {CatalogIds(n, m) : m \in up \ {n}} :
       LET node == Placement(n, home) IN
       /\ node \in Nodes \ {n} =>
            \/ directory[n][node].addr = RegistryUrl
            \/ node \in DOMAIN peers[n] /\ peers[n][node].status = "ready"
       /\ node = "unknown" /\ home # "typed" => home \notin DOMAIN peers[n]

(* Once nodes stop failing and the registry runs, the directory of every    *)
(* running node lists exactly the running nodes, healthy and at the address *)
(* they have now, however late, lost or overtaken the requests were.        *)
Accurate ==
  \A n \in up \cap (Followers \cup {Registry}) : directory[n] =
    [m \in up |-> IF m = n THEN directory[n][n]
                  ELSE [addr |-> EffectiveAddress(m), healthy |-> TRUE]]

PeersConverge == <>[](Registry \in up) => <>[]Accurate
=============================================================================
