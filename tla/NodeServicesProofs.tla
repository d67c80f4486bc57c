--------------------------- MODULE NodeServicesProofs ---------------------------
(****************************************************************************)
(* The services between nodes, for any number of nodes.                     *)
(*                                                                          *)
(* Discovery: every change of a node's list of peers carries its directory  *)
(* along in the same step; only the event uplink writes to the directory    *)
(* alone, and it replaces nothing that discovery knows to be reachable.     *)
(*                                                                          *)
(* Synchronisation: an import that is over without a failure has handled    *)
(* every entry of its bundle, and what was handled stays, since names and   *)
(* prompt versions are unique in a bundle and one run at a time writes to a *)
(* target that no user touches.                                             *)
(****************************************************************************)
EXTENDS Discovery, NodeSync, TLAPS, FiniteSetTheorems, SequenceTheorems, WellFoundedInduction

-----------------------------------------------------------------------------
(* Discovery: the kinds of its variables and its inductive invariant        *)


Hosts == {Loopback} \cup {Machine[n] : n \in Nodes}
Address == [host : Hosts, port : Ports \cup {0}]
PeerStatus == {Statuses[i] : i \in DOMAIN Statuses}
Peer == [addr : Address, status : PeerStatus]
Route == [addr : Address, healthy : BOOLEAN]

IsList(f) == DOMAIN f \subseteq Nodes /\ f \in [DOMAIN f -> Peer]
IsDirectory(f) == DOMAIN f \subseteq Nodes /\ f \in [DOMAIN f -> Route]

BeatState == [at : {"idle", "registering", "registered", "unknown"}, again : BOOLEAN]

(* the lists and directories are about nodes, each with its own entry       *)
ListsOK ==
  /\ DOMAIN peers = Nodes /\ DOMAIN directory = Nodes
  /\ \A n \in Nodes : n \in DOMAIN peers[n] /\ IsList(peers[n])
  /\ \A n \in Nodes : n \in DOMAIN directory[n] /\ IsDirectory(directory[n])

(* what is on its way from the registry                                     *)
RequestsOK ==
  /\ registered \subseteq Nodes
  /\ registration \in [Clients -> {Nothing, "accepted", "conflict"}]
  /\ beat \in [Clients -> [Beats -> BeatState]]
  /\ DOMAIN sync = Clients
  /\ \A c \in Clients : DOMAIN sync[c] = Syncs
  /\ \A c \in Clients, s \in Syncs :
       sync[c][s] # Nothing => DOMAIN sync[c][s] = {"list"} /\ IsList(sync[c][s].list)

DiscoveryTypeOK ==
  /\ up \subseteq Nodes /\ address \in [Nodes -> Address]
  /\ ListsOK /\ RequestsOK
  /\ faults \in 0 .. MaxFaults

(* a node's directory says of another what its list of peers says, or what  *)
(* the uplink put there                                                     *)
Follows(n, m) ==
  \/ m \notin DOMAIN peers[n] /\ m \notin DOMAIN directory[n]
  \/ /\ m \in DOMAIN peers[n] /\ m \in DOMAIN directory[n]
     /\ directory[n][m] = Entry(peers[n][m])
  \/ /\ n \in Clients /\ m \in DOMAIN directory[n]
     /\ directory[n][m].addr = RegistryUrl
     /\ m \in DOMAIN peers[n] => peers[n][m].addr.host = Loopback

FollowsInv == \A n \in Nodes : \A m \in Nodes \ {n} : Follows(n, m)

DiscoveryInv == DiscoveryTypeOK /\ FollowsInv

-----------------------------------------------------------------------------
(* Addresses, statuses and lists                                            *)

LEMMA StatusFacts ==
  /\ "ready" \in PeerStatus
  /\ \A x \in PeerStatus : Rank(x) # Len(Statuses) => Statuses[Rank(x) + 1] \in PeerStatus
<1>1. /\ Statuses \in Seq({"ready", "degraded", "unreachable"})
      /\ Statuses # <<>> /\ Statuses[1] = "ready"
  BY DiscoveryAssumption
<1>2. DOMAIN Statuses = 1 .. Len(Statuses) /\ Len(Statuses) \in Nat
  BY <1>1
<1>3. 1 \in DOMAIN Statuses
  BY <1>1, <1>2
<1>4. ASSUME NEW x \in PeerStatus
      PROVE  Rank(x) \in DOMAIN Statuses
  BY <1>4 DEF PeerStatus, Rank
<1>5. ASSUME NEW x \in PeerStatus, Rank(x) # Len(Statuses)
      PROVE  Statuses[Rank(x) + 1] \in PeerStatus
  <2>1. Rank(x) + 1 \in DOMAIN Statuses
    BY <1>2, <1>4, <1>5
  <2> QED
    BY <2>1 DEF PeerStatus
<1> QED
  BY <1>1, <1>3, <1>5 DEF PeerStatus

LEMMA AddressFacts ==
  /\ Unstarted \in Address /\ RegistryUrl \in Address /\ RegistryUrl.host # Loopback
  /\ address \in [Nodes -> Address] => \A n \in Nodes : EffectiveAddress(n) \in Address
<1>1. Registry \in Nodes /\ Machine[Registry] # Loopback
  BY DiscoveryAssumption
<1>2. Unstarted \in Address /\ RegistryUrl \in Address /\ RegistryUrl.host # Loopback
  BY <1>1 DEF Unstarted, RegistryUrl, Address, Hosts
<1>3. ASSUME address \in [Nodes -> Address], NEW n \in Nodes
      PROVE  EffectiveAddress(n) \in Address
  <2>1. address[n] \in Address /\ Machine[n] \in Hosts
    BY <1>3 DEF Hosts
  <2> QED
    BY <2>1 DEF EffectiveAddress, Address
<1> QED
  BY <1>2, <1>3

LEMMA RefreshedList ==
  ASSUME NEW f, IsList(f), NEW n \in DOMAIN f, NEW x \in PeerStatus
  PROVE  /\ DOMAIN [f EXCEPT ![n].status = x] = DOMAIN f
         /\ IsList([f EXCEPT ![n].status = x])
<1> DEFINE g == [f EXCEPT ![n].status = x]
<1>1. f \in [DOMAIN f -> Peer] /\ DOMAIN f \subseteq Nodes
  BY DEF IsList
<1>2. [f[n] EXCEPT !.status = x] \in Peer
  BY <1>1 DEF Peer
<1>3. g \in [DOMAIN f -> Peer]
  BY <1>1, <1>2
<1> QED
  BY <1>1, <1>3 DEF IsList

LEMMA ExtendedList ==
  ASSUME NEW f, IsList(f), NEW n \in Nodes, NEW p \in Peer
  PROVE  DOMAIN Put(f, n, p) = DOMAIN f \cup {n} /\ IsList(Put(f, n, p))
BY DEF IsList, Put

(* A list that replaces a node's own, without losing the node itself, is    *)
(* followed by the directory.                                               *)
LEMMA ChangeStep ==
  ASSUME DiscoveryInv, NEW n \in Nodes, NEW list, IsList(list), n \in DOMAIN list,
         Change(n, list)
  PROVE  ListsOK' /\ FollowsInv'
<1>1. ListsOK /\ FollowsInv
  BY DEF DiscoveryInv, DiscoveryTypeOK
<1>2. /\ peers'[n] = list /\ directory'[n] = Bridged(n, list)
      /\ DOMAIN peers' = Nodes /\ DOMAIN directory' = Nodes
      /\ \A q \in Nodes \ {n} : peers'[q] = peers[q] /\ directory'[q] = directory[q]
  BY <1>1 DEF Change, ListsOK
<1>3. /\ DOMAIN Bridged(n, list) = DOMAIN list
      /\ Bridged(n, list)[n] = directory[n][n]
      /\ \A m \in DOMAIN list \ {n} : Bridged(n, list)[m] = Entry(list[m])
  BY DEF Bridged
<1>4. IsDirectory(Bridged(n, list))
  <2>1. directory[n][n] \in Route
    BY <1>1 DEF ListsOK, IsDirectory
  <2>2. \A m \in DOMAIN list : Entry(list[m]) \in Route
    BY DEF IsList, Entry, Peer, Route
  <2> QED
    BY <2>1, <2>2 DEF IsDirectory, IsList, Bridged
<1>5. ListsOK'
  BY <1>1, <1>2, <1>3, <1>4 DEF ListsOK, IsList, IsDirectory
<1>6. FollowsInv'
  <2> SUFFICES ASSUME NEW q \in Nodes, NEW m \in Nodes \ {q}
               PROVE  Follows(q, m)'
    BY DEF FollowsInv
  <2>1. CASE q = n
    BY <1>2, <1>3, <2>1 DEF Follows
  <2>2. CASE q # n
    BY <1>1, <1>2, <2>2 DEF Follows, FollowsInv
  <2> QED
    BY <2>1, <2>2
<1> QED
  BY <1>5, <1>6

LEMMA NothingListed ==
  ASSUME DiscoveryInv, UNCHANGED <<peers, directory>>
  PROVE  ListsOK' /\ FollowsInv'
BY DEF DiscoveryInv, DiscoveryTypeOK, ListsOK, FollowsInv, Follows, IsList, IsDirectory

-----------------------------------------------------------------------------
(* The changes of the lists                                                 *)

LEMMA RegistryList ==
  ASSUME DiscoveryInv
  PROVE  /\ Registry \in Nodes /\ Clients \subseteq Nodes /\ Registry \notin Clients
         /\ IsList(peers[Registry]) /\ Registry \in DOMAIN peers[Registry]
BY DiscoveryAssumption DEF DiscoveryInv, DiscoveryTypeOK, ListsOK, Clients

LEMMA AnnounceStep ==
  ASSUME DiscoveryInv, NEW c \in Clients, Announce(c)
  PROVE  ListsOK' /\ FollowsInv'
<1> DEFINE p == [addr |-> EffectiveAddress(c), status |-> "ready"]
<1>1. EffectiveAddress(c) \in Address
  BY RegistryList, AddressFacts DEF DiscoveryInv, DiscoveryTypeOK
<1>2. p \in Peer
  BY <1>1, StatusFacts DEF Peer
<1> HIDE DEF p
<1>3. IsList(Put(peers[Registry], c, p)) /\ Registry \in DOMAIN Put(peers[Registry], c, p)
  <2>1. c \in Nodes /\ IsList(peers[Registry]) /\ Registry \in DOMAIN peers[Registry]
    BY RegistryList
  <2>2. /\ DOMAIN Put(peers[Registry], c, p) = DOMAIN peers[Registry] \cup {c}
        /\ IsList(Put(peers[Registry], c, p))
    BY <1>2, <2>1, ExtendedList
  <2> QED
    BY <2>1, <2>2
<1>4. Change(Registry, Put(peers[Registry], c, p))
  BY DEF Announce, p
<1> QED
  BY <1>3, <1>4, RegistryList, ChangeStep

LEMMA HeartbeatStep ==
  ASSUME DiscoveryInv, NEW c \in DOMAIN peers[Registry], Heartbeat(c)
  PROVE  ListsOK' /\ FollowsInv'
<1> DEFINE list == [peers[Registry] EXCEPT ![c].status = "ready"]
<1>1. IsList(list) /\ Registry \in DOMAIN list
  BY RegistryList, StatusFacts, RefreshedList
<1>2. Change(Registry, list)
  BY DEF Heartbeat
<1> HIDE DEF list
<1> QED
  BY <1>1, <1>2, RegistryList, ChangeStep

LEMMA MaintenanceStep ==
  ASSUME DiscoveryInv, NEW c \in Clients, TickMaintenance(c)
  PROVE  ListsOK' /\ FollowsInv'
<1> DEFINE list == peers[Registry]
           x == Statuses[Rank(list[c].status) + 1]
<1>1. c \in DOMAIN list /\ c # Registry /\ IsList(list) /\ Registry \in DOMAIN list
  BY RegistryList DEF TickMaintenance
<1>2. CASE Rank(list[c].status) = Len(Statuses)
  <2>1. Maintained(c) = [m \in DOMAIN list \ {c} |-> list[m]]
    BY <1>2 DEF Maintained
  <2>2. IsList(Maintained(c)) /\ Registry \in DOMAIN Maintained(c)
    BY <1>1, <2>1 DEF IsList
  <2> QED
    BY <2>2, RegistryList, ChangeStep DEF TickMaintenance
<1>3. CASE Rank(list[c].status) # Len(Statuses)
  <2>1. list[c].status \in PeerStatus
    BY <1>1 DEF IsList, Peer
  <2>2. x \in PeerStatus
    BY <1>3, <2>1, StatusFacts
  <2>3. Maintained(c) = [list EXCEPT ![c].status = x]
    BY <1>3 DEF Maintained
  <2> HIDE DEF x
  <2>4. /\ DOMAIN [peers[Registry] EXCEPT ![c].status = x] = DOMAIN peers[Registry]
        /\ IsList([peers[Registry] EXCEPT ![c].status = x])
    BY <1>1, <2>2, RefreshedList
  <2>5. IsList(Maintained(c)) /\ Registry \in DOMAIN Maintained(c)
    BY <1>1, <2>3, <2>4
  <2> QED
    BY <2>5, RegistryList, ChangeStep DEF TickMaintenance
<1> QED
  BY <1>2, <1>3

LEMMA MergeStep ==
  ASSUME DiscoveryInv, NEW n \in Nodes, NEW list, IsList(list), MergePeers(n, list)
  PROVE  ListsOK' /\ FollowsInv'
<1> DEFINE new == [m \in DOMAIN list \cup {n} |-> IF m = n THEN peers[n][n] ELSE list[m]]
<1>1. peers[n][n] \in Peer
  BY DEF DiscoveryInv, DiscoveryTypeOK, ListsOK, IsList
<1>2. IsList(new) /\ n \in DOMAIN new
  BY <1>1 DEF IsList
<1>3. Change(n, new)
  BY DEF MergePeers
<1> HIDE DEF new
<1> QED
  BY <1>2, <1>3, ChangeStep

(* A node that knows itself only                                            *)
LEMMA AloneStep ==
  ASSUME DiscoveryInv, NEW n \in Nodes, NEW p \in Peer,
         peers' = [peers EXCEPT ![n] = Only(n, p)],
         directory' = [directory EXCEPT ![n] = Only(n, Entry(p))]
  PROVE  ListsOK' /\ FollowsInv'
<1>1. ListsOK /\ FollowsInv
  BY DEF DiscoveryInv, DiscoveryTypeOK
<1>2. /\ peers'[n] = Only(n, p) /\ directory'[n] = Only(n, Entry(p))
      /\ DOMAIN peers' = Nodes /\ DOMAIN directory' = Nodes
      /\ \A q \in Nodes \ {n} : peers'[q] = peers[q] /\ directory'[q] = directory[q]
  BY <1>1 DEF ListsOK
<1>3. IsList(Only(n, p)) /\ DOMAIN Only(n, p) = {n}
  BY DEF IsList, Only
<1>4. IsDirectory(Only(n, Entry(p))) /\ DOMAIN Only(n, Entry(p)) = {n}
  BY DEF IsDirectory, Only, Entry, Route, Peer
<1>5. ListsOK'
  BY <1>1, <1>2, <1>3, <1>4 DEF ListsOK, IsList, IsDirectory
<1>6. FollowsInv'
  BY <1>1, <1>2, <1>3, <1>4 DEF FollowsInv, Follows
<1> QED
  BY <1>5, <1>6

(* The uplink writes the registry's URL only over what is not known to be   *)
(* reachable elsewhere.                                                     *)
LEMMA UplinkStep ==
  ASSUME DiscoveryInv, NEW c \in Followers, NEW h \in Nodes, ResolveUplink(c, h)
  PROVE  ListsOK' /\ FollowsInv'
<1> DEFINE route == UplinkTarget(c, h)
<1>1. ListsOK /\ FollowsInv /\ c \in Clients /\ c \in Nodes /\ h # c
  BY DiscoveryAssumption DEF DiscoveryInv, DiscoveryTypeOK, Clients, ResolveUplink
<1>2. /\ \/ route = directory[c][h] /\ h \in DOMAIN directory[c]
         \/ /\ route = [addr |-> RegistryUrl, healthy |-> TRUE]
            /\ h \in DOMAIN directory[c] => directory[c][h].addr.host = Loopback
      /\ route \in Route
  BY <1>1, AddressFacts DEF UplinkTarget, ListsOK, IsDirectory, Route
<1> HIDE DEF route
<1>3. /\ peers' = peers /\ DOMAIN directory' = Nodes
      /\ directory'[c] = Put(directory[c], h, route)
      /\ \A q \in Nodes \ {c} : directory'[q] = directory[q]
  BY <1>1 DEF ResolveUplink, ListsOK, route
<1>4. /\ DOMAIN directory'[c] = DOMAIN directory[c] \cup {h} /\ directory'[c][h] = route
      /\ \A m \in DOMAIN directory[c] \ {h} : directory'[c][m] = directory[c][m]
      /\ IsDirectory(directory'[c])
  BY <1>1, <1>2, <1>3 DEF Put, ListsOK, IsDirectory
<1>5. ListsOK'
  BY <1>1, <1>3, <1>4 DEF ListsOK, IsList, IsDirectory
<1>6. ASSUME NEW m \in Nodes \ {c}
      PROVE  Follows(c, m)'
  <2>1. CASE m # h
    BY <1>1, <1>3, <1>4, <2>1 DEF Follows, FollowsInv
  <2>2. CASE m = h /\ route = directory[c][h] /\ h \in DOMAIN directory[c]
    BY <1>1, <1>3, <1>4, <2>2 DEF Follows, FollowsInv
  <2>3. CASE /\ m = h /\ route = [addr |-> RegistryUrl, healthy |-> TRUE]
             /\ h \in DOMAIN directory[c] => directory[c][h].addr.host = Loopback
    <3>1. h \in DOMAIN peers[c] => peers[c][h].addr.host = Loopback
      <4>1. Follows(c, h) /\ RegistryUrl.host # Loopback
        BY <1>1, AddressFacts DEF FollowsInv
      <4>2. CASE h \in DOMAIN directory[c] /\ directory[c][h] = Entry(peers[c][h])
        BY <2>3, <4>2 DEF Entry
      <4>3. CASE h \in DOMAIN directory[c] /\ directory[c][h].addr = RegistryUrl
        BY <2>3, <4>1, <4>3
      <4> QED
        BY <4>1, <4>2, <4>3 DEF Follows
    <3> QED
      BY <1>1, <1>3, <1>4, <2>3, <3>1 DEF Follows
  <2> QED
    BY <1>2, <2>1, <2>2, <2>3
<1>7. ASSUME NEW q \in Nodes, NEW m \in Nodes \ {q}
      PROVE  Follows(q, m)'
  BY <1>1, <1>3, <1>6 DEF Follows, FollowsInv
<1> QED
  BY <1>5, <1>7 DEF FollowsInv

-----------------------------------------------------------------------------
(* The requests of the clients                                              *)

ListsKept == ListsOK' /\ FollowsInv'

LEMMA BeatMoves ==
  ASSUME RequestsOK, NEW c \in Clients, NEW b \in Beats, NEW x \in BeatState,
         beat' = [beat EXCEPT ![c][b] = x]
  PROVE  beat' \in [Clients -> [Beats -> BeatState]]
<1>1. beat \in [Clients -> [Beats -> BeatState]]
  BY DEF RequestsOK
<1>2. [beat[c] EXCEPT ![b] = x] \in [Beats -> BeatState]
  BY <1>1
<1> QED
  BY <1>1, <1>2

LEMMA IdleBeat == Idle \in BeatState
BY DEF Idle, BeatState

LEMMA ServeHeartbeatStep ==
  ASSUME DiscoveryInv, NEW c \in Clients, NEW b \in Beats, NEW again \in BOOLEAN,
         ServeHeartbeat(c, b, again)
  PROVE  ListsKept /\ beat' \in [Clients -> [Beats -> BeatState]]
<1> USE DEF ListsKept
<1>1. RequestsOK
  BY DEF DiscoveryInv, DiscoveryTypeOK
<1>2. CASE c \in DOMAIN peers[Registry]
  BY <1>1, <1>2, HeartbeatStep, BeatMoves, IdleBeat DEF ServeHeartbeat
<1>3. CASE c \notin DOMAIN peers[Registry]
  <2>1. [at |-> "unknown", again |-> again] \in BeatState
    BY DEF BeatState
  <2> QED
    BY <1>1, <1>3, <2>1, NothingListed, BeatMoves DEF ServeHeartbeat
<1> QED
  BY <1>2, <1>3

LEMMA EnsureStep ==
  ASSUME DiscoveryInv, NEW c \in Clients, NEW b \in Beats, NEW again \in BOOLEAN,
         EnsureRegistered(c, b, again)
  PROVE  /\ ListsKept
         /\ beat' \in [Clients -> [Beats -> BeatState]]
         /\ registration' \in [Clients -> {Nothing, "accepted", "conflict"}]
<1> USE DEF ListsKept
<1>1. RequestsOK
  BY DEF DiscoveryInv, DiscoveryTypeOK
<1>2. beat' \in [Clients -> [Beats -> BeatState]]
  <2>1. [at |-> "registering", again |-> again] \in BeatState
    BY DEF BeatState
  <2> QED
    BY <1>1, <2>1, BeatMoves DEF EnsureRegistered
<1>3. CASE ServeRegistration(c)
  <2>1. CASE Conflict(c)
    BY <1>1, <1>2, <1>3, <2>1, NothingListed DEF ServeRegistration, RequestsOK
  <2>2. CASE ~ Conflict(c)
    BY <1>1, <1>2, <1>3, <2>2, AnnounceStep DEF ServeRegistration, RequestsOK
  <2> QED
    BY <2>1, <2>2
<1>4. CASE UNCHANGED <<registration, peers, directory>>
  BY <1>1, <1>2, <1>4, NothingListed DEF RequestsOK
<1> QED
  BY <1>3, <1>4 DEF EnsureRegistered

LEMMA BeatStepKeeps ==
  ASSUME DiscoveryInv, NEW c \in Clients, NEW b \in Beats, BeatStep(c, b)
  PROVE  DiscoveryInv'
<1> USE DEF ListsKept
<1>1. RequestsOK /\ Clients \subseteq Nodes
  BY RegistryList DEF DiscoveryInv, DiscoveryTypeOK
<1>2. UNCHANGED <<up, address, sync, faults>>
  BY DEF BeatStep, BeatTick, BeatRegistered, BeatUnknown, BeatUnknownAgain
<1>3. /\ ListsKept
      /\ beat' \in [Clients -> [Beats -> BeatState]]
      /\ registration' \in [Clients -> {Nothing, "accepted", "conflict"}]
      /\ registered' \subseteq Nodes
  <2>1. CASE BeatTick(c, b)
    BY <1>1, <2>1, ServeHeartbeatStep, EnsureStep DEF BeatTick, RequestsOK
  <2>2. CASE BeatRegistered(c, b)
    <3>1. beat[c][b].again \in BOOLEAN
      BY <1>1 DEF RequestsOK, BeatState
    <3>2. UNCHANGED <<registered, registration>>
      BY <2>2 DEF BeatRegistered
    <3>3. CASE ServeHeartbeat(c, b, beat[c][b].again)
      BY <1>1, <3>1, <3>2, <3>3, ServeHeartbeatStep DEF RequestsOK
    <3>4. CASE beat' = [beat EXCEPT ![c][b] = Idle] /\ UNCHANGED <<peers, directory>>
      BY <1>1, <3>2, <3>4, BeatMoves, IdleBeat, NothingListed DEF RequestsOK
    <3> QED
      BY <2>2, <3>3, <3>4 DEF BeatRegistered
  <2>3. CASE BeatUnknown(c, b)
    <3>1. registered' \subseteq Nodes
      BY <1>1, <2>3 DEF BeatUnknown, RequestsOK
    <3>2. CASE EnsureRegistered(c, b, TRUE)
      BY <3>1, <3>2, EnsureStep
    <3>3. CASE beat' = [beat EXCEPT ![c][b] = Idle] /\ UNCHANGED <<registration, peers, directory>>
      BY <1>1, <3>1, <3>3, BeatMoves, IdleBeat, NothingListed DEF RequestsOK
    <3> QED
      BY <2>3, <3>2, <3>3 DEF BeatUnknown
  <2>4. CASE BeatUnknownAgain(c, b)
    BY <1>1, <2>4, BeatMoves, IdleBeat, NothingListed DEF BeatUnknownAgain, RequestsOK
  <2> QED
    BY <2>1, <2>2, <2>3, <2>4 DEF BeatStep
<1>4. RequestsOK'
  BY <1>1, <1>2, <1>3 DEF RequestsOK, IsList
<1> QED
  BY <1>2, <1>3, <1>4 DEF DiscoveryInv, DiscoveryTypeOK

LEMMA RegistrationStep ==
  ASSUME DiscoveryInv, NEW c \in Clients, RegistrationAnswer(c) \/ RegistrationFails(c)
  PROVE  DiscoveryInv'
<1>1. RequestsOK /\ Clients \subseteq Nodes /\ MaxFaults \in Nat
  BY RegistryList, DiscoveryAssumption DEF DiscoveryInv, DiscoveryTypeOK
<1>2. /\ UNCHANGED <<up, address, peers, directory, sync>>
      /\ registration' = [registration EXCEPT ![c] = Nothing]
      /\ registered' \subseteq Nodes
      /\ faults' = faults \/ Fault
      /\ \E at \in {"registered", "idle"} : beat' = [beat EXCEPT ![c] = Settle(c, at)]
  BY <1>1 DEF RegistrationAnswer, Registered, RegistrationRefused, RegistrationFails, RequestsOK
<1>3. ASSUME NEW at \in {"registered", "idle"}
      PROVE  Settle(c, at) \in [Beats -> BeatState]
  <2>1. ASSUME NEW b \in Beats
        PROVE  beat[c][b] \in BeatState /\ [beat[c][b] EXCEPT !.at = "registered"] \in BeatState
    <3>1. beat[c][b] \in BeatState
      BY <1>1 DEF RequestsOK
    <3> QED
      BY <3>1 DEF BeatState
  <2> QED
    BY <2>1, IdleBeat DEF Settle
<1>4. RequestsOK'
  BY <1>1, <1>2, <1>3 DEF RequestsOK, IsList
<1>5. faults' \in 0 .. MaxFaults
  BY <1>1, <1>2 DEF Fault, DiscoveryInv, DiscoveryTypeOK
<1> QED
  BY <1>2, <1>4, <1>5, NothingListed DEF DiscoveryInv, DiscoveryTypeOK

LEMMA SyncStepKeeps ==
  ASSUME DiscoveryInv, NEW c \in Clients, NEW s \in Syncs, SyncStep(c, s)
  PROVE  DiscoveryInv'
<1>1. RequestsOK /\ Clients \subseteq Nodes /\ IsList(peers[Registry])
  BY RegistryList DEF DiscoveryInv, DiscoveryTypeOK
<1>2. UNCHANGED <<up, address, registered, registration, beat, faults>>
  BY DEF SyncStep, SyncTick, SyncAnswered
<1>3. ListsKept
  <2>1. CASE SyncTick(c, s)
    BY <2>1, NothingListed DEF SyncTick, ListsKept
  <2>2. CASE SyncAnswered(c, s)
    <3>1. IsList(sync[c][s].list) /\ MergePeers(c, sync[c][s].list)
      BY <1>1, <2>2 DEF SyncAnswered, RequestsOK
    <3> QED
      BY <1>1, <3>1, MergeStep DEF ListsKept
  <2> QED
    BY <2>1, <2>2 DEF SyncStep
<1>4. \/ sync' = [sync EXCEPT ![c][s] = Nothing]
      \/ sync' = [sync EXCEPT ![c][s] = [list |-> peers[Registry]]]
  BY DEF SyncStep, SyncTick, SyncAnswered
<1>5. DOMAIN sync' = Clients /\ \A d \in Clients : DOMAIN sync'[d] = Syncs
  BY <1>1, <1>4 DEF RequestsOK
<1>6. ASSUME NEW d \in Clients, NEW t \in Syncs, sync'[d][t] # Nothing
      PROVE  DOMAIN sync'[d][t] = {"list"} /\ IsList(sync'[d][t].list)
  <2>1. CASE sync'[d][t] = sync[d][t]
    BY <1>1, <1>6, <2>1 DEF RequestsOK
  <2>2. CASE sync'[d][t] = [list |-> peers[Registry]]
    BY <1>1, <2>2
  <2>3. d # c \/ t # s => sync'[d][t] = sync[d][t]
    BY <1>1, <1>4 DEF RequestsOK
  <2>4. d = c /\ t = s => sync'[d][t] \in {Nothing, [list |-> peers[Registry]]}
    BY <1>1, <1>4 DEF RequestsOK
  <2> QED
    BY <1>6, <2>1, <2>2, <2>3, <2>4
<1>7. RequestsOK'
  BY <1>1, <1>2, <1>5, <1>6 DEF RequestsOK, IsList
<1> QED
  BY <1>2, <1>3, <1>7 DEF DiscoveryInv, DiscoveryTypeOK, ListsKept

-----------------------------------------------------------------------------
(* Faults, stops, starts and the uplink                                     *)

LEMMA FaultTypes ==
  ASSUME DiscoveryInv, Fault \/ UNCHANGED faults
  PROVE  faults' \in 0 .. MaxFaults
BY DiscoveryAssumption DEF DiscoveryInv, DiscoveryTypeOK, Fault

LEMMA TickStep ==
  ASSUME DiscoveryInv, NEW c \in Clients, TickMaintenance(c)
  PROVE  DiscoveryInv'
<1>1. UNCHANGED <<up, address, requests>> /\ faults' \in 0 .. MaxFaults
  BY FaultTypes DEF TickMaintenance
<1>2. RequestsOK'
  BY <1>1 DEF DiscoveryInv, DiscoveryTypeOK, RequestsOK, IsList, requests
<1> QED
  BY <1>1, <1>2, MaintenanceStep DEF DiscoveryInv, DiscoveryTypeOK

LEMMA StopStep ==
  ASSUME DiscoveryInv, NEW n \in Nodes, Stop(n)
  PROVE  DiscoveryInv'
<1>1. RequestsOK /\ up \subseteq Nodes /\ address \in [Nodes -> Address]
  BY DEF DiscoveryInv, DiscoveryTypeOK
<1>2. up' \subseteq Nodes /\ faults' \in 0 .. MaxFaults
  BY <1>1, FaultTypes DEF Stop
<1>3. address' \in [Nodes -> Address]
  BY <1>1, AddressFacts DEF Stop, Forget
<1>4. ListsKept
  <2>1. SelfRecord(Unstarted) \in Peer
    BY AddressFacts, StatusFacts DEF SelfRecord, Peer
  <2> QED
    BY <2>1, AloneStep DEF Stop, Forget, ListsKept
<1>5. RequestsOK'
  <2>1. registered' \subseteq Nodes
    BY <1>1 DEF Stop, Forget, RequestsOK
  <2>2. CASE n = Registry
    BY <1>1, <2>1, <2>2 DEF Stop, Forget, RequestsOK, IsList
  <2>3. CASE n # Registry
    <3>1. /\ registration' = [registration EXCEPT ![n] = Nothing]
          /\ beat' = [beat EXCEPT ![n] = [b \in Beats |-> Idle]]
          /\ sync' = [sync EXCEPT ![n] = [s \in Syncs |-> Nothing]]
      BY <2>3 DEF Stop, Forget
    <3>2. registration' \in [Clients -> {Nothing, "accepted", "conflict"}]
      BY <1>1, <3>1 DEF RequestsOK
    <3>3. beat' \in [Clients -> [Beats -> BeatState]]
      BY <1>1, <3>1, IdleBeat DEF RequestsOK
    <3>4. /\ DOMAIN sync' = Clients
          /\ \A d \in Clients : DOMAIN sync'[d] = Syncs
          /\ \A d \in Clients, s \in Syncs : sync'[d][s] # Nothing => sync'[d][s] = sync[d][s]
      BY <1>1, <3>1 DEF RequestsOK
    <3> QED
      BY <1>1, <2>1, <3>2, <3>3, <3>4 DEF RequestsOK, IsList
  <2> QED
    BY <2>2, <2>3
<1> QED
  BY <1>2, <1>3, <1>4, <1>5 DEF DiscoveryInv, DiscoveryTypeOK, ListsKept

LEMMA StartStep ==
  ASSUME DiscoveryInv, NEW n \in Nodes, Start(n)
  PROVE  DiscoveryInv'
<1>1. RequestsOK /\ up \subseteq Nodes /\ address \in [Nodes -> Address]
  BY DEF DiscoveryInv, DiscoveryTypeOK
<1>2. PICK p \in Ports \cup {0} :
        LET self == SelfRecord([host |-> Loopback, port |-> p])
        IN  /\ address' = [address EXCEPT ![n] = self.addr]
            /\ peers' = [peers EXCEPT ![n] = Only(n, self)]
            /\ directory' = [directory EXCEPT ![n] = Only(n, Entry(self))]
  BY DEF Start, FreePorts
<1> DEFINE self == SelfRecord([host |-> Loopback, port |-> p])
<1>3. self \in Peer /\ self.addr \in Address
  BY StatusFacts DEF SelfRecord, Peer, Address, Hosts
<1>4. /\ address' = [address EXCEPT ![n] = self.addr]
      /\ peers' = [peers EXCEPT ![n] = Only(n, self)]
      /\ directory' = [directory EXCEPT ![n] = Only(n, Entry(self))]
  BY <1>2
<1> HIDE DEF self
<1>5. ListsKept
  BY <1>3, <1>4, AloneStep DEF ListsKept
<1>6. RequestsOK'
  BY <1>1 DEF Start, RequestsOK, IsList, requests
<1>7. up' \subseteq Nodes /\ address' \in [Nodes -> Address] /\ faults' = faults
  BY <1>1, <1>3, <1>4 DEF Start
<1> QED
  BY <1>5, <1>6, <1>7 DEF DiscoveryInv, DiscoveryTypeOK, ListsKept

LEMMA ResolveStep ==
  ASSUME DiscoveryInv, NEW c \in Followers, NEW h \in Nodes, ResolveUplink(c, h)
  PROVE  DiscoveryInv'
<1>1. UNCHANGED <<up, address, requests>> /\ faults' \in 0 .. MaxFaults
  BY FaultTypes DEF ResolveUplink
<1>2. RequestsOK'
  BY <1>1 DEF DiscoveryInv, DiscoveryTypeOK, RequestsOK, IsList, requests
<1> QED
  BY <1>1, <1>2, UplinkStep DEF DiscoveryInv, DiscoveryTypeOK

-----------------------------------------------------------------------------
LEMMA DiscoveryInitInv == Init => DiscoveryInv
<1> SUFFICES ASSUME Init PROVE DiscoveryInv
  OBVIOUS
<1>1. SelfRecord(Unstarted) \in Peer /\ Unstarted \in Address
  BY AddressFacts, StatusFacts DEF SelfRecord, Peer
<1>2. ASSUME NEW n \in Nodes
      PROVE  /\ peers[n] = Only(n, SelfRecord(Unstarted))
             /\ directory[n] = Only(n, Entry(SelfRecord(Unstarted)))
  BY DEF Init, Only
<1>3. ASSUME NEW n \in Nodes
      PROVE  /\ DOMAIN peers[n] = {n} /\ IsList(peers[n])
             /\ DOMAIN directory[n] = {n} /\ IsDirectory(directory[n])
  <2>1. Entry(SelfRecord(Unstarted)) \in Route
    BY <1>1 DEF Entry, Route, Peer
  <2>2. \A v : Only(n, v) = [m \in {n} |-> v]
    BY DEF Only
  <2> QED
    BY <1>1, <1>2, <2>1, <2>2 DEF IsList, IsDirectory
<1>4. ListsOK
  BY <1>3 DEF ListsOK, Init
<1>5. RequestsOK
  BY IdleBeat DEF Init, RequestsOK
<1>6. FollowsInv
  BY <1>3 DEF FollowsInv, Follows
<1> QED
  BY <1>1, <1>4, <1>5, <1>6, DiscoveryAssumption DEF Init, DiscoveryInv, DiscoveryTypeOK

LEMMA DiscoveryInvStep == DiscoveryInv /\ [Next]_vars => DiscoveryInv'
<1> SUFFICES ASSUME DiscoveryInv, [Next]_vars PROVE DiscoveryInv'
  OBVIOUS
<1>1. CASE UNCHANGED vars
  BY <1>1 DEF vars, DiscoveryInv, DiscoveryTypeOK, ListsOK, RequestsOK, FollowsInv, Follows,
              IsList, IsDirectory
<1> QED
  BY <1>1, TickStep, RegistrationStep, BeatStepKeeps, SyncStepKeeps, StopStep, StartStep,
     ResolveStep
     DEF Next

THEOREM DiscoveryInvariance == Spec => []DiscoveryInv
BY DiscoveryInitInv, DiscoveryInvStep, PTL DEF Spec

(* Every node's list of peers and directory are about nodes, itself among   *)
(* them, with addresses of the nodes' machines and configured statuses.     *)
THEOREM DiscoveryTypeCorrect == Spec => []DiscoveryTypeOK
<1>1. DiscoveryInv => DiscoveryTypeOK
  BY DEF DiscoveryInv
<1> QED
  BY <1>1, DiscoveryInvariance, PTL

(* A node is placed, or known, by what the directory says of it.            *)
LEMMA PlacedByPeers ==
  ASSUME DiscoveryInv, NEW n \in up,
         NEW home \in Nodes \cup {Nothing} \cup UNION {CatalogIds(n, m) : m \in up \ {n}}
  PROVE  LET node == Placement(n, home) IN
         /\ node \in Nodes \ {n} =>
              \/ directory[n][node].addr = RegistryUrl
              \/ node \in DOMAIN peers[n] /\ peers[n][node].status = "ready"
         /\ node = "unknown" /\ home # "typed" => home \notin DOMAIN peers[n]
<1> DEFINE node == Placement(n, home)
<1>1. /\ n \in Nodes /\ n \in DOMAIN directory[n]
      /\ DOMAIN peers[n] \subseteq Nodes /\ DOMAIN directory[n] \subseteq Nodes
  BY DEF DiscoveryInv, DiscoveryTypeOK, ListsOK, IsList, IsDirectory
<1>2. Nothing \notin Nodes /\ "unknown" \notin Nodes /\ "unavailable" \notin Nodes
  BY DiscoveryAssumption
<1>3. home \in Nodes \/ home = Nothing \/ home = "typed"
  BY <1>1 DEF CatalogIds, PeersAt
<1>4. ASSUME NEW m \in Nodes \ {n}
      PROVE  Follows(n, m)
  BY <1>1 DEF DiscoveryInv, FollowsInv
<1>5. CASE home = Nothing
  BY <1>1, <1>2, <1>5 DEF Placement
<1>6. CASE home # Nothing /\ home \notin DOMAIN directory[n]
  <2>1. node = "unknown"
    BY <1>6 DEF Placement
  <2>2. home \in Nodes => home \notin DOMAIN peers[n]
    BY <1>1, <1>4, <1>6 DEF Follows
  <2> QED
    BY <1>1, <1>2, <1>3, <1>6, <2>1, <2>2
<1>7. CASE home # Nothing /\ home \in DOMAIN directory[n]
  <2>1. node = IF directory[n][home].healthy THEN home ELSE "unavailable"
    BY <1>7 DEF Placement
  <2>2. node # "unknown"
    BY <1>1, <1>2, <1>7, <2>1
  <2>3. ASSUME node \in Nodes \ {n}
        PROVE  \/ directory[n][node].addr = RegistryUrl
               \/ node \in DOMAIN peers[n] /\ peers[n][node].status = "ready"
    <3>1. node = home /\ directory[n][home].healthy
      BY <1>2, <2>1, <2>3
    <3> QED
      <4>1. Follows(n, home)
        BY <1>4, <2>3, <3>1
      <4>2. CASE home \in DOMAIN peers[n] /\ directory[n][home] = Entry(peers[n][home])
        <5>1. directory[n][home].healthy = (peers[n][home].status = "ready")
          BY <4>2 DEF Entry
        <5> QED
          BY <3>1, <4>2, <5>1
      <4>3. CASE directory[n][home].addr = RegistryUrl
        BY <3>1, <4>3
      <4> QED
        BY <1>7, <4>1, <4>2, <4>3 DEF Follows
  <2> QED
    BY <2>2, <2>3
<1> QED
  BY <1>5, <1>6, <1>7

(* The directory of a running node follows its peers, except where the      *)
(* uplink put the registry's URL, and so does the placement of members      *)
(* (RoutesFollowPeers).                                                     *)
THEOREM DirectoryFollowsPeers == Spec => []RoutesFollowPeers
<1>1. ASSUME DiscoveryInv PROVE RoutesFollowPeers
  <2>1. ASSUME NEW n \in up, NEW m \in Nodes \ {n}
        PROVE  Follows(n, m)
    BY <1>1 DEF DiscoveryInv, DiscoveryTypeOK, FollowsInv
  <2> QED
    BY <1>1, <2>1, PlacedByPeers DEF RoutesFollowPeers, Follows
<1> QED
  BY <1>1, DiscoveryInvariance, PTL

-----------------------------------------------------------------------------
(* The synchronisation: the kinds of its variables                          *)

NamedAgent == [name : Agents, row : AgentRow]
NamedTeam == [name : Teams, row : TeamRow]
NamedServer == [name : Servers, row : ServerRow]
BundleKind == [prompts : SUBSET Prompt, agents : SUBSET NamedAgent,
               teams : SUBSET NamedTeam, servers : SUBSET NamedServer]
ChosenKind == [teams : SUBSET Teams, agents : SUBSET Agents, families : SUBSET Families]
RunStages == {"idle", "health", "select", "exportPrompts", "exportAgents", "exportTeams",
              "next", "waiting", "ended"}
RunKind ==
  [no : 0 .. MaxRuns, at : RunStages, plan : Plans \cup {None}, chosen : ChosenKind \cup {None},
   bundle : BundleKind, left : Seq(Targets), target : Targets \cup {None},
   status : {None, "success", "partial-success", "failed"}, results : [Targets -> {None, "success", "failed"}]]
SeenPrompt == [id : Nat, family : Families, version : Nat]
JobKind ==
  [at : Kinds \cup {"none", "done"}, listed : BOOLEAN,
   left : SUBSET (Prompt \cup NamedAgent \cup NamedTeam \cup NamedServer),
   existing : SUBSET (SeenPrompt \cup Agents \cup Teams \cup Servers), bundle : BundleKind,
   policy : {None, "source_wins", "target_wins"}, scope : SUBSET Kinds, failures : SUBSET (Kinds \cup {"thrown"})]

SyncTypeOK ==
  /\ prompts \in [SyncNodes -> SUBSET Prompt]
  /\ agents \in [SyncNodes -> [Agents -> AgentRow \cup {None}]]
  /\ teams \in [SyncNodes -> [Teams -> TeamRow \cup {None}]]
  /\ servers \in [SyncNodes -> [Servers -> ServerRow \cup {None}]]
  /\ lastId \in [SyncNodes -> Nat]
  /\ run \in RunKind
  /\ job \in [RunIds -> [Targets -> JobKind]]
  /\ edits \in Nat /\ mishaps \in Nat /\ edited \subseteq SyncNodes

-----------------------------------------------------------------------------
(* The synchronisation: its inductive invariant                             *)

PromptsNumbered == \A n \in SyncNodes : Numbered(prompts[n], lastId[n]) /\ OneActive(prompts[n])

FamiliesHavePrompts ==
  \A n \in SyncNodes : \A a \in Agents :
    agents[n][a] # None =>
      (\E p \in prompts[n] : p.family = agents[n][a].family) \/ <<n, agents[n][a].family>> \in emptied

(* the run and its bundle                                                   *)
Exporting == {"exportPrompts", "exportAgents", "exportTeams"}
Importing == {"next", "waiting", "ended"}
RunFollowsPlan ==
  /\ run.at = "idle" => run.no = 0
  /\ run.at # "idle" => run.no \in RunIds /\ run.plan \in Plans
  /\ run.at \notin {"idle", "ended"} => Distinct(run.plan)

BundleIsOnePerName ==
  /\ \A p, q \in run.bundle.prompts : p.family = q.family /\ p.version = q.version => p = q
  /\ OneActive(run.bundle.prompts)
  /\ \A d, e \in run.bundle.agents : d.name = e.name => d = e
  /\ \A d, e \in run.bundle.teams : d.name = e.name => d = e
  /\ \A d, e \in run.bundle.servers : d.name = e.name => d = e
  /\ run.at # "idle" =>
       /\ "prompt" \notin run.plan.scope => run.bundle.prompts = {}
       /\ "agent" \notin run.plan.scope => run.bundle.agents = {}
       /\ "team" \notin run.plan.scope => run.bundle.teams = {}
       /\ "server" \notin run.plan.scope => run.bundle.servers = {}

(* what was chosen with its dependencies is closed, and exported wholly     *)
WithDependencies ==
  /\ Source \notin edited /\ run.at \in Exporting \cup {"next", "waiting"}
  /\ run.plan.selection # None /\ run.plan.selection.dependencies /\ run.plan.scope = Kinds
ChosenIsClosed ==
  WithDependencies =>
    /\ run.chosen \in ChosenKind
    /\ \A t \in run.chosen.teams : /\ teams[Source][t] # None
                                   /\ teams[Source][t].teams \subseteq run.chosen.teams
                                   /\ teams[Source][t].agents \subseteq run.chosen.agents
    /\ \A a \in run.chosen.agents : agents[Source][a] # None /\ agents[Source][a].family \in run.chosen.families
ExportIsClosed ==
  WithDependencies =>
    /\ run.at # "exportPrompts" =>
         \A a \in run.chosen.agents : \/ \E p \in run.bundle.prompts : p.family = agents[Source][a].family
                                      \/ <<Source, agents[Source][a].family>> \in emptied
    /\ run.at \notin {"exportPrompts", "exportAgents"} =>
         /\ run.chosen.agents \subseteq Named(run.bundle.agents)
         /\ \A e \in run.bundle.agents : \/ \E p \in run.bundle.prompts : p.family = e.row.family
                                         \/ <<Source, e.row.family>> \in emptied
    /\ run.at \in {"next", "waiting"} =>
         \A e \in run.bundle.teams : /\ e.row.agents \subseteq Named(run.bundle.agents)
                                     /\ e.row.teams \subseteq Named(run.bundle.teams)

(* the imports of the runs                                                  *)
TargetsInTurn ==
  /\ run.at \in {"next", "waiting"} =>
       /\ \A i, k \in DOMAIN run.left : run.left[i] = run.left[k] => i = k
       /\ \A i \in DOMAIN run.left : /\ run.results[run.left[i]] = None
                                     /\ job[run.no][run.left[i]].at = "none"
                                     /\ run.at = "waiting" => run.left[i] # run.target
  /\ run.at = "waiting" => run.target \in Targets /\ run.results[run.target] = None
  /\ run.at \notin Importing => run.status = None /\ \A t \in Targets : run.results[t] = None
  /\ run.status = "success" =>
       run.at = "ended" /\ \A t \in TargetsOf(run.plan) : t \in Targets /\ run.results[t] = "success"

JobsFollowRuns ==
  \A r \in RunIds, t \in Targets :
    /\ r > run.no => job[r][t].at = "none"
    /\ r < run.no /\ t \notin edited => job[r][t].at \in {"none", "done"}
    /\ r = run.no /\ job[r][t].at # "none" =>
         /\ run.at \in Importing
         /\ job[r][t].bundle = run.bundle /\ job[r][t].policy = run.plan.policy
         /\ job[r][t].scope = run.plan.scope
    /\ r = run.no /\ run.results[t] = "success" => job[r][t].at = "done" /\ job[r][t].failures = {}

(* the rest of the kind at hand, and the prompts seen, by their numbers     *)
Whole(j, P, last) ==
  /\ ~j.listed => j.left = {} /\ j.existing = {}
  /\ j.listed => j.at \in Kinds
  /\ j.at \in Kinds => j.left \subseteq Incoming(j)
  /\ j.at = "prompt" =>
       /\ j.existing \subseteq SeenPrompt
       /\ \A e \in j.existing : e.id <= last
       /\ \A d, e \in j.existing : d.id = e.id => d = e
       /\ \A e \in j.existing, p \in P : p.id = e.id => p.family = e.family /\ p.version = e.version
JobsAreWhole == \A r \in RunIds, t \in Targets : Whole(job[r][t], prompts[t], lastId[t])

(* what an import without failures has handled is there                     *)
Past == [prompt |-> {"agent", "team", "server", "done"}, agent |-> {"team", "server", "done"},
         team |-> {"server", "done"}, server |-> {"done"}]
Handled(j, kind, e) == j.at \in Past[kind] \/ (j.at = kind /\ j.listed /\ e \notin j.left)

(* no prompt that is still to come is taken for the one that was activated  *)
Landed(j, P, p) ==
  \E u \in P :
    /\ u.family = p.family /\ u.active /\ u.text = p.text
    /\ j.at = "prompt" => \A e \in j.existing : e.id = u.id => e.version = p.version

AgentLanded(A, e) ==
  A[e.name] # None /\ A[e.name].text = e.row.text /\ e.row.family \in {None, A[e.name].family}

Delivered(j, P, A, T, S) ==
  /\ \A p \in j.bundle.prompts : p.active /\ Handled(j, "prompt", p) => Landed(j, P, p)
  /\ \A e \in j.bundle.agents : Handled(j, "agent", e) => AgentLanded(A, e)
  /\ \A e \in j.bundle.teams : Handled(j, "team", e) => T[e.name] = e.row
  /\ \A e \in j.bundle.servers : Handled(j, "server", e) => S[e.name] = e.row

HandledIsThere ==
  \A t \in Targets \ edited :
    LET j == job[run.no][t]
    IN  run.no \in RunIds /\ j.at # "none" /\ j.failures = {} /\ j.policy = "source_wins" =>
          Delivered(j, prompts[t], agents[t], teams[t], servers[t])

SyncInv ==
  /\ SyncTypeOK /\ PromptsNumbered /\ FamiliesHavePrompts /\ RunFollowsPlan /\ BundleIsOnePerName
  /\ ChosenIsClosed /\ ExportIsClosed /\ TargetsInTurn /\ JobsFollowRuns /\ JobsAreWhole /\ HandledIsThere

-----------------------------------------------------------------------------
(* The synchronisation: prompts                                             *)

(* A bounded set of versions has a largest one.                             *)
LEMMA LargestIsMaximum ==
  ASSUME NEW k \in Nat, NEW S \in SUBSET (0 .. k)
  PROVE  Largest(S) \in 0 .. k /\ \A v \in S : v <= Largest(S)
<1> DEFINE T == {k - v : v \in S \cup {0}}
<1>1. T \in SUBSET Nat /\ T # {}
  <2>1. \A v \in S \cup {0} : v \in Nat /\ k - v \in Nat
    OBVIOUS
  <2> QED
    BY <2>1
<1>2. IsWellFoundedOn(OpToRel(<, Nat), Nat)
  BY NatLessThanWellFounded
<1>3. PICK m \in T : \A n \in T : ~(<<n, m>> \in OpToRel(<, Nat))
  BY <1>1, <1>2, WFMin
<1>4. \A n \in T : ~(n < m)
  BY <1>1, <1>3 DEF OpToRel
<1>5. PICK v \in S \cup {0} : m = k - v
  OBVIOUS
<1>6. \A w \in S : v >= w
  <2> SUFFICES ASSUME NEW w \in S
               PROVE  v >= w
    OBVIOUS
  <2>1. ~(k - w < k - v)
    BY <1>4, <1>5
  <2> QED
    BY <2>1
<1>7. \E x \in S \cup {0} : \A w \in S : x >= w
  BY <1>6
<1>8. Largest(S) \in S \cup {0} /\ \A w \in S : Largest(S) >= w
  BY <1>7, Zenon DEF Largest
<1>9. ASSUME NEW y \in S \cup {0}, \A w \in S : y >= w
      PROVE  y \in 0 .. k /\ \A w \in S : w <= y
  BY <1>9
<1> QED
  BY <1>8, <1>9

LEMMA NewPromptIsNext ==
  ASSUME SyncTypeOK, NEW n \in SyncNodes, Numbered(prompts[n], lastId[n]), OneActive(prompts[n]),
         NEW f \in Families, NEW x \in Texts
  PROVE  LET new == NewPrompt(n, f, x)
             P == prompts[n] \cup {new}
         IN  /\ new \in Prompt /\ new.id = lastId[n] + 1 /\ new.family = f /\ new.text = x
             /\ new.active <=> \A p \in prompts[n] : p.family # f
             /\ Numbered(P, lastId[n] + 1) /\ OneActive(P)
<1> DEFINE new == NewPrompt(n, f, x)
           S == {p.version : p \in FamilyOf(n, f)}
<1>1. prompts[n] \subseteq Prompt /\ lastId[n] \in Nat
  BY DEF SyncTypeOK
<1>2. S \in SUBSET (0 .. lastId[n])
  BY <1>1 DEF Numbered, FamilyOf, Prompt
<1> DEFINE top == Largest(S)
<1>3. top \in 0 .. lastId[n] /\ \A v \in S : v <= top
  BY <1>1, <1>2, LargestIsMaximum
<1>4. /\ new.id = lastId[n] + 1 /\ new.family = f /\ new.text = x /\ new.version = top + 1
      /\ new.active = (FamilyOf(n, f) = {})
      /\ new = [id |-> lastId[n] + 1, family |-> f, text |-> x, active |-> FamilyOf(n, f) = {}, version |-> top + 1]
  BY DEF NewPrompt
<1> HIDE DEF top, new
<1>5. new \in Prompt
  BY <1>1, <1>3, <1>4 DEF Prompt
<1>6. new.active <=> \A p \in prompts[n] : p.family # f
  BY <1>4 DEF FamilyOf
<1>7. \A p \in prompts[n] : p.id # new.id /\ (p.family = f => p.version # new.version)
  <2> SUFFICES ASSUME NEW p \in prompts[n]
               PROVE  p.id # new.id /\ (p.family = f => p.version # new.version)
    OBVIOUS
  <2>1. p.id \in Nat /\ p.version \in Nat /\ p.id <= lastId[n]
    BY <1>1 DEF Numbered
  <2>2. p.family = f => p.version <= top
    BY <1>3 DEF FamilyOf
  <2> QED
    BY <1>1, <1>3, <1>4, <2>1, <2>2
<1>8. Numbered(prompts[n] \cup {new}, lastId[n] + 1)
  BY <1>1, <1>3, <1>4, <1>7 DEF Numbered, Prompt
<1>9. OneActive(prompts[n] \cup {new})
  BY <1>4, <1>6 DEF OneActive
<1> QED
  BY <1>4, <1>5, <1>6, <1>8, <1>9 DEF new

LEMMA ActivatedPrompt ==
  ASSUME NEW p \in Prompt, NEW b \in BOOLEAN
  PROVE  LET q == [p EXCEPT !.active = b]
         IN  /\ q \in Prompt /\ (q.active <=> b)
             /\ q.id = p.id /\ q.family = p.family /\ q.version = p.version /\ q.text = p.text
BY DEF Prompt

(* Activating a prompt renumbers nothing and leaves other families alone.   *)
LEMMA ActivatingKeeps ==
  ASSUME NEW P \in SUBSET Prompt, NEW k \in Nat, Numbered(P, k), OneActive(P),
         NEW c, c.id \in Nat, c.family \in Families
  PROVE  LET Q == WithActive(P, c)
         IN  /\ Q \in SUBSET Prompt /\ Numbered(Q, k) /\ OneActive(Q)
             /\ \A p \in P : \E q \in Q :
                  /\ q.id = p.id /\ q.family = p.family /\ q.version = p.version /\ q.text = p.text
                  /\ p.family # c.family => (q.active <=> p.active)
                  /\ p.family = c.family => (q.active <=> p.id = c.id)
             /\ \A q \in Q : \E p \in P :
                  /\ q.id = p.id /\ q.family = p.family /\ q.version = p.version /\ q.text = p.text
                  /\ p.family # c.family => (q.active <=> p.active)
                  /\ p.family = c.family => (q.active <=> p.id = c.id)
<1> DEFINE Q == WithActive(P, c)
           set(p) == IF p.family = c.family THEN [p EXCEPT !.active = p.id = c.id] ELSE p
           Same(q, p) == /\ q.id = p.id /\ q.family = p.family /\ q.version = p.version /\ q.text = p.text
                         /\ p.family # c.family => (q.active <=> p.active)
                         /\ p.family = c.family => (q.active <=> p.id = c.id)
<1>1. Q = {set(p) : p \in P}
  BY DEF WithActive
<1>2. ASSUME NEW p \in P
      PROVE  set(p) \in Prompt /\ Same(set(p), p)
  <2> DEFINE b == p.id = c.id
  <2>1. b \in BOOLEAN /\ set(p) = IF p.family = c.family THEN [p EXCEPT !.active = b] ELSE p
    OBVIOUS
  <2>2. Same(set(p), p) <=>
          /\ set(p).id = p.id /\ set(p).family = p.family /\ set(p).version = p.version /\ set(p).text = p.text
          /\ p.family # c.family => (set(p).active <=> p.active)
          /\ p.family = c.family => (set(p).active <=> b)
    OBVIOUS
  <2> HIDE DEF b, set, Same
  <2> QED
    BY <2>1, <2>2, ActivatedPrompt
<1> HIDE DEF set
<1>3. \A p \in P : \E q \in Q : Same(q, p)
  BY <1>1, <1>2
<1>4. \A q \in Q : \E p \in P : q = set(p) /\ Same(q, p)
  BY <1>1, <1>2
<1>5. Q \in SUBSET Prompt
  BY <1>1, <1>2
<1> HIDE DEF set, Q
<1>6. Numbered(Q, k)
  <2>1. \A q \in Q : q.id \in 1 .. k /\ q.version \in 1 .. k
    BY <1>4 DEF Numbered
  <2>2. ASSUME NEW q1 \in Q, NEW q2 \in Q, q1.id = q2.id \/ (q1.family = q2.family /\ q1.version = q2.version)
        PROVE  q1 = q2
    <3>1. PICK p1 \in P : q1 = set(p1) /\ Same(q1, p1)
      BY <1>4
    <3>2. PICK p2 \in P : q2 = set(p2) /\ Same(q2, p2)
      BY <1>4
    <3>3. p1 = p2
      BY <2>2, <3>1, <3>2 DEF Numbered
    <3> QED
      BY <3>1, <3>2, <3>3
  <2> QED
    BY <2>1, <2>2 DEF Numbered
<1>7. OneActive(Q)
  <2> SUFFICES ASSUME NEW q1 \in Q, NEW q2 \in Q, q1.family = q2.family, q1.active, q2.active
               PROVE  q1 = q2
    BY DEF OneActive
  <2>1. PICK p1 \in P : q1 = set(p1) /\ Same(q1, p1)
    BY <1>4
  <2>2. PICK p2 \in P : q2 = set(p2) /\ Same(q2, p2)
    BY <1>4
  <2>3. p1 = p2
    BY <2>1, <2>2 DEF OneActive, Numbered
  <2> QED
    BY <2>1, <2>2, <2>3
<1> QED
  BY <1>3, <1>4, <1>5, <1>6, <1>7 DEF Q

(* So does a new text for a prompt.                                         *)
Reworded(P, i, x) == {IF q \in {p \in P : p.id = i} THEN [q EXCEPT !.text = x] ELSE q : q \in P}

LEMMA RewordingKeeps ==
  ASSUME NEW P \in SUBSET Prompt, NEW k \in Nat, Numbered(P, k), OneActive(P),
         NEW i, NEW x \in Texts
  PROVE  LET Q == Reworded(P, i, x)
         IN  /\ Q \in SUBSET Prompt /\ Numbered(Q, k) /\ OneActive(Q)
             /\ \A p \in P : \E q \in Q :
                  /\ q.id = p.id /\ q.family = p.family /\ q.version = p.version /\ q.active = p.active
                  /\ q.text = IF p.id = i THEN x ELSE p.text
             /\ \A q \in Q : \E p \in P :
                  /\ q.id = p.id /\ q.family = p.family /\ q.version = p.version /\ q.active = p.active
                  /\ q.text = IF p.id = i THEN x ELSE p.text
<1> DEFINE Q == Reworded(P, i, x)
           set(p) == IF p.id = i THEN [p EXCEPT !.text = x] ELSE p
           Same(q, p) == /\ q.id = p.id /\ q.family = p.family /\ q.version = p.version /\ q.active = p.active
                         /\ q.text = IF p.id = i THEN x ELSE p.text
<1>1. Q = {set(p) : p \in P}
  BY DEF Reworded
<1>2. \A p \in P : set(p) \in Prompt /\ Same(set(p), p)
  BY DEF Prompt
<1>3. \A p \in P : \E q \in Q : Same(q, p)
  BY <1>1, <1>2
<1>4. \A q \in Q : \E p \in P : q = set(p) /\ Same(q, p)
  BY <1>1, <1>2
<1>5. Q \in SUBSET Prompt
  BY <1>1, <1>2
<1> HIDE DEF set, Q
<1>6. Numbered(Q, k)
  <2>1. \A q \in Q : q.id \in 1 .. k /\ q.version \in 1 .. k
    BY <1>4 DEF Numbered
  <2>2. ASSUME NEW q1 \in Q, NEW q2 \in Q, q1.id = q2.id \/ (q1.family = q2.family /\ q1.version = q2.version)
        PROVE  q1 = q2
    <3>1. PICK p1 \in P : q1 = set(p1) /\ Same(q1, p1)
      BY <1>4
    <3>2. PICK p2 \in P : q2 = set(p2) /\ Same(q2, p2)
      BY <1>4
    <3>3. p1 = p2
      BY <2>2, <3>1, <3>2 DEF Numbered
    <3> QED
      BY <3>1, <3>2, <3>3
  <2> QED
    BY <2>1, <2>2 DEF Numbered
<1>7. OneActive(Q)
  <2> SUFFICES ASSUME NEW q1 \in Q, NEW q2 \in Q, q1.family = q2.family, q1.active, q2.active
               PROVE  q1 = q2
    BY DEF OneActive
  <2>1. PICK p1 \in P : q1 = set(p1) /\ Same(q1, p1)
    BY <1>4
  <2>2. PICK p2 \in P : q2 = set(p2) /\ Same(q2, p2)
    BY <1>4
  <2>3. p1 = p2
    BY <2>1, <2>2 DEF OneActive
  <2> QED
    BY <2>1, <2>2, <2>3
<1> QED
  BY <1>3, <1>4, <1>5, <1>6, <1>7 DEF Q

-----------------------------------------------------------------------------
(* The synchronisation: what an import does to its job                      *)

SameRequest(j, k) == k.bundle = j.bundle /\ k.policy = j.policy /\ k.scope = j.scope

(* one entity is dealt with; after the last of its kind the next kind is on *)
Moves(j, k, e) ==
  /\ SameRequest(j, k)
  /\ \/ k.at = j.at /\ k.listed /\ k.left = j.left \ {e} /\ k.existing = j.existing
     \/ j.left \subseteq {e} /\ k.at = After[j.at] /\ ~k.listed /\ k.left = {} /\ k.existing = {}

LEMMA OnwardIsJob ==
  ASSUME NEW j \in JobKind, j.at \in Kinds
  PROVE  /\ Onward(j) \in JobKind /\ SameRequest(j, Onward(j)) /\ Onward(j).failures = j.failures
         /\ j.left # {} => Onward(j) = j
         /\ j.left = {} => /\ Onward(j).at = After[j.at] /\ ~Onward(j).listed
                           /\ Onward(j).left = {} /\ Onward(j).existing = {}
<1>1. After[j.at] \in Kinds \cup {"none", "done"}
  BY DEF After, Kinds
<1> QED
  BY <1>1 DEF Onward, JobKind, SameRequest

(* what an import puts into its job reaches no other                        *)
JobPut(r, t, j) ==
  /\ job' \in [RunIds -> [Targets -> JobKind]] /\ job'[r][t] = j
  /\ \A r2 \in RunIds, t2 \in Targets : r2 # r \/ t2 # t => job'[r2][t2] = job[r2][t2]

LEMMA PutIsLocal ==
  ASSUME SyncTypeOK, NEW r \in RunIds, NEW t \in Targets, NEW j \in JobKind, job' = [job EXCEPT ![r][t] = j]
  PROVE  JobPut(r, t, j)
<1>1. job \in [RunIds -> [Targets -> JobKind]]
  BY DEF SyncTypeOK
<1>2. job' = [job EXCEPT ![r] = [job[r] EXCEPT ![t] = j]]
  OBVIOUS
<1>3. [job[r] EXCEPT ![t] = j] \in [Targets -> JobKind]
  BY <1>1
<1> QED
  BY <1>1, <1>2, <1>3 DEF JobPut

JobMoved(r, t, e) ==
  /\ job' \in [RunIds -> [Targets -> JobKind]]
  /\ \A r2 \in RunIds, t2 \in Targets : r2 # r \/ t2 # t => job'[r2][t2] = job[r2][t2]
  /\ Moves(job[r][t], job'[r][t], e)

LEMMA PutMoves ==
  ASSUME SyncTypeOK, NEW r \in RunIds, NEW t \in Targets, job[r][t].at \in Kinds, job[r][t].listed, NEW e,
         NEW k \in JobKind, PutJob(r, t, k), SameRequest(job[r][t], k), k.at = job[r][t].at,
         k.listed = job[r][t].listed, k.existing = job[r][t].existing, k.left = job[r][t].left \ {e}
  PROVE  JobMoved(r, t, e) /\ job'[r][t].failures = k.failures
<1>1. /\ Onward(k) \in JobKind /\ SameRequest(k, Onward(k)) /\ Onward(k).failures = k.failures
      /\ k.left # {} => Onward(k) = k
      /\ k.left = {} => /\ Onward(k).at = After[k.at] /\ ~Onward(k).listed
                        /\ Onward(k).left = {} /\ Onward(k).existing = {}
  BY OnwardIsJob
<1>2. /\ job' \in [RunIds -> [Targets -> JobKind]] /\ job'[r][t] = Onward(k)
      /\ \A r2 \in RunIds, t2 \in Targets : r2 # r \/ t2 # t => job'[r2][t2] = job[r2][t2]
  <2>1. PICK i \in JobKind : i = Onward(k)
    BY <1>1
  <2>2. job' = [job EXCEPT ![r][t] = i]
    BY <2>1 DEF PutJob
  <2>3. JobPut(r, t, i)
    BY <2>2, PutIsLocal
  <2> QED
    BY <2>1, <2>3 DEF JobPut
<1>3. Moves(job[r][t], Onward(k), e)
  BY <1>1 DEF Moves, SameRequest
<1> QED
  BY <1>1, <1>2, <1>3 DEF JobMoved

LEMMA ImportedMoves ==
  ASSUME SyncTypeOK, NEW r \in RunIds, NEW t \in Targets, job[r][t].at \in Kinds, job[r][t].listed,
         NEW e, Imported(r, t, e)
  PROVE  JobMoved(r, t, e) /\ job'[r][t].failures = job[r][t].failures
<1> DEFINE j == job[r][t]
           k == [j EXCEPT !.left = @ \ {e}]
<1>1. j \in JobKind
  BY DEF SyncTypeOK
<1>2. k \in JobKind /\ SameRequest(j, k) /\ k.failures = j.failures
  BY <1>1 DEF JobKind, SameRequest
<1>3. PutJob(r, t, k) /\ k.at = j.at /\ k.listed = j.listed /\ k.existing = j.existing /\ k.left = j.left \ {e}
  BY <1>1 DEF Imported, JobKind
<1> HIDE DEF k
<1> QED
  BY <1>2, <1>3, PutMoves

LEMMA FailedMoves ==
  ASSUME SyncTypeOK, NEW r \in RunIds, NEW t \in Targets, job[r][t].at \in Kinds, job[r][t].listed,
         NEW e, Failed(r, t, e)
  PROVE  JobMoved(r, t, e) /\ job'[r][t].failures # {}
<1> DEFINE j == job[r][t]
           k == [j EXCEPT !.left = @ \ {e}, !.failures = @ \cup {j.at}]
<1>1. j \in JobKind
  BY DEF SyncTypeOK
<1>2. k \in JobKind /\ SameRequest(j, k) /\ k.failures # {}
  BY <1>1 DEF JobKind, SameRequest
<1>3. k.at = j.at /\ k.listed = j.listed /\ k.existing = j.existing /\ k.left = j.left \ {e}
  BY <1>1 DEF JobKind
<1>4. PutJob(r, t, k)
  BY DEF Failed
<1> HIDE DEF k
<1>5. PICK i \in JobKind : i = k
  BY <1>2
<1>6. PutJob(r, t, i) /\ SameRequest(j, i)
  BY <1>2, <1>4, <1>5
<1>7. i.at = j.at /\ i.listed = j.listed /\ i.existing = j.existing /\ i.left = j.left \ {e}
  BY <1>3, <1>5
<1>8. JobMoved(r, t, e) /\ job'[r][t].failures = i.failures
  BY <1>6, <1>7, PutMoves
<1> QED
  BY <1>2, <1>5, <1>8

-----------------------------------------------------------------------------
(* The synchronisation: what a step does to the prompts of a node           *)

SamePrompt(p, q) == q.id = p.id /\ q.family = p.family /\ q.version = p.version
Kept(P, Q) == \A p \in P : \E q \in Q : SamePrompt(p, q)
Grown(P, Q, last) == \A q \in Q : q.id > last \/ \E p \in P : SamePrompt(p, q)
Well(P, last) == P \in SUBSET Prompt /\ last \in Nat /\ Numbered(P, last) /\ OneActive(P)

LEMMA WellPrompts ==
  ASSUME SyncTypeOK, PromptsNumbered, NEW n \in SyncNodes
  PROVE  Well(prompts[n], lastId[n])
BY DEF SyncTypeOK, PromptsNumbered, Well

LEMMA KeptOn ==
  ASSUME NEW P, NEW Q, NEW R, NEW k, Kept(P, Q), Grown(P, Q, k), Kept(Q, R), Kept(R, Q)
  PROVE  Kept(P, R) /\ Grown(P, R, k)
<1>1. Kept(P, R)
  BY DEF Kept, SamePrompt
<1>2. ASSUME NEW q \in R
      PROVE  q.id > k \/ \E p \in P : SamePrompt(p, q)
  <2>1. PICK u \in Q : SamePrompt(q, u)
    BY DEF Kept
  <2> QED
    BY <2>1 DEF Grown, SamePrompt
<1> QED
  BY <1>1, <1>2 DEF Grown

LEMMA WellActivated ==
  ASSUME NEW P, NEW k, Well(P, k), NEW c, c.id \in Nat, c.family \in Families
  PROVE  Well(WithActive(P, c), k) /\ Kept(P, WithActive(P, c)) /\ Kept(WithActive(P, c), P)
<1>1. P \in SUBSET Prompt /\ k \in Nat /\ Numbered(P, k) /\ OneActive(P)
  BY DEF Well
<1> DEFINE Q == WithActive(P, c)
<1>2. /\ Q \in SUBSET Prompt /\ Numbered(Q, k) /\ OneActive(Q)
      /\ \A p \in P : \E q \in Q : q.id = p.id /\ q.family = p.family /\ q.version = p.version
      /\ \A q \in Q : \E p \in P : q.id = p.id /\ q.family = p.family /\ q.version = p.version
  BY <1>1, ActivatingKeeps
<1> HIDE DEF Q
<1>3. Well(Q, k) /\ Kept(P, Q) /\ Kept(Q, P)
  BY <1>1, <1>2 DEF Well, Kept, SamePrompt
<1> QED
  BY <1>3 DEF Q

LEMMA WellReworded ==
  ASSUME NEW P, NEW k, Well(P, k), NEW i, NEW x \in Texts
  PROVE  Well(Reworded(P, i, x), k) /\ Kept(P, Reworded(P, i, x)) /\ Kept(Reworded(P, i, x), P)
<1>1. P \in SUBSET Prompt /\ k \in Nat /\ Numbered(P, k) /\ OneActive(P)
  BY DEF Well
<1> DEFINE Q == Reworded(P, i, x)
<1>2. /\ Q \in SUBSET Prompt /\ Numbered(Q, k) /\ OneActive(Q)
      /\ \A p \in P : \E q \in Q : q.id = p.id /\ q.family = p.family /\ q.version = p.version
      /\ \A q \in Q : \E p \in P : q.id = p.id /\ q.family = p.family /\ q.version = p.version
  BY <1>1, RewordingKeeps
<1> HIDE DEF Q
<1>3. Well(Q, k) /\ Kept(P, Q) /\ Kept(Q, P)
  BY <1>1, <1>2 DEF Well, Kept, SamePrompt
<1> QED
  BY <1>3 DEF Q

(* a new prompt, activated or not, as users and imports add it              *)
LEMMA PromptAdded ==
  ASSUME SyncTypeOK, PromptsNumbered, NEW n \in SyncNodes, NEW f \in Families, NEW x \in Texts, NEW Q,
         LET new == NewPrompt(n, f, x)
             with == prompts[n] \cup {new}
         IN  Q = with \/ Q = WithActive(with, new)
  PROVE  /\ Well(Q, lastId[n] + 1) /\ Kept(prompts[n], Q) /\ Grown(prompts[n], Q, lastId[n])
         /\ \E u \in Q : u.family = f
<1> DEFINE new == NewPrompt(n, f, x)
           with == prompts[n] \cup {new}
<1>1. Well(prompts[n], lastId[n])
  BY WellPrompts
<1>2. /\ new \in Prompt /\ new.id = lastId[n] + 1 /\ new.family = f /\ new.text = x
      /\ Numbered(with, lastId[n] + 1) /\ OneActive(with)
  BY <1>1, NewPromptIsNext DEF Well
<1>3. Well(with, lastId[n] + 1)
  BY <1>1, <1>2 DEF Well
<1>4. Q = with \/ Q = WithActive(with, new)
  OBVIOUS
<1> HIDE DEF new
<1>5. Kept(prompts[n], with) /\ Grown(prompts[n], with, lastId[n]) /\ \E u \in with : u.family = f
  BY <1>1, <1>2 DEF Kept, Grown, SamePrompt, Well
<1>6. CASE Q = WithActive(with, new)
  <2>1. new.id \in Nat /\ new.family \in Families
    BY <1>1, <1>2 DEF Well
  <2>2. Well(Q, lastId[n] + 1) /\ Kept(with, Q) /\ Kept(Q, with)
    BY <1>3, <1>6, <2>1, WellActivated
  <2>3. Kept(prompts[n], Q) /\ Grown(prompts[n], Q, lastId[n])
    BY <1>5, <2>2, KeptOn
  <2>4. \E u \in Q : u.family = f
    BY <1>5, <2>2 DEF Kept, SamePrompt
  <2> QED
    BY <2>2, <2>3, <2>4
<1> QED
  BY <1>3, <1>4, <1>5, <1>6

(* a new text for a prompt, activated or not                                *)
LEMMA PromptReworded ==
  ASSUME NEW P, NEW k, Well(P, k), NEW e \in SeenPrompt, NEW x \in Texts, NEW Q,
         Q = Reworded(P, e.id, x) \/ Q = WithActive(Reworded(P, e.id, x), e)
  PROVE  Well(Q, k) /\ Kept(P, Q) /\ Grown(P, Q, k)
<1> DEFINE R == Reworded(P, e.id, x)
<1>1. Well(R, k) /\ Kept(P, R) /\ Kept(R, P)
  BY WellReworded
<1>2. Q = R \/ Q = WithActive(R, e)
  OBVIOUS
<1> HIDE DEF R
<1>3. Grown(P, R, k)
  BY <1>1 DEF Kept, Grown, SamePrompt
<1>4. CASE Q = WithActive(R, e)
  <2>1. e.id \in Nat /\ e.family \in Families
    BY DEF SeenPrompt
  <2>2. Well(Q, k) /\ Kept(R, Q) /\ Kept(Q, R)
    BY <1>1, <1>4, <2>1, WellActivated
  <2> QED
    BY <1>1, <1>3, <2>2, KeptOn
<1> QED
  BY <1>1, <1>2, <1>3, <1>4

(* the three things that an import may do with a prompt                     *)
Created(r, t, p) ==
  LET new == NewPrompt(t, p.family, p.text)
      with == prompts[t] \cup {new}
  IN  /\ Found(r, t, p) = {} /\ lastId' = [lastId EXCEPT ![t] = @ + 1]
      /\ \/ prompts' = [prompts EXCEPT ![t] = with] /\ (p.active => job'[r][t].failures # {})
         \/ prompts' = [prompts EXCEPT ![t] = WithActive(with, new)] /\ p.active
Updated(r, t, p) ==
  \E e \in Found(r, t, p) :
    LET changed == Reworded(prompts[t], e.id, p.text)
    IN  /\ ~Skips(r, t) /\ lastId' = lastId
        /\ \/ prompts' = [prompts EXCEPT ![t] = changed] /\ (p.active => job'[r][t].failures # {})
           \/ prompts' = [prompts EXCEPT ![t] = WithActive(changed, e)] /\ p.active
        /\ (\A q \in prompts[t] : q.id # e.id) => job'[r][t].failures # {}
Passed(r, t) ==
  prompts' = prompts /\ lastId' = lastId /\ (Skips(r, t) \/ job'[r][t].failures # {})

LEMMA PromptStep ==
  ASSUME SyncTypeOK, JobsAreWhole, NEW r \in RunIds, NEW t \in Targets, ImportPrompt(r, t)
  PROVE  /\ \E p \in job[r][t].left :
              /\ p \in job[r][t].bundle.prompts /\ p \in Prompt
              /\ JobMoved(r, t, p) /\ (Created(r, t, p) \/ Updated(r, t, p) \/ Passed(r, t))
         /\ \A p \in job[r][t].left : Found(r, t, p) \subseteq SeenPrompt
         /\ job[r][t].at = "prompt" /\ job[r][t].listed
         /\ job'[r][t].failures = {} => job[r][t].failures = {}
         /\ UNCHANGED <<agents, teams, servers, run, edits, edited, emptied>> /\ mishaps' \in Nat
<1> DEFINE j == job[r][t]
<1>1. PICK p \in Next1(r, t, "prompt") :
        \/ CreateImported(r, t, p)
        \/ UpdateImported(r, t, p)
        \/ Skips(r, t) /\ Found(r, t, p) # {} /\ Imported(r, t, p) /\ UNCHANGED <<prompts, lastId, mishaps>>
        \/ Mishap /\ Failed(r, t, p) /\ UNCHANGED <<prompts, lastId>>
  BY DEF ImportPrompt
<1>2. p \in j.left /\ j.at = "prompt" /\ j.listed /\ j \in JobKind
  BY DEF Next1, SyncTypeOK
<1>3. j.left \subseteq j.bundle.prompts /\ j.existing \subseteq SeenPrompt /\ j.bundle.prompts \subseteq Prompt
  <2>1. j.bundle \in BundleKind /\ j.at \in Kinds
    BY <1>2 DEF JobKind, Kinds
  <2>2. j.left \subseteq Incoming(j) /\ j.existing \subseteq SeenPrompt
    BY <1>2, <2>1 DEF JobsAreWhole, Whole
  <2>3. Incoming(j) = j.bundle.prompts
    BY <1>2 DEF Incoming
  <2> QED
    BY <2>1, <2>2, <2>3 DEF BundleKind
<1>4. j.at \in Kinds
  BY <1>2 DEF Kinds
<1>5. Imported(r, t, p) => JobMoved(r, t, p) /\ job'[r][t].failures = j.failures
  BY <1>2, <1>4, ImportedMoves
<1>6. Failed(r, t, p) => JobMoved(r, t, p) /\ job'[r][t].failures # {}
  BY <1>2, <1>4, FailedMoves
<1>7. JobMoved(r, t, p) /\ (Created(r, t, p) \/ Updated(r, t, p) \/ Passed(r, t)) /\ mishaps' \in Nat
      /\ (job'[r][t].failures = {} => j.failures = {})
  <2>0. mishaps \in Nat /\ (Mishap => mishaps' \in Nat)
    BY DEF SyncTypeOK, Mishap
  <2>1. CASE CreateImported(r, t, p)
    BY <1>5, <1>6, <2>0, <2>1 DEF CreateImported, Created
  <2>2. CASE UpdateImported(r, t, p)
    BY <1>5, <1>6, <2>0, <2>2 DEF UpdateImported, Updated, Reworded
  <2>3. CASE Skips(r, t) /\ Found(r, t, p) # {} /\ Imported(r, t, p) /\ UNCHANGED <<prompts, lastId, mishaps>>
    BY <1>5, <2>0, <2>3 DEF Passed
  <2>4. CASE Mishap /\ Failed(r, t, p) /\ UNCHANGED <<prompts, lastId>>
    BY <1>6, <2>0, <2>4 DEF Passed
  <2> QED
    BY <1>1, <2>1, <2>2, <2>3, <2>4
<1> QED
  BY <1>2, <1>3, <1>7 DEF ImportPrompt, Found

LEMMA ImportedPrompts ==
  ASSUME SyncTypeOK, PromptsNumbered, JobsAreWhole, NEW r \in RunIds, NEW t \in Targets, ImportPrompt(r, t)
  PROVE  /\ Well(prompts'[t], lastId'[t]) /\ Kept(prompts[t], prompts'[t])
         /\ Grown(prompts[t], prompts'[t], lastId[t]) /\ lastId'[t] >= lastId[t]
         /\ DOMAIN prompts' = SyncNodes /\ DOMAIN lastId' = SyncNodes
         /\ \A n \in SyncNodes \ {t} : prompts'[n] = prompts[n] /\ lastId'[n] = lastId[n]
<1>1. PICK p \in job[r][t].left :
        p \in Prompt /\ Found(r, t, p) \subseteq SeenPrompt
        /\ (Created(r, t, p) \/ Updated(r, t, p) \/ Passed(r, t))
  BY PromptStep
<1>2. t \in SyncNodes /\ Well(prompts[t], lastId[t]) /\ p.family \in Families /\ p.text \in Texts
  BY <1>1, WellPrompts DEF SyncNodes, Prompt
<1>3. DOMAIN prompts = SyncNodes /\ DOMAIN lastId = SyncNodes /\ lastId[t] \in Nat
  BY <1>2 DEF SyncTypeOK
<1>4. CASE Created(r, t, p)
  <2>1. lastId'[t] = lastId[t] + 1
    BY <1>2, <1>3, <1>4 DEF Created
  <2>2. LET new == NewPrompt(t, p.family, p.text)
            with == prompts[t] \cup {new}
        IN  prompts'[t] = with \/ prompts'[t] = WithActive(with, new)
    BY <1>2, <1>3, <1>4 DEF Created
  <2>3. Well(prompts'[t], lastId[t] + 1) /\ Kept(prompts[t], prompts'[t]) /\ Grown(prompts[t], prompts'[t], lastId[t])
    <3> DEFINE Q == prompts'[t]
    <3>1. LET new == NewPrompt(t, p.family, p.text)
              with == prompts[t] \cup {new}
          IN  Q = with \/ Q = WithActive(with, new)
      BY <2>2
    <3> HIDE DEF Q
    <3>2. Well(Q, lastId[t] + 1) /\ Kept(prompts[t], Q) /\ Grown(prompts[t], Q, lastId[t])
      BY <1>2, <3>1, PromptAdded
    <3> QED
      BY <3>2 DEF Q
  <2> QED
    BY <1>3, <1>4, <2>1, <2>3 DEF Created
<1>5. CASE Updated(r, t, p)
  <2>1. PICK e \in Found(r, t, p) :
          LET changed == Reworded(prompts[t], e.id, p.text)
          IN  prompts' = [prompts EXCEPT ![t] = changed] \/ prompts' = [prompts EXCEPT ![t] = WithActive(changed, e)]
    BY <1>5 DEF Updated
  <2>2. LET changed == Reworded(prompts[t], e.id, p.text)
        IN  prompts'[t] = changed \/ prompts'[t] = WithActive(changed, e)
    BY <1>2, <1>3, <2>1
  <2>3. Well(prompts'[t], lastId[t]) /\ Kept(prompts[t], prompts'[t]) /\ Grown(prompts[t], prompts'[t], lastId[t])
    BY <1>1, <1>2, <2>2, PromptReworded
  <2> QED
    BY <1>3, <1>5, <2>1, <2>3 DEF Updated
<1>6. CASE Passed(r, t)
  BY <1>2, <1>3, <1>6 DEF Passed, Kept, Grown, SamePrompt
<1> QED
  BY <1>1, <1>4, <1>5, <1>6

-----------------------------------------------------------------------------
(* The synchronisation: what the other imports do                           *)

LEMMA IncomingOfKind ==
  ASSUME SyncTypeOK, JobsAreWhole, NEW r \in RunIds, NEW t \in Targets, job[r][t].at \in Kinds
  PROVE  /\ job[r][t].at = "prompt" => job[r][t].left \subseteq job[r][t].bundle.prompts
         /\ job[r][t].at = "agent" => job[r][t].left \subseteq job[r][t].bundle.agents
         /\ job[r][t].at = "team" => job[r][t].left \subseteq job[r][t].bundle.teams
         /\ job[r][t].at = "server" => job[r][t].left \subseteq job[r][t].bundle.servers
         /\ job[r][t].bundle \in BundleKind
<1>1. job[r][t].left \subseteq Incoming(job[r][t])
  BY DEF JobsAreWhole, Whole
<1>2. job[r][t] \in JobKind
  BY DEF SyncTypeOK
<1> QED
  BY <1>1, <1>2 DEF Incoming, JobKind

AgentSet(r, t, e) ==
  \E row \in AgentRow :
    /\ agents' = [agents EXCEPT ![t][e.name] = row]
    /\ row.text = e.row.text
    /\ \/ FamilyOf(t, row.family) # {}
       \/ agents[t][e.name] # None /\ row.family = agents[t][e.name].family
    /\ job'[r][t].failures = {} => e.row.family \in {None, row.family}
    /\ Skips(r, t) => agents[t][e.name] = None
AgentPassed(r, t) == agents' = agents /\ (Skips(r, t) \/ job'[r][t].failures # {})

LEMMA AgentStep ==
  ASSUME SyncTypeOK, JobsAreWhole, NEW r \in RunIds, NEW t \in Targets, ImportAgent(r, t)
  PROVE  /\ \E e \in job[r][t].left :
              /\ e \in job[r][t].bundle.agents /\ e \in NamedAgent
              /\ JobMoved(r, t, e) /\ (AgentSet(r, t, e) \/ AgentPassed(r, t))
         /\ job[r][t].at = "agent" /\ job[r][t].listed
         /\ job'[r][t].failures = {} => job[r][t].failures = {}
         /\ UNCHANGED <<prompts, teams, servers, lastId, run, edits, edited, emptied>> /\ mishaps' \in Nat
<1> DEFINE j == job[r][t]
           Body(e) ==
             LET name == e.name
                 existing == name \in job[r][t].existing
                 set(row) == agents' = [agents EXCEPT ![t][name] = row]
             IN  \/ /\ ~existing /\ agents[t][name] = None /\ Takes(t, e.row)
                    /\ set(e.row) /\ Imported(r, t, e) /\ UNCHANGED mishaps
                 \/ /\ ~existing /\ ~(agents[t][name] = None /\ Takes(t, e.row))
                    /\ Failed(r, t, e) /\ UNCHANGED <<agents, mishaps>>
                 \/ existing /\ Skips(r, t) /\ Imported(r, t, e) /\ UNCHANGED <<agents, mishaps>>
                 \/ /\ existing /\ ~Skips(r, t) /\ UNCHANGED mishaps
                    /\ CASE agents[t][name] = None -> Failed(r, t, e) /\ UNCHANGED agents
                         [] agents[t][name] # None /\ e.row.family = None ->
                              set([e.row EXCEPT !.family = agents[t][name].family]) /\ Imported(r, t, e)
                         [] agents[t][name] # None /\ e.row.family # None /\ Takes(t, e.row) ->
                              set(e.row) /\ Imported(r, t, e)
                         [] OTHER -> set([e.row EXCEPT !.family = agents[t][name].family]) /\ Failed(r, t, e)
                 \/ Mishap /\ Failed(r, t, e) /\ UNCHANGED agents
<1>1. PICK e \in Next1(r, t, "agent") : Body(e)
  BY DEF ImportAgent
<1>2. e \in j.left /\ j.at = "agent" /\ j.listed /\ j \in JobKind /\ j.at \in Kinds
  BY DEF Next1, SyncTypeOK, Kinds
<1>3. e \in j.bundle.agents /\ e \in NamedAgent
  BY <1>2, IncomingOfKind DEF BundleKind
<1>4. e.name \in Agents /\ e.row \in AgentRow
  BY <1>3 DEF NamedAgent
<1>5. Imported(r, t, e) => JobMoved(r, t, e) /\ job'[r][t].failures = j.failures
  BY <1>2, ImportedMoves
<1>6. Failed(r, t, e) => JobMoved(r, t, e) /\ job'[r][t].failures # {}
  BY <1>2, FailedMoves
<1>7. agents[t][e.name] \in AgentRow \cup {None}
  BY <1>4 DEF SyncTypeOK, SyncNodes
<1> DEFINE old == agents[t][e.name]
           mixed == [e.row EXCEPT !.family = old.family]
<1>8. mishaps \in Nat /\ (Mishap => mishaps' \in Nat)
  BY DEF SyncTypeOK, Mishap
<1>9. old # None => mixed \in AgentRow /\ mixed.text = e.row.text /\ mixed.family = old.family
  BY <1>4, <1>7 DEF AgentRow
<1>10. Takes(t, e.row) => FamilyOf(t, e.row.family) # {}
  BY DEF Takes
<1> HIDE DEF mixed
<1>11. /\ JobMoved(r, t, e) /\ (AgentSet(r, t, e) \/ AgentPassed(r, t)) /\ mishaps' \in Nat
       /\ (job'[r][t].failures = {} => j.failures = {})
  <2>1. CASE /\ e.name \notin j.existing /\ old = None /\ Takes(t, e.row)
             /\ agents' = [agents EXCEPT ![t][e.name] = e.row] /\ Imported(r, t, e) /\ UNCHANGED mishaps
    BY <1>4, <1>5, <1>8, <1>10, <2>1 DEF AgentSet
  <2>2. CASE Failed(r, t, e) /\ UNCHANGED agents /\ (UNCHANGED mishaps \/ Mishap)
    BY <1>6, <1>8, <2>2 DEF AgentPassed
  <2>3. CASE Skips(r, t) /\ Imported(r, t, e) /\ UNCHANGED <<agents, mishaps>>
    BY <1>5, <1>8, <2>3 DEF AgentPassed
  <2>4. CASE /\ ~Skips(r, t) /\ old # None /\ UNCHANGED mishaps
             /\ e.row.family = None /\ agents' = [agents EXCEPT ![t][e.name] = mixed] /\ Imported(r, t, e)
    BY <1>5, <1>8, <1>9, <2>4 DEF AgentSet
  <2>5. CASE /\ ~Skips(r, t) /\ old # None /\ UNCHANGED mishaps /\ Takes(t, e.row)
             /\ agents' = [agents EXCEPT ![t][e.name] = e.row] /\ Imported(r, t, e)
    BY <1>4, <1>5, <1>8, <1>10, <2>5 DEF AgentSet
  <2>6. CASE /\ ~Skips(r, t) /\ old # None /\ UNCHANGED mishaps
             /\ agents' = [agents EXCEPT ![t][e.name] = mixed] /\ Failed(r, t, e)
    BY <1>6, <1>8, <1>9, <2>6 DEF AgentSet
  <2> QED
    BY <1>1, <2>1, <2>2, <2>3, <2>4, <2>5, <2>6 DEF mixed
<1> QED
  BY <1>2, <1>3, <1>11 DEF ImportAgent

TeamSet(r, t, e) ==
  teams' = [teams EXCEPT ![t][e.name] = e.row] /\ (Skips(r, t) => teams[t][e.name] = None)
TeamPassed(r, t) == teams' = teams /\ (Skips(r, t) \/ job'[r][t].failures # {})

LEMMA TeamStep ==
  ASSUME SyncTypeOK, JobsAreWhole, NEW r \in RunIds, NEW t \in Targets, ImportTeam(r, t)
  PROVE  /\ \E e \in job[r][t].left :
              /\ e \in job[r][t].bundle.teams /\ e \in NamedTeam
              /\ JobMoved(r, t, e) /\ (TeamSet(r, t, e) \/ TeamPassed(r, t))
         /\ job[r][t].at = "team" /\ job[r][t].listed
         /\ job'[r][t].failures = {} => job[r][t].failures = {}
         /\ UNCHANGED <<prompts, agents, servers, lastId, run, edits, edited, emptied>> /\ mishaps' \in Nat
<1> DEFINE j == job[r][t]
           Body(e) ==
             LET existing == e.name \in job[r][t].existing
             IN  \/ existing /\ Skips(r, t) /\ Imported(r, t, e) /\ UNCHANGED <<teams, mishaps>>
                 \/ /\ ~(existing /\ Skips(r, t)) /\ existing = (teams[t][e.name] # None)
                    /\ teams' = [teams EXCEPT ![t][e.name] = e.row]
                    /\ Imported(r, t, e) /\ UNCHANGED mishaps
                 \/ /\ ~(existing /\ Skips(r, t)) /\ existing # (teams[t][e.name] # None)
                    /\ Failed(r, t, e) /\ UNCHANGED <<teams, mishaps>>
                 \/ Mishap /\ Failed(r, t, e) /\ UNCHANGED teams
<1>1. PICK e \in Next1(r, t, "team") : Body(e)
  BY DEF ImportTeam
<1>2. e \in j.left /\ j.at = "team" /\ j.listed /\ j \in JobKind /\ j.at \in Kinds
  BY DEF Next1, SyncTypeOK, Kinds
<1>3. e \in j.bundle.teams /\ e \in NamedTeam
  BY <1>2, IncomingOfKind DEF BundleKind
<1>4. Imported(r, t, e) => JobMoved(r, t, e) /\ job'[r][t].failures = j.failures
  BY <1>2, ImportedMoves
<1>5. Failed(r, t, e) => JobMoved(r, t, e) /\ job'[r][t].failures # {}
  BY <1>2, FailedMoves
<1>6. mishaps \in Nat /\ (Mishap => mishaps' \in Nat)
  BY DEF SyncTypeOK, Mishap
<1>7. /\ JobMoved(r, t, e) /\ (TeamSet(r, t, e) \/ TeamPassed(r, t)) /\ mishaps' \in Nat
      /\ (job'[r][t].failures = {} => j.failures = {})
  <2>1. CASE Skips(r, t) /\ Imported(r, t, e) /\ UNCHANGED <<teams, mishaps>>
    BY <1>4, <1>6, <2>1 DEF TeamPassed
  <2>2. CASE /\ teams' = [teams EXCEPT ![t][e.name] = e.row] /\ (Skips(r, t) => teams[t][e.name] = None)
             /\ Imported(r, t, e) /\ UNCHANGED mishaps
    BY <1>4, <1>6, <2>2 DEF TeamSet
  <2>3. CASE Failed(r, t, e) /\ UNCHANGED teams /\ (UNCHANGED mishaps \/ Mishap)
    BY <1>5, <1>6, <2>3 DEF TeamPassed
  <2> QED
    BY <1>1, <2>1, <2>2, <2>3, Zenon
<1> QED
  BY <1>2, <1>3, <1>7 DEF ImportTeam

ServerSet(r, t, e) == servers' = [servers EXCEPT ![t][e.name] = e.row]
ServerPassed(r, t) == servers' = servers /\ (Skips(r, t) \/ job'[r][t].failures # {})

LEMMA ServerStep ==
  ASSUME SyncTypeOK, JobsAreWhole, NEW r \in RunIds, NEW t \in Targets, ImportServer(r, t)
  PROVE  /\ \E e \in job[r][t].left :
              /\ e \in job[r][t].bundle.servers /\ e \in NamedServer
              /\ JobMoved(r, t, e) /\ (ServerSet(r, t, e) \/ ServerPassed(r, t))
         /\ job[r][t].at = "server" /\ job[r][t].listed
         /\ job'[r][t].failures = {} => job[r][t].failures = {}
         /\ UNCHANGED <<prompts, agents, teams, lastId, run, edits, edited, emptied>> /\ mishaps' \in Nat
<1> DEFINE j == job[r][t]
           Body(e) ==
             \/ Skips(r, t) /\ e.name \in job[r][t].existing /\ Imported(r, t, e) /\ UNCHANGED <<servers, mishaps>>
             \/ /\ ~(Skips(r, t) /\ e.name \in job[r][t].existing)
                /\ servers' = [servers EXCEPT ![t][e.name] = e.row]
                /\ Imported(r, t, e) /\ UNCHANGED mishaps
             \/ Mishap /\ Failed(r, t, e) /\ UNCHANGED servers
<1>1. PICK e \in Next1(r, t, "server") : Body(e)
  BY DEF ImportServer
<1>2. e \in j.left /\ j.at = "server" /\ j.listed /\ j \in JobKind /\ j.at \in Kinds
  BY DEF Next1, SyncTypeOK, Kinds
<1>3. e \in j.bundle.servers /\ e \in NamedServer
  BY <1>2, IncomingOfKind DEF BundleKind
<1>4. Imported(r, t, e) => JobMoved(r, t, e) /\ job'[r][t].failures = j.failures
  BY <1>2, ImportedMoves
<1>5. Failed(r, t, e) => JobMoved(r, t, e) /\ job'[r][t].failures # {}
  BY <1>2, FailedMoves
<1>6. mishaps \in Nat /\ (Mishap => mishaps' \in Nat)
  BY DEF SyncTypeOK, Mishap
<1>7. /\ JobMoved(r, t, e) /\ (ServerSet(r, t, e) \/ ServerPassed(r, t)) /\ mishaps' \in Nat
      /\ (job'[r][t].failures = {} => j.failures = {})
  <2>1. CASE Skips(r, t) /\ Imported(r, t, e) /\ UNCHANGED <<servers, mishaps>>
    BY <1>4, <1>6, <2>1 DEF ServerPassed
  <2>2. CASE servers' = [servers EXCEPT ![t][e.name] = e.row] /\ Imported(r, t, e) /\ UNCHANGED mishaps
    BY <1>4, <1>6, <2>2 DEF ServerSet
  <2>3. CASE Mishap /\ Failed(r, t, e) /\ UNCHANGED servers
    BY <1>5, <1>6, <2>3 DEF ServerPassed
  <2> QED
    BY <1>1, <2>1, <2>2, <2>3
<1> QED
  BY <1>2, <1>3, <1>7 DEF ImportServer

SeenAt(t) == {[id |-> p.id, family |-> p.family, version |-> p.version] : p \in prompts[t]}

Listed(t, j, k) ==
  /\ SameRequest(j, k)
  /\ \/ k.at = "done" /\ k.failures # {} /\ ~k.listed /\ k.left = {} /\ k.existing = {}
     \/ /\ k.at = j.at /\ k.failures = j.failures /\ k.listed /\ k.left = Incoming(j)
        /\ j.at = "prompt" => k.existing = SeenAt(t)
     \/ /\ k.at = After[j.at] /\ k.failures = j.failures /\ ~k.listed /\ k.left = {} /\ k.existing = {}
        /\ Incoming(j) = {} \/ j.at \notin j.scope

LEMMA ListStep ==
  ASSUME SyncTypeOK, JobsAreWhole, NEW r \in RunIds, NEW t \in Targets, List(r, t)
  PROVE  /\ job[r][t].at \in Kinds /\ ~job[r][t].listed
         /\ job' \in [RunIds -> [Targets -> JobKind]] /\ Listed(t, job[r][t], job'[r][t])
         /\ \A r2 \in RunIds, t2 \in Targets : r2 # r \/ t2 # t => job'[r2][t2] = job[r2][t2]
         /\ UNCHANGED <<defs, run, edits, edited, emptied>> /\ mishaps' \in Nat
<1> DEFINE j == job[r][t]
           there == [prompt |-> SeenAt(t), agent |-> ThereIn(agents[t]), team |-> ThereIn(teams[t]),
                     server |-> ThereIn(servers[t])][j.at]
           k == [j EXCEPT !.listed = TRUE, !.left = Incoming(j), !.existing = there]
           thrown == [j EXCEPT !.at = "done", !.failures = {"thrown"}]
<1>1. j \in JobKind /\ j.at \in Kinds /\ ~j.listed /\ j.left = {} /\ j.existing = {}
  BY DEF List, SyncTypeOK, JobsAreWhole, Whole
<1>2. /\ \/ j.at \in j.scope /\ PutJob(r, t, k) /\ UNCHANGED mishaps
         \/ j.at \notin j.scope /\ PutJob(r, t, j) /\ UNCHANGED mishaps
         \/ Mishap /\ job' = [job EXCEPT ![r][t].at = "done", ![r][t].failures = {"thrown"}]
      /\ UNCHANGED <<defs, run, edits, edited, emptied>>
  BY DEF List, SeenAt
<1>3. k \in JobKind /\ SameRequest(j, k) /\ k.at = j.at /\ k.failures = j.failures /\ k.listed
      /\ k.left = Incoming(j) /\ (j.at = "prompt" => k.existing = SeenAt(t))
  <2>1. t \in SyncNodes
    BY DEF SyncNodes
  <2>2. SeenAt(t) \subseteq SeenPrompt
    BY <2>1 DEF SyncTypeOK, SeenAt, SeenPrompt, Prompt
  <2>3. ThereIn(agents[t]) \subseteq Agents /\ ThereIn(teams[t]) \subseteq Teams /\ ThereIn(servers[t]) \subseteq Servers
    BY <2>1 DEF SyncTypeOK, ThereIn
  <2>4. there \in SUBSET (SeenPrompt \cup Agents \cup Teams \cup Servers) /\ (j.at = "prompt" => there = SeenAt(t))
    BY <1>1, <2>2, <2>3 DEF Kinds
  <2>5. Incoming(j) \in SUBSET (Prompt \cup NamedAgent \cup NamedTeam \cup NamedServer)
    BY <1>1 DEF Incoming, JobKind, BundleKind, Kinds
  <2> HIDE DEF there
  <2> QED
    BY <1>1, <2>4, <2>5 DEF JobKind, SameRequest
<1>4. thrown \in JobKind /\ SameRequest(j, thrown) /\ thrown.at = "done" /\ thrown.failures # {}
      /\ ~thrown.listed /\ thrown.left = {} /\ thrown.existing = {}
  BY <1>1 DEF JobKind, SameRequest
<1>5. mishaps' \in Nat
  BY <1>2 DEF SyncTypeOK, Mishap
<1> DEFINE Goal ==
       /\ job' \in [RunIds -> [Targets -> JobKind]] /\ Listed(t, j, job'[r][t])
       /\ \A r2 \in RunIds, t2 \in Targets : r2 # r \/ t2 # t => job'[r2][t2] = job[r2][t2]
<1>0. ASSUME NEW i \in JobKind, job' = [job EXCEPT ![r][t] = i], Listed(t, j, i)
        PROVE  Goal
  <2>1. JobPut(r, t, i)
    BY <1>0, PutIsLocal
  <2> QED
    BY <1>0, <2>1 DEF JobPut
<1> HIDE DEF Goal
<1>6. ASSUME j.at \in j.scope /\ PutJob(r, t, k)
      PROVE  Goal
  <2>1. /\ Onward(k) \in JobKind /\ SameRequest(k, Onward(k)) /\ Onward(k).failures = k.failures
        /\ k.left # {} => Onward(k) = k
        /\ k.left = {} => /\ Onward(k).at = After[k.at] /\ ~Onward(k).listed
                          /\ Onward(k).left = {} /\ Onward(k).existing = {}
    BY <1>1, <1>3, OnwardIsJob
  <2>2. job' = [job EXCEPT ![r][t] = Onward(k)]
    BY <1>6 DEF PutJob
  <2> HIDE DEF k
  <2>3. Listed(t, j, Onward(k))
    BY <1>3, <2>1 DEF Listed, SameRequest
  <2> QED
    BY <1>0, <2>1, <2>2, <2>3
<1>7. ASSUME j.at \notin j.scope /\ PutJob(r, t, j)
      PROVE  Goal
  <2>1. /\ Onward(j) \in JobKind /\ SameRequest(j, Onward(j)) /\ Onward(j).failures = j.failures
        /\ Onward(j).at = After[j.at] /\ ~Onward(j).listed
        /\ Onward(j).left = {} /\ Onward(j).existing = {}
    BY <1>1, OnwardIsJob
  <2>2. job' = [job EXCEPT ![r][t] = Onward(j)]
    BY <1>7 DEF PutJob
  <2>3. Listed(t, j, Onward(j))
    BY <1>7, <2>1 DEF Listed
  <2> QED
    BY <1>0, <2>1, <2>2, <2>3
<1>8. ASSUME Mishap /\ job' = [job EXCEPT ![r][t].at = "done", ![r][t].failures = {"thrown"}]
      PROVE  Goal
  <2>1. job' = [job EXCEPT ![r][t] = thrown]
    <3>1. job \in [RunIds -> [Targets -> JobKind]]
      BY DEF SyncTypeOK
    <3> QED
      BY <1>8, <3>1
  <2> HIDE DEF thrown
  <2>2. Listed(t, j, thrown)
    BY <1>4 DEF Listed
  <2> QED
    BY <1>0, <1>4, <2>1, <2>2
<1>9. Goal
  BY <1>2, <1>6, <1>7, <1>8
<1> QED
  BY <1>1, <1>2, <1>5, <1>9 DEF Goal

-----------------------------------------------------------------------------
(* The synchronisation: the coordinator's selection and plan                *)

Selection == [teams : SUBSET Teams, agents : SUBSET Agents, dependencies : BOOLEAN]

LEMMA PlanFacts ==
  ASSUME NEW plan \in Plans
  PROVE  /\ plan.targets \in Seq(SyncNodes) /\ plan.scope \in SUBSET Kinds
         /\ plan.policy \in {"source_wins", "target_wins"} /\ plan.selection \in Selection \cup {None}
         /\ plan # None /\ None \notin Selection
BY NodeSyncAssumption DEF Plan, Selection

LEMMA NestedIsClosed ==
  ASSUME SyncTypeOK, NEW C \in SUBSET Teams
  PROVE  /\ C \subseteq TeamsWithNested(C) /\ TeamsWithNested(C) \subseteq Teams
         /\ \A t \in TeamsWithNested(C) : teams[Source][t] # None =>
              teams[Source][t].teams \subseteq TeamsWithNested(C)
<1> DEFINE Closed(S) == C \subseteq S /\ \A s \in S : teams[Source][s] # None => teams[Source][s].teams \subseteq S
<1>1. \A t : t \in TeamsWithNested(C) <=> t \in Teams /\ \A S \in SUBSET Teams : Closed(S) => t \in S
  BY DEF TeamsWithNested
<1>2. C \subseteq TeamsWithNested(C) /\ TeamsWithNested(C) \subseteq Teams
  BY <1>1
<1>3. ASSUME NEW t \in TeamsWithNested(C), teams[Source][t] # None, NEW u \in teams[Source][t].teams
      PROVE  u \in TeamsWithNested(C)
  <2>1. t \in Teams /\ teams[Source][t] \in TeamRow
    BY <1>2, <1>3 DEF SyncTypeOK, SyncNodes
  <2>2. u \in Teams
    BY <1>3, <2>1 DEF TeamRow
  <2>3. ASSUME NEW S \in SUBSET Teams, Closed(S)
        PROVE  u \in S
    <3>1. t \in S
      BY <1>1, <1>3, <2>3
    <3> QED
      BY <1>3, <2>3, <3>1
  <2> HIDE DEF Closed
  <2> QED
    BY <1>1, <2>2, <2>3
<1> QED
  BY <1>2, <1>3

LEMMA ResolvedFacts ==
  ASSUME SyncTypeOK, NEW sel \in Selection, Resolvable(sel)
  PROVE  LET c == Resolved(sel)
         IN  /\ c \in ChosenKind
             /\ sel.dependencies =>
                  /\ \A t \in c.teams : /\ teams[Source][t] # None
                                        /\ teams[Source][t].teams \subseteq c.teams
                                        /\ teams[Source][t].agents \subseteq c.agents
                  /\ \A a \in c.agents : agents[Source][a] # None /\ agents[Source][a].family \in c.families
<1> DEFINE ts == IF sel.dependencies THEN TeamsWithNested(sel.teams) ELSE sel.teams
           members == UNION {teams[Source][t].agents : t \in ts}
           as == IF sel.dependencies THEN sel.agents \cup members ELSE sel.agents
           fs == IF sel.dependencies THEN {agents[Source][a].family : a \in {b \in as : agents[Source][b] # None}} ELSE {}
<1>1. Resolved(sel) = [teams |-> ts, agents |-> as, families |-> fs]
  BY DEF Resolved
<1>2. sel.teams \in SUBSET Teams /\ sel.agents \in SUBSET Agents
  BY DEF Selection
<1>3. ts \in SUBSET Teams
  BY <1>2, NestedIsClosed
<1>4. \A t \in ts : teams[Source][t] # None
  BY DEF Resolvable
<1>5. \A t \in ts : teams[Source][t] \in TeamRow
  BY <1>3, <1>4 DEF SyncTypeOK, SyncNodes
<1>6. sel.dependencies => \A t \in ts : teams[Source][t].teams \subseteq ts
  BY <1>2, <1>4, NestedIsClosed
<1> HIDE DEF ts
<1>7. members \in SUBSET Agents /\ \A t \in ts : teams[Source][t].agents \subseteq members
  BY <1>5 DEF TeamRow
<1> HIDE DEF members
<1>8. as \in SUBSET Agents /\ (sel.dependencies => members \subseteq as)
  BY <1>2, <1>7
<1>9. sel.dependencies => \A a \in as : agents[Source][a] # None
  BY <1>1 DEF Resolvable
<1> HIDE DEF as
<1>10. \A a \in as : agents[Source][a] \in AgentRow \cup {None}
  <2>1. agents[Source] \in [Agents -> AgentRow \cup {None}]
    BY DEF SyncTypeOK, SyncNodes
  <2> QED
    BY <1>8, <2>1
<1>11. fs \in SUBSET Families
  BY <1>10 DEF AgentRow
<1>12. sel.dependencies => \A a \in as : agents[Source][a].family \in fs
  BY <1>9
<1> HIDE DEF fs
<1>13. [teams |-> ts, agents |-> as, families |-> fs] \in ChosenKind
  BY <1>3, <1>8, <1>11 DEF ChosenKind
<1>14. sel.dependencies =>
         /\ \A t \in ts : teams[Source][t] # None /\ teams[Source][t].teams \subseteq ts /\ teams[Source][t].agents \subseteq as
         /\ \A a \in as : agents[Source][a] # None /\ agents[Source][a].family \in fs
  BY <1>4, <1>6, <1>7, <1>8, <1>9, <1>12
<1> DEFINE c == Resolved(sel)
<1>15. c \in ChosenKind /\ c.teams = ts /\ c.agents = as /\ c.families = fs
  BY <1>1, <1>13
<1> HIDE DEF c
<1>16. sel.dependencies =>
         /\ \A t \in c.teams : /\ teams[Source][t] # None
                               /\ teams[Source][t].teams \subseteq c.teams
                               /\ teams[Source][t].agents \subseteq c.agents
         /\ \A a \in c.agents : agents[Source][a] # None /\ agents[Source][a].family \in c.families
  BY <1>14, <1>15
<1> QED
  BY <1>15, <1>16 DEF c

(* a list of targets that are as many as its places holds none twice        *)
LEMMA DistinctTargets ==
  ASSUME NEW plan \in Plans, Distinct(plan)
  PROVE  /\ plan.targets \in Seq(Targets)
         /\ \A i, k \in DOMAIN plan.targets : plan.targets[i] = plan.targets[k] => i = k
         /\ \A i \in DOMAIN plan.targets : plan.targets[i] \in TargetsOf(plan)
<1> DEFINE s == plan.targets
           n == Len(s)
<1>1. s \in Seq(SyncNodes) /\ n \in Nat /\ DOMAIN s = 1 .. n /\ s \in [1 .. n -> SyncNodes]
  BY PlanFacts
<1>2. Source \notin TargetsOf(plan) /\ Cardinality(TargetsOf(plan)) = n /\ TargetsOf(plan) = {s[i] : i \in 1 .. n}
  BY <1>1 DEF Distinct, TargetsOf
<1>3. \A i \in 1 .. n : s[i] \in TargetsOf(plan) /\ s[i] \in Targets
  BY <1>1, <1>2 DEF SyncNodes
<1>4. s \in Seq(Targets)
  BY <1>1, <1>3
<1>5. IsFiniteSet(1 .. n) /\ Cardinality(1 .. n) = n
  BY <1>1, FS_Interval
<1>6. s \in Surjection(1 .. n, TargetsOf(plan))
  BY <1>1, <1>2, <1>3 DEF Surjection
<1>7. s \in Injection(1 .. n, TargetsOf(plan))
  BY <1>2, <1>5, <1>6, FS_SurjSameCardinalityImpliesInj
<1> QED
  BY <1>1, <1>3, <1>4, <1>7 DEF Injection, IsInjective

-----------------------------------------------------------------------------
(* The synchronisation: what a step of the coordinator does to the run      *)

KeepsPlan == run'.no = run.no /\ run'.plan = run.plan
KeepsExport == run'.chosen = run.chosen /\ run'.bundle = run.bundle
KeepsTargets ==
  run'.left = run.left /\ run'.target = run.target /\ run'.results = run.results /\ run'.status = run.status
Elsewhere == UNCHANGED <<defs, edits, emptied>> /\ mishaps' \in Nat
RunOnly == Elsewhere /\ UNCHANGED <<job, edited>>

LEMMA NoBundleKind == NoBundle \in BundleKind
BY DEF NoBundle, BundleKind

LEMMA StartRunStep ==
  ASSUME SyncTypeOK, NEW plan \in Plans, StartRun(plan)
  PROVE  /\ run.at \in {"idle", "ended"} /\ run'.no = run.no + 1 /\ run'.no \in RunIds
         /\ run'.plan = plan /\ run'.at \in {"health", "ended"} /\ (run'.at = "health" => Distinct(plan))
         /\ run'.chosen = None /\ run'.bundle = NoBundle /\ run'.status = None
         /\ \A t \in Targets : run'.results[t] = None
         /\ run' \in RunKind /\ Elsewhere /\ UNCHANGED job
         /\ edited' = {t \in Targets : \E r \in RunIds : job[r][t].at \notin {"none", "done"}}
<1>1. run \in RunKind /\ mishaps \in Nat
  BY DEF SyncTypeOK
<1>2. run.no \in Nat /\ run.no < MaxRuns /\ MaxRuns \in Nat
  BY <1>1, NodeSyncAssumption DEF StartRun, RunKind
<1> DEFINE at2 == IF plan.targets # <<>> /\ plan.scope # {} /\ Distinct(plan) THEN "health" ELSE "ended"
<1>3. run' = [no |-> run.no + 1, at |-> at2, plan |-> plan, chosen |-> None, bundle |-> NoBundle,
              left |-> <<>>, target |-> None, status |-> None, results |-> [t \in Targets |-> None]]
  BY DEF StartRun, NoRun
<1>4. at2 \in {"health", "ended"} /\ (at2 = "health" => Distinct(plan))
  OBVIOUS
<1> HIDE DEF at2
<1>5. run' \in RunKind
  BY <1>2, <1>3, <1>4, NoBundleKind DEF RunKind, RunStages
<1>6. /\ run'.no = run.no + 1 /\ run'.plan = plan /\ run'.at = at2 /\ run'.chosen = None /\ run'.bundle = NoBundle
      /\ run'.status = None /\ \A t \in Targets : run'.results[t] = None
  BY <1>3
<1>7. run.at \in {"idle", "ended"} /\ Elsewhere /\ UNCHANGED job /\ run'.no \in RunIds
      /\ edited' = {t \in Targets : \E r \in RunIds : job[r][t].at \notin {"none", "done"}}
  BY <1>1, <1>2, <1>6 DEF StartRun, RunIds, Elsewhere
<1> QED
  BY <1>4, <1>5, <1>6, <1>7

LEMMA EarlyStep ==
  ASSUME SyncTypeOK, Checked \/ Unhealthy \/ ExportFails
  PROVE  /\ run.at \in {"health", "select"} \cup Exporting
         /\ run'.at = "ended" \/ (run.at = "health" /\ run'.at = "select")
         /\ KeepsPlan /\ KeepsExport /\ run'.results = run.results /\ run'.status \in {run.status, "failed"}
         /\ run'.at = "select" => run'.status = run.status
         /\ run' \in RunKind /\ RunOnly
<1>1. run \in RunKind /\ mishaps \in Nat
  BY DEF SyncTypeOK
<1>2. RunOnly
  BY <1>1 DEF Checked, Unhealthy, ExportFails, RunOnly, Elsewhere, Mishap
<1>3. CASE run' = [run EXCEPT !.at = "select"] /\ run.at = "health"
  BY <1>1, <1>2, <1>3 DEF RunKind, RunStages, KeepsPlan, KeepsExport
<1>4. CASE run' = [run EXCEPT !.at = "ended"] /\ run.at = "health"
  BY <1>1, <1>2, <1>4 DEF RunKind, RunStages, KeepsPlan, KeepsExport
<1>5. CASE run' = [run EXCEPT !.at = "ended", !.status = "failed"] /\ run.at \in {"select"} \cup Exporting
  BY <1>1, <1>2, <1>5 DEF RunKind, RunStages, KeepsPlan, KeepsExport, Exporting
<1> QED
  BY <1>3, <1>4, <1>5 DEF Checked, Unhealthy, ExportFails, Exporting

LEMMA SelectStep ==
  ASSUME SyncTypeOK, RunFollowsPlan, Select
  PROVE  /\ run.at = "select" /\ run'.at \in {"exportPrompts", "ended"}
         /\ run'.at = "exportPrompts" /\ run.plan.selection # None =>
              /\ run'.chosen = Resolved(run.plan.selection)
              /\ run.plan.selection \in Selection /\ Resolvable(run.plan.selection)
         /\ KeepsPlan /\ run'.bundle = run.bundle /\ run'.results = run.results
         /\ run'.status \in {run.status, "failed"} /\ (run'.at = "exportPrompts" => run'.status = run.status)
         /\ run' \in RunKind /\ RunOnly
<1> DEFINE sel == run.plan.selection
<1>1. run \in RunKind /\ mishaps \in Nat /\ run.at = "select"
  BY DEF SyncTypeOK, Select
<1>2. RunOnly
  BY <1>1 DEF Select, RunOnly, Elsewhere
<1>3. run.plan \in Plans
  BY <1>1 DEF RunFollowsPlan
<1>4. sel \in Selection \cup {None}
  BY <1>3, PlanFacts
<1>5. CASE sel = None /\ run' = [run EXCEPT !.at = "exportPrompts"]
  BY <1>1, <1>2, <1>5 DEF RunKind, RunStages, KeepsPlan
<1>6. CASE sel # None /\ Resolvable(sel) /\ run' = [run EXCEPT !.at = "exportPrompts", !.chosen = Resolved(sel)]
  <2>1. sel \in Selection /\ Resolved(sel) \in ChosenKind
    BY <1>4, <1>6, ResolvedFacts
  <2> QED
    BY <1>1, <1>2, <1>6, <2>1 DEF RunKind, RunStages, KeepsPlan
<1>7. CASE run' = [run EXCEPT !.at = "ended", !.status = "failed"]
  BY <1>1, <1>2, <1>7 DEF RunKind, RunStages, KeepsPlan
<1> QED
  BY <1>5, <1>6, <1>7 DEF Select

LEMMA ExportPromptsStep ==
  ASSUME SyncTypeOK, ExportPrompts
  PROVE  /\ run.at = "exportPrompts" /\ run'.at = "exportAgents" /\ KeepsPlan /\ KeepsTargets /\ run'.chosen = run.chosen
         /\ run'.bundle.prompts = IF "prompt" \in run.plan.scope
                                  THEN {p \in prompts[Source] : All \/ p.family \in Chosen("families")} ELSE {}
         /\ run'.bundle.agents = run.bundle.agents /\ run'.bundle.teams = run.bundle.teams
         /\ run'.bundle.servers = run.bundle.servers
         /\ run' \in RunKind /\ RunOnly
<1> DEFINE ps == IF "prompt" \in run.plan.scope
                 THEN {p \in prompts[Source] : All \/ p.family \in Chosen("families")} ELSE {}
<1>1. run \in RunKind /\ mishaps \in Nat /\ run.at = "exportPrompts" /\ RunOnly
  BY DEF SyncTypeOK, ExportPrompts, RunOnly, Elsewhere
<1>2. run' = [run EXCEPT !.at = "exportAgents", !.bundle.prompts = ps]
  BY DEF ExportPrompts
<1>3. prompts[Source] \in SUBSET Prompt
  BY DEF SyncTypeOK, SyncNodes
<1>4. ps \in SUBSET Prompt
  BY <1>3
<1> HIDE DEF ps
<1>5. run.bundle \in BundleKind
  BY <1>1 DEF RunKind
<1>6. /\ [run.bundle EXCEPT !.prompts = ps] \in BundleKind
      /\ [run.bundle EXCEPT !.prompts = ps].prompts = ps
      /\ [run.bundle EXCEPT !.prompts = ps].agents = run.bundle.agents
      /\ [run.bundle EXCEPT !.prompts = ps].teams = run.bundle.teams
      /\ [run.bundle EXCEPT !.prompts = ps].servers = run.bundle.servers
  BY <1>4, <1>5 DEF BundleKind
<1> DEFINE b == [run.bundle EXCEPT !.prompts = ps]
<1>7. run' = [run EXCEPT !.at = "exportAgents", !.bundle = b]
  BY <1>1, <1>2 DEF RunKind
<1> HIDE DEF b
<1>8. run' \in RunKind /\ run'.bundle = b /\ run'.at = "exportAgents" /\ KeepsPlan /\ KeepsTargets /\ run'.chosen = run.chosen
  BY <1>1, <1>6, <1>7 DEF RunKind, RunStages, KeepsPlan, KeepsTargets, b
<1> QED
  BY <1>1, <1>6, <1>8 DEF b, ps

LEMMA ExportAgentsStep ==
  ASSUME SyncTypeOK, ExportAgents
  PROVE  /\ run.at = "exportAgents" /\ run'.at = "exportTeams" /\ KeepsPlan /\ KeepsTargets /\ run'.chosen = run.chosen
         /\ run'.bundle.agents =
              {[name |-> a, row |-> agents[Source][a]] :
                 a \in {b \in Agents : /\ "agent" \in run.plan.scope /\ agents[Source][b] # None
                                       /\ All \/ b \in Chosen("agents")}}
         /\ run'.bundle.prompts = run.bundle.prompts /\ run'.bundle.teams = run.bundle.teams
         /\ run'.bundle.servers = run.bundle.servers
         /\ run' \in RunKind /\ RunOnly
<1> DEFINE as == {[name |-> a, row |-> agents[Source][a]] :
                    a \in {b \in Agents : /\ "agent" \in run.plan.scope /\ agents[Source][b] # None
                                          /\ All \/ b \in Chosen("agents")}}
<1>1. run \in RunKind /\ mishaps \in Nat /\ run.at = "exportAgents" /\ RunOnly
  BY DEF SyncTypeOK, ExportAgents, RunOnly, Elsewhere
<1>2. run' = [run EXCEPT !.at = "exportTeams", !.bundle.agents = as]
  BY DEF ExportAgents
<1>3. agents[Source] \in [Agents -> AgentRow \cup {None}]
  BY DEF SyncTypeOK, SyncNodes
<1>4. as \in SUBSET NamedAgent
  BY <1>3 DEF NamedAgent
<1> HIDE DEF as
<1>5. run.bundle \in BundleKind
  BY <1>1 DEF RunKind
<1>6. /\ [run.bundle EXCEPT !.agents = as] \in BundleKind
      /\ [run.bundle EXCEPT !.agents = as].agents = as
      /\ [run.bundle EXCEPT !.agents = as].prompts = run.bundle.prompts
      /\ [run.bundle EXCEPT !.agents = as].teams = run.bundle.teams
      /\ [run.bundle EXCEPT !.agents = as].servers = run.bundle.servers
  BY <1>4, <1>5 DEF BundleKind
<1> DEFINE b == [run.bundle EXCEPT !.agents = as]
<1>7. run' = [run EXCEPT !.at = "exportTeams", !.bundle = b]
  BY <1>1, <1>2 DEF RunKind
<1> HIDE DEF b
<1>8. run' \in RunKind /\ run'.bundle = b /\ run'.at = "exportTeams" /\ KeepsPlan /\ KeepsTargets /\ run'.chosen = run.chosen
  BY <1>1, <1>6, <1>7 DEF RunKind, RunStages, KeepsPlan, KeepsTargets, b
<1> QED
  BY <1>1, <1>6, <1>8 DEF b, as

LEMMA ExportRestStep ==
  ASSUME SyncTypeOK, RunFollowsPlan, ExportRest
  PROVE  /\ run.at = "exportTeams" /\ run'.at = "next" /\ KeepsPlan /\ run'.chosen = run.chosen
         /\ run'.left = run.plan.targets /\ run'.results = run.results /\ run'.status = run.status
         /\ run'.bundle.teams =
              {[name |-> t, row |-> teams[Source][t]] :
                 t \in {u \in Teams : /\ "team" \in run.plan.scope /\ teams[Source][u] # None
                                      /\ All \/ u \in Chosen("teams")}}
         /\ run'.bundle.servers =
              {[name |-> s, row |-> servers[Source][s]] :
                 s \in {u \in Servers : "server" \in run.plan.scope /\ All /\ servers[Source][u] # None}}
         /\ run'.bundle.prompts = run.bundle.prompts /\ run'.bundle.agents = run.bundle.agents
         /\ run' \in RunKind /\ RunOnly /\ Distinct(run.plan)
<1> DEFINE ts == {[name |-> t, row |-> teams[Source][t]] :
                    t \in {u \in Teams : /\ "team" \in run.plan.scope /\ teams[Source][u] # None
                                         /\ All \/ u \in Chosen("teams")}}
           ss == {[name |-> s, row |-> servers[Source][s]] :
                    s \in {u \in Servers : "server" \in run.plan.scope /\ All /\ servers[Source][u] # None}}
<1>1. run \in RunKind /\ mishaps \in Nat /\ run.at = "exportTeams" /\ RunOnly
  BY DEF SyncTypeOK, ExportRest, RunOnly, Elsewhere
<1>2. run' = [run EXCEPT !.at = "next", !.left = run.plan.targets, !.bundle.teams = ts, !.bundle.servers = ss]
  BY DEF ExportRest
<1>3. teams[Source] \in [Teams -> TeamRow \cup {None}] /\ servers[Source] \in [Servers -> ServerRow \cup {None}]
  BY DEF SyncTypeOK, SyncNodes
<1>4. ts \in SUBSET NamedTeam /\ ss \in SUBSET NamedServer
  BY <1>3 DEF NamedTeam, NamedServer
<1> HIDE DEF ts, ss
<1>5. run.bundle \in BundleKind
  BY <1>1 DEF RunKind
<1> DEFINE b == [run.bundle EXCEPT !.teams = ts, !.servers = ss]
<1>6. /\ b \in BundleKind /\ b.teams = ts /\ b.servers = ss
      /\ b.prompts = run.bundle.prompts /\ b.agents = run.bundle.agents
  BY <1>4, <1>5 DEF BundleKind
<1>7. run' = [run EXCEPT !.at = "next", !.left = run.plan.targets, !.bundle = b]
  BY <1>1, <1>2 DEF RunKind
<1>8. run.plan \in Plans /\ Distinct(run.plan)
  BY <1>1 DEF RunFollowsPlan
<1>9. run.plan.targets \in Seq(Targets)
  BY <1>8, DistinctTargets
<1> HIDE DEF b
<1>10. /\ run' \in RunKind /\ run'.bundle = b /\ run'.at = "next" /\ KeepsPlan /\ run'.chosen = run.chosen
       /\ run'.left = run.plan.targets /\ run'.results = run.results /\ run'.status = run.status
  BY <1>1, <1>6, <1>7, <1>9 DEF RunKind, RunStages, KeepsPlan
<1> QED
  BY <1>1, <1>6, <1>8, <1>10 DEF ts, ss

(* what is left after the first target                                      *)
LEMMA LeftFacts ==
  ASSUME NEW s \in Seq(Targets), s # <<>>
  PROVE  /\ Head(s) \in Targets /\ Tail(s) \in Seq(Targets) /\ Head(s) = s[1] /\ 1 \in DOMAIN s
         /\ \A i \in DOMAIN Tail(s) : Tail(s)[i] = s[i + 1] /\ i + 1 \in DOMAIN s /\ i + 1 # 1 /\ i \in Nat
BY HeadTailProperties, LenProperties

LEMMA SendStep ==
  ASSUME SyncTypeOK, RunFollowsPlan, Send
  PROVE  LET t == Head(run.left)
         IN  /\ run.at = "next" /\ run'.at = "waiting" /\ t \in Targets /\ run'.target = t
             /\ run.left # <<>> /\ run'.left = Tail(run.left) /\ run.no \in RunIds
             /\ KeepsPlan /\ KeepsExport /\ run'.results = run.results /\ run'.status = run.status
             /\ run' \in RunKind /\ Elsewhere /\ UNCHANGED edited
             /\ ImportRequest \in JobKind /\ JobPut(run.no, t, ImportRequest)
<1> DEFINE t == Head(run.left)
<1>1. run \in RunKind /\ mishaps \in Nat /\ run.at = "next" /\ run.left # <<>> /\ Elsewhere /\ UNCHANGED edited
  BY DEF SyncTypeOK, Send, Elsewhere
<1>2. run' = [run EXCEPT !.at = "waiting", !.target = Head(run.left), !.left = Tail(@)]
  BY DEF Send
<1>3. run.left \in Seq(Targets)
  BY <1>1 DEF RunKind
<1>4. t \in Targets /\ Tail(run.left) \in Seq(Targets)
  BY <1>1, <1>3, LeftFacts
<1>5. run.no \in RunIds /\ run.plan \in Plans
  BY <1>1 DEF RunFollowsPlan
<1>6. run.plan.scope \in SUBSET Kinds /\ run.plan.policy \in {"source_wins", "target_wins"}
  BY <1>5, PlanFacts
<1>7. ImportRequest \in JobKind
  BY <1>1, <1>6 DEF ImportRequest, NoJob, JobKind, RunKind, Kinds
<1> HIDE DEF t
<1>8. JobPut(run.no, t, ImportRequest)
  <2>1. PICK s \in Targets, q \in RunIds, j \in JobKind : s = t /\ q = run.no /\ j = ImportRequest
    BY <1>4, <1>5, <1>7
  <2>2. job' = [job EXCEPT ![q][s] = j]
    BY <2>1 DEF Send, t
  <2>3. JobPut(q, s, j)
    BY <2>2, PutIsLocal
  <2> QED
    BY <2>1, <2>3
<1>9. /\ run' \in RunKind /\ run'.at = "waiting" /\ run'.target = t /\ run'.left = Tail(run.left)
      /\ KeepsPlan /\ KeepsExport /\ run'.results = run.results /\ run'.status = run.status
  BY <1>1, <1>2, <1>4 DEF RunKind, RunStages, KeepsPlan, KeepsExport, t
<1> QED
  BY <1>1, <1>4, <1>5, <1>7, <1>8, <1>9 DEF t

LEMMA ResultStep ==
  ASSUME SyncTypeOK, TargetsInTurn, SendFails \/ Answered \/ AnswerLost
  PROVE  \E t \in Targets, x \in {"success", "failed"} :
           /\ \/ run.at = "next" /\ run.left # <<>> /\ t = Head(run.left) /\ run'.left = Tail(run.left) /\ x = "failed"
              \/ run.at = "waiting" /\ t = run.target /\ run'.left = run.left
           /\ x = "success" => /\ job[run.no][t].at = "done" /\ job[run.no][t].failures = {}
           /\ run'.at = "next" /\ run'.results = [run.results EXCEPT ![t] = x]
           /\ KeepsPlan /\ KeepsExport /\ run'.status = run.status
           /\ run' \in RunKind /\ RunOnly
<1>1. run \in RunKind /\ mishaps \in Nat /\ run.left \in Seq(Targets)
  BY DEF SyncTypeOK, RunKind
<1>2. RunOnly
  BY <1>1 DEF SendFails, Answered, AnswerLost, RunOnly, Elsewhere, Mishap
<1>3. CASE SendFails
  <2> DEFINE t == Head(run.left)
  <2>1. run.at = "next" /\ run.left # <<>>
    BY <1>3 DEF SendFails
  <2>2. t \in Targets /\ Tail(run.left) \in Seq(Targets)
    BY <1>1, <2>1, LeftFacts
  <2>3. run' = [run EXCEPT !.at = "next", !.target = None, !.results[t] = "failed", !.left = Tail(@)]
    BY <1>1, <1>3 DEF SendFails, Result, RunKind
  <2> HIDE DEF t
  <2>4. /\ run' \in RunKind /\ run'.left = Tail(run.left) /\ run'.at = "next" /\ KeepsPlan /\ KeepsExport
        /\ run'.results = [run.results EXCEPT ![t] = "failed"] /\ run'.status = run.status
    BY <1>1, <2>2, <2>3 DEF RunKind, RunStages, KeepsPlan, KeepsExport
  <2> QED
    BY <1>2, <2>1, <2>2, <2>4 DEF t
<1>4. ASSUME NEW x \in {"success", "failed"}, run' = Result(run.target, x), run.at = "waiting"
      PROVE  /\ run.target \in Targets
             /\ run' \in RunKind /\ run'.left = run.left /\ run'.at = "next" /\ KeepsPlan /\ KeepsExport
             /\ run'.results = [run.results EXCEPT ![run.target] = x] /\ run'.status = run.status
  <2>1. run' = [run EXCEPT !.at = "next", !.target = None, !.results[run.target] = x]
    BY <1>4 DEF Result
  <2>2. run.target \in Targets
    BY <1>4 DEF TargetsInTurn
  <2>3. [run.results EXCEPT ![run.target] = x] \in [Targets -> {None, "success", "failed"}]
    BY <1>1, <1>4, <2>2 DEF RunKind
  <2> DEFINE rs == [run.results EXCEPT ![run.target] = x]
  <2>4. run' = [run EXCEPT !.at = "next", !.target = None, !.results = rs]
    BY <1>1, <2>1 DEF RunKind
  <2> HIDE DEF rs
  <2>5. /\ run' \in RunKind /\ run'.left = run.left /\ run'.at = "next" /\ KeepsPlan /\ KeepsExport
        /\ run'.results = rs /\ run'.status = run.status
    BY <1>1, <2>3, <2>4 DEF RunKind, RunStages, KeepsPlan, KeepsExport, rs
  <2> QED
    BY <2>2, <2>5 DEF rs
<1>5. CASE Answered
  <2>1. run.at = "waiting" /\ job[run.no][run.target].at = "done"
    BY <1>5 DEF Answered
  <2>2. CASE job[run.no][run.target].failures = {}
    <3>1. run' = Result(run.target, "success")
      BY <1>5, <2>2 DEF Answered
    <3> QED
      BY <1>2, <1>4, <2>1, <2>2, <3>1
  <2>3. CASE job[run.no][run.target].failures # {}
    <3>1. run' = Result(run.target, "failed")
      BY <1>5, <2>3 DEF Answered
    <3> QED
      BY <1>2, <1>4, <2>1, <3>1
  <2> QED
    BY <2>2, <2>3
<1>6. CASE AnswerLost
  <2>1. run.at = "waiting" /\ run' = Result(run.target, "failed")
    BY <1>6 DEF AnswerLost
  <2> QED
    BY <1>2, <1>4, <2>1
<1> QED
  BY <1>3, <1>5, <1>6

LEMMA EndStep ==
  ASSUME SyncTypeOK, End
  PROVE  /\ run.at = "next" /\ run'.at = "ended" /\ KeepsPlan /\ KeepsExport /\ run'.results = run.results
         /\ run'.status = "success" => \A t \in TargetsOf(run.plan) : run.results[t] = "success"
         /\ run' \in RunKind /\ RunOnly
<1>1. run \in RunKind /\ mishaps \in Nat /\ run.at = "next" /\ RunOnly
  BY DEF SyncTypeOK, End, RunOnly, Elsewhere
<1>2. run' = [run EXCEPT !.at = "ended", !.status = Status(run.results)]
  BY DEF End
<1>3. /\ Status(run.results) \in {"success", "partial-success", "failed"}
      /\ Status(run.results) = "success" => \A t \in TargetsOf(run.plan) : run.results[t] = "success"
  BY DEF Status
<1> QED
  BY <1>1, <1>2, <1>3 DEF RunKind, RunStages, KeepsPlan, KeepsExport

-----------------------------------------------------------------------------
(* The synchronisation: users, and imports seen from outside                *)

UserTouches(n) ==
  /\ edited' = edited \cup {n} /\ edits' \in Nat
  /\ UNCHANGED <<teams, servers, run, job, mishaps>>
  /\ \A m \in SyncNodes \ {n} : prompts'[m] = prompts[m] /\ agents'[m] = agents[m] /\ lastId'[m] = lastId[m]

LEMMA EditPromptStep ==
  ASSUME SyncTypeOK, PromptsNumbered, NEW n \in SyncNodes, EditPrompt(n)
  PROVE  /\ UserTouches(n) /\ UNCHANGED <<agents, emptied>> /\ lastId'[n] = lastId[n] + 1
         /\ Well(prompts'[n], lastId'[n]) /\ Kept(prompts[n], prompts'[n]) /\ Grown(prompts[n], prompts'[n], lastId[n])
         /\ DOMAIN prompts' = SyncNodes /\ DOMAIN lastId' = SyncNodes
<1>1. DOMAIN prompts = SyncNodes /\ DOMAIN lastId = SyncNodes /\ lastId[n] \in Nat /\ edits \in Nat
  BY DEF SyncTypeOK
<1>2. PICK f \in Families, x \in Entered, active \in BOOLEAN :
        LET new == NewPrompt(n, f, x)
            with == prompts[n] \cup {new}
        IN  prompts' = [prompts EXCEPT ![n] = IF active THEN WithActive(with, new) ELSE with]
  BY DEF EditPrompt
<1>3. x \in Texts
  BY NodeSyncAssumption
<1> DEFINE Q == prompts'[n]
<1>4. LET new == NewPrompt(n, f, x)
          with == prompts[n] \cup {new}
      IN  Q = with \/ Q = WithActive(with, new)
  BY <1>1, <1>2
<1> HIDE DEF Q
<1>5. Well(Q, lastId[n] + 1) /\ Kept(prompts[n], Q) /\ Grown(prompts[n], Q, lastId[n])
  BY <1>3, <1>4, PromptAdded
<1>6. lastId' = [lastId EXCEPT ![n] = @ + 1] /\ edited' = edited \cup {n} /\ edits' = edits + 1
      /\ UNCHANGED <<agents, teams, servers, run, job, mishaps, emptied>>
  BY DEF EditPrompt, Edit
<1> QED
  BY <1>1, <1>2, <1>5, <1>6 DEF UserTouches, Q

LEMMA RemovePromptStep ==
  ASSUME SyncTypeOK, PromptsNumbered, NEW n \in SyncNodes, RemovePrompt(n)
  PROVE  /\ UserTouches(n) /\ UNCHANGED <<agents, lastId>> /\ DOMAIN prompts' = SyncNodes
         /\ \E p \in prompts[n] :
              /\ prompts'[n] = prompts[n] \ {p}
              /\ emptied' = IF FamilyOf(n, p.family) = {p} THEN emptied \cup {<<n, p.family>>} ELSE emptied
         /\ Well(prompts'[n], lastId[n]) /\ Grown(prompts[n], prompts'[n], lastId[n])
<1>1. DOMAIN prompts = SyncNodes /\ edits \in Nat
  BY DEF SyncTypeOK
<1>2. PICK p \in prompts[n] :
        /\ prompts' = [prompts EXCEPT ![n] = @ \ {p}]
        /\ emptied' = IF FamilyOf(n, p.family) = {p} THEN emptied \cup {<<n, p.family>>} ELSE emptied
  BY DEF RemovePrompt
<1>3. prompts'[n] = prompts[n] \ {p}
  BY <1>1, <1>2
<1>4. Well(prompts[n], lastId[n])
  BY WellPrompts
<1>5. Well(prompts'[n], lastId[n]) /\ Grown(prompts[n], prompts'[n], lastId[n])
  BY <1>3, <1>4 DEF Well, Grown, SamePrompt, Numbered, OneActive
<1>6. UserTouches(n) /\ UNCHANGED <<agents, lastId>>
  BY <1>1, <1>2 DEF RemovePrompt, Edit, UserTouches
<1> QED
  BY <1>1, <1>2, <1>3, <1>5, <1>6

LEMMA EditAgentStep ==
  ASSUME SyncTypeOK, NEW n \in SyncNodes, EditAgent(n)
  PROVE  /\ UserTouches(n) /\ UNCHANGED <<prompts, lastId, emptied>>
         /\ \E a \in Agents, row \in AgentRow \cup {None} :
              /\ agents' = [agents EXCEPT ![n][a] = row]
              /\ row # None => FamilyOf(n, row.family) # {}
<1>1. DOMAIN agents = SyncNodes /\ edits \in Nat
  BY DEF SyncTypeOK
<1>2. PICK a \in Agents :
        \/ agents' = [agents EXCEPT ![n][a] = None]
        \/ \E f \in Families, x \in Entered :
             FamilyOf(n, f) # {} /\ agents' = [agents EXCEPT ![n][a] = [text |-> x, family |-> f]]
  BY DEF EditAgent
<1>3. UserTouches(n) /\ UNCHANGED <<prompts, lastId, emptied>>
  BY <1>1, <1>2 DEF EditAgent, Edit, UserTouches
<1>4. CASE agents' = [agents EXCEPT ![n][a] = None]
  BY <1>3, <1>4
<1>5. ASSUME NEW f \in Families, NEW x \in Entered, FamilyOf(n, f) # {},
             agents' = [agents EXCEPT ![n][a] = [text |-> x, family |-> f]]
      PROVE  \E row \in AgentRow : agents' = [agents EXCEPT ![n][a] = row] /\ FamilyOf(n, row.family) # {}
  <2> DEFINE row == [text |-> x, family |-> f]
  <2>1. row \in AgentRow /\ row.family = f
    BY NodeSyncAssumption DEF AgentRow
  <2> HIDE DEF row
  <2>2. agents' = [agents EXCEPT ![n][a] = row]
    BY <1>5 DEF row
  <2> QED
    BY <1>5, <2>1, <2>2
<1> QED
  BY <1>2, <1>3, <1>4, <1>5

(* nothing but its own job and its own target's definitions                 *)
ImportTouches(r, t) ==
  /\ UNCHANGED <<run, edits, edited, emptied>> /\ mishaps' \in Nat
  /\ job' \in [RunIds -> [Targets -> JobKind]] /\ SameRequest(job[r][t], job'[r][t])
  /\ job[r][t].at \in Kinds /\ job'[r][t].at \in Kinds \cup {"done"}
  /\ job'[r][t].failures = {} => job[r][t].failures = {}
  /\ \A r2 \in RunIds, t2 \in Targets : r2 # r \/ t2 # t => job'[r2][t2] = job[r2][t2]
  /\ \A n \in SyncNodes \ {t} : /\ prompts'[n] = prompts[n] /\ agents'[n] = agents[n] /\ teams'[n] = teams[n]
                                /\ servers'[n] = servers[n] /\ lastId'[n] = lastId[n]
DefsTyped ==
  /\ prompts \in [SyncNodes -> SUBSET Prompt]
  /\ agents \in [SyncNodes -> [Agents -> AgentRow \cup {None}]]
  /\ teams \in [SyncNodes -> [Teams -> TeamRow \cup {None}]]
  /\ servers \in [SyncNodes -> [Servers -> ServerRow \cup {None}]]
  /\ lastId \in [SyncNodes -> Nat]

LEMMA PromptsTyped ==
  ASSUME SyncTypeOK, DOMAIN prompts' = SyncNodes, DOMAIN lastId' = SyncNodes,
         prompts' = [n \in SyncNodes |-> prompts'[n]], lastId' = [n \in SyncNodes |-> lastId'[n]],
         NEW t \in SyncNodes, Well(prompts'[t], lastId'[t]),
         \A n \in SyncNodes \ {t} : prompts'[n] = prompts[n] /\ lastId'[n] = lastId[n]
  PROVE  prompts' \in [SyncNodes -> SUBSET Prompt] /\ lastId' \in [SyncNodes -> Nat]
<1>1. \A n \in SyncNodes : prompts'[n] \in SUBSET Prompt /\ lastId'[n] \in Nat
  BY DEF SyncTypeOK, Well
<1> QED
  BY <1>1

LEMMA MovedOn ==
  ASSUME NEW r \in RunIds, NEW t \in Targets, NEW e, JobMoved(r, t, e), job[r][t].at \in Kinds
  PROVE  /\ SameRequest(job[r][t], job'[r][t]) /\ job'[r][t].at \in Kinds \cup {"done"}
         /\ job' \in [RunIds -> [Targets -> JobKind]]
         /\ \A r2 \in RunIds, t2 \in Targets : r2 # r \/ t2 # t => job'[r2][t2] = job[r2][t2]
BY DEF JobMoved, Moves, After, Kinds

LEMMA ImportStep ==
  ASSUME SyncTypeOK, PromptsNumbered, JobsAreWhole, NEW r \in RunIds, NEW t \in Targets, Import(r, t)
  PROVE  ImportTouches(r, t) /\ DefsTyped'
<1>1. t \in SyncNodes
  BY DEF SyncNodes
<1>2. DefsTyped
  BY DEF SyncTypeOK, DefsTyped
<1>3. CASE List(r, t)
  <2>1. Listed(t, job[r][t], job'[r][t]) /\ job[r][t].at \in Kinds
    BY <1>3, ListStep
  <2>2. SameRequest(job[r][t], job'[r][t]) /\ job'[r][t].at \in Kinds \cup {"done"}
        /\ (job'[r][t].failures = {} => job[r][t].failures = {})
    BY <2>1 DEF Listed, After, Kinds
  <2>3. DefsTyped'
    BY <1>2, <1>3, ListStep DEF DefsTyped, defs
  <2> QED
    BY <1>3, <2>1, <2>2, <2>3, ListStep DEF ImportTouches, defs
<1>4. CASE ImportPrompt(r, t)
  <2>1. PICK p \in job[r][t].left : JobMoved(r, t, p) /\ (Created(r, t, p) \/ Updated(r, t, p) \/ Passed(r, t))
    BY <1>4, PromptStep
  <2>2. job[r][t].at \in Kinds
    BY <1>4, PromptStep DEF Kinds
  <2>3. /\ prompts' = [n \in SyncNodes |-> prompts'[n]] /\ lastId' = [n \in SyncNodes |-> lastId'[n]]
    BY <1>2, <2>1 DEF Created, Updated, Passed, DefsTyped
  <2>4. prompts' \in [SyncNodes -> SUBSET Prompt] /\ lastId' \in [SyncNodes -> Nat]
    BY <1>1, <1>4, <2>3, ImportedPrompts, PromptsTyped
  <2>5. DefsTyped'
    BY <1>2, <1>4, <2>4, PromptStep DEF DefsTyped
  <2> QED
    BY <1>4, <2>1, <2>2, <2>5, MovedOn, PromptStep, ImportedPrompts DEF ImportTouches
<1>5. CASE ImportAgent(r, t)
  <2>1. PICK e \in job[r][t].left :
          e \in NamedAgent /\ JobMoved(r, t, e) /\ (AgentSet(r, t, e) \/ AgentPassed(r, t))
    BY <1>5, AgentStep
  <2>2. job[r][t].at \in Kinds
    BY <1>5, AgentStep DEF Kinds
  <2>3. agents' \in [SyncNodes -> [Agents -> AgentRow \cup {None}]]
        /\ \A n \in SyncNodes \ {t} : agents'[n] = agents[n]
    <3>1. ASSUME NEW row \in AgentRow, agents' = [agents EXCEPT ![t][e.name] = row]
          PROVE  agents' \in [SyncNodes -> [Agents -> AgentRow \cup {None}]]
                 /\ \A n \in SyncNodes \ {t} : agents'[n] = agents[n]
      <4>1. [agents[t] EXCEPT ![e.name] = row] \in [Agents -> AgentRow \cup {None}]
        BY <1>1, <1>2 DEF DefsTyped
      <4>2. agents' = [agents EXCEPT ![t] = [agents[t] EXCEPT ![e.name] = row]]
        BY <3>1
      <4> QED
        BY <1>1, <1>2, <4>1, <4>2 DEF DefsTyped
    <3> QED
      BY <1>2, <2>1, <3>1 DEF AgentSet, AgentPassed, DefsTyped
  <2>4. DefsTyped'
    BY <1>2, <1>5, <2>3, AgentStep DEF DefsTyped
  <2> QED
    BY <1>5, <2>1, <2>2, <2>3, <2>4, MovedOn, AgentStep DEF ImportTouches
<1>6. CASE ImportTeam(r, t)
  <2>1. PICK e \in job[r][t].left :
          e \in NamedTeam /\ JobMoved(r, t, e) /\ (TeamSet(r, t, e) \/ TeamPassed(r, t))
    BY <1>6, TeamStep
  <2>2. job[r][t].at \in Kinds
    BY <1>6, TeamStep DEF Kinds
  <2>3. teams' \in [SyncNodes -> [Teams -> TeamRow \cup {None}]]
        /\ \A n \in SyncNodes \ {t} : teams'[n] = teams[n]
    <3>1. ASSUME teams' = [teams EXCEPT ![t][e.name] = e.row]
          PROVE  teams' \in [SyncNodes -> [Teams -> TeamRow \cup {None}]]
                 /\ \A n \in SyncNodes \ {t} : teams'[n] = teams[n]
      <4>1. [teams[t] EXCEPT ![e.name] = e.row] \in [Teams -> TeamRow \cup {None}]
        BY <1>1, <1>2, <2>1 DEF DefsTyped, NamedTeam
      <4>2. teams' = [teams EXCEPT ![t] = [teams[t] EXCEPT ![e.name] = e.row]]
        BY <3>1
      <4> QED
        BY <1>1, <1>2, <4>1, <4>2 DEF DefsTyped
    <3> QED
      BY <1>2, <2>1, <3>1 DEF TeamSet, TeamPassed, DefsTyped
  <2>4. DefsTyped'
    BY <1>2, <1>6, <2>3, TeamStep DEF DefsTyped
  <2> QED
    BY <1>6, <2>1, <2>2, <2>3, <2>4, MovedOn, TeamStep DEF ImportTouches
<1>7. CASE ImportServer(r, t)
  <2>1. PICK e \in job[r][t].left :
          e \in NamedServer /\ JobMoved(r, t, e) /\ (ServerSet(r, t, e) \/ ServerPassed(r, t))
    BY <1>7, ServerStep
  <2>2. job[r][t].at \in Kinds
    BY <1>7, ServerStep DEF Kinds
  <2>3. servers' \in [SyncNodes -> [Servers -> ServerRow \cup {None}]]
        /\ \A n \in SyncNodes \ {t} : servers'[n] = servers[n]
    <3>1. ASSUME servers' = [servers EXCEPT ![t][e.name] = e.row]
          PROVE  servers' \in [SyncNodes -> [Servers -> ServerRow \cup {None}]]
                 /\ \A n \in SyncNodes \ {t} : servers'[n] = servers[n]
      <4>1. [servers[t] EXCEPT ![e.name] = e.row] \in [Servers -> ServerRow \cup {None}]
        BY <1>1, <1>2, <2>1 DEF DefsTyped, NamedServer
      <4>2. servers' = [servers EXCEPT ![t] = [servers[t] EXCEPT ![e.name] = e.row]]
        BY <3>1
      <4> QED
        BY <1>1, <1>2, <4>1, <4>2 DEF DefsTyped
    <3> QED
      BY <1>2, <2>1, <3>1 DEF ServerSet, ServerPassed, DefsTyped
  <2>4. DefsTyped'
    BY <1>2, <1>7, <2>3, ServerStep DEF DefsTyped
  <2> QED
    BY <1>7, <2>1, <2>2, <2>3, <2>4, MovedOn, ServerStep DEF ImportTouches
<1> QED
  BY <1>3, <1>4, <1>5, <1>6, <1>7 DEF Import

-----------------------------------------------------------------------------
(* The synchronisation: every step keeps the types, and the prompts in order *)

Early == Checked \/ Unhealthy \/ ExportFails
ResultComes == SendFails \/ Answered \/ AnswerLost
RunStep == Early \/ Select \/ ExportPrompts \/ ExportAgents \/ ExportRest \/ ResultComes \/ End

LEMMA StepCases ==
  ASSUME SyncNext
  PROVE  \/ \E plan \in Plans : StartRun(plan)
         \/ RunStep \/ Send
         \/ \E r \in RunIds, t \in Targets : Import(r, t)
         \/ \E n \in SyncNodes : EditPrompt(n) \/ RemovePrompt(n) \/ EditAgent(n)
BY DEF SyncNext, RunStep, Early, ResultComes

LEMMA RunStepsAreLocal ==
  ASSUME SyncTypeOK, RunFollowsPlan, TargetsInTurn, RunStep
  PROVE  run' \in RunKind /\ RunOnly /\ KeepsPlan /\ run.at \notin {"idle", "ended"} /\ run'.at # "idle"
<1>1. CASE Early
  BY <1>1, EarlyStep DEF Early, Exporting
<1>2. CASE Select
  BY <1>2, SelectStep
<1>3. CASE ExportPrompts
  BY <1>3, ExportPromptsStep
<1>4. CASE ExportAgents
  BY <1>4, ExportAgentsStep
<1>5. CASE ExportRest
  BY <1>5, ExportRestStep
<1>6. CASE ResultComes
  BY <1>6, ResultStep DEF ResultComes
<1>7. CASE End
  BY <1>7, EndStep
<1> QED
  BY <1>1, <1>2, <1>3, <1>4, <1>5, <1>6, <1>7 DEF RunStep

LEMMA TypesKept ==
  ASSUME SyncTypeOK, PromptsNumbered, RunFollowsPlan, TargetsInTurn, JobsAreWhole, SyncNext
  PROVE  SyncTypeOK'
<1>0. DefsTyped /\ run \in RunKind /\ job \in [RunIds -> [Targets -> JobKind]]
      /\ edits \in Nat /\ mishaps \in Nat /\ edited \subseteq SyncNodes
  BY DEF SyncTypeOK, DefsTyped
<1>1. ASSUME UNCHANGED defs
      PROVE  DefsTyped'
  BY <1>0, <1>1 DEF DefsTyped, defs
<1>2. ASSUME NEW plan \in Plans, StartRun(plan)
      PROVE  SyncTypeOK'
  <2>1. edited' \subseteq SyncNodes
    BY <1>2, StartRunStep DEF SyncNodes
  <2>2. run' \in RunKind /\ Elsewhere /\ UNCHANGED job
    BY <1>2, StartRunStep
  <2>3. DefsTyped'
    BY <1>1, <2>2 DEF Elsewhere
  <2> QED
    BY <1>0, <2>1, <2>2, <2>3 DEF SyncTypeOK, DefsTyped, Elsewhere
<1>3. CASE RunStep
  <2>1. run' \in RunKind /\ RunOnly
    BY <1>3, RunStepsAreLocal
  <2>2. DefsTyped'
    BY <1>1, <2>1 DEF RunOnly, Elsewhere
  <2> QED
    BY <1>0, <2>1, <2>2 DEF SyncTypeOK, DefsTyped, RunOnly, Elsewhere
<1>4. CASE Send
  <2> DEFINE t == Head(run.left)
  <2>1. /\ run' \in RunKind /\ Elsewhere /\ UNCHANGED edited /\ t \in Targets /\ run.no \in RunIds
        /\ ImportRequest \in JobKind /\ JobPut(run.no, t, ImportRequest)
    BY <1>4, SendStep
  <2> HIDE DEF t
  <2>2. job' \in [RunIds -> [Targets -> JobKind]]
    BY <2>1 DEF JobPut
  <2>3. DefsTyped'
    BY <1>1, <2>1 DEF Elsewhere
  <2> QED
    BY <1>0, <2>1, <2>2, <2>3 DEF SyncTypeOK, DefsTyped, Elsewhere
<1>5. ASSUME NEW r \in RunIds, NEW t \in Targets, Import(r, t)
      PROVE  SyncTypeOK'
  <2>1. ImportTouches(r, t) /\ DefsTyped'
    BY <1>5, ImportStep
  <2> QED
    BY <1>0, <2>1 DEF SyncTypeOK, DefsTyped, ImportTouches
<1>6. ASSUME NEW n \in SyncNodes, EditPrompt(n)
      PROVE  SyncTypeOK'
  <2>1. /\ UserTouches(n) /\ UNCHANGED agents /\ Well(prompts'[n], lastId'[n])
        /\ DOMAIN prompts' = SyncNodes /\ DOMAIN lastId' = SyncNodes
    BY <1>6, EditPromptStep
  <2>2. prompts' = [m \in SyncNodes |-> prompts'[m]] /\ lastId' = [m \in SyncNodes |-> lastId'[m]]
    BY <1>0, <1>6 DEF EditPrompt, DefsTyped
  <2>3. prompts' \in [SyncNodes -> SUBSET Prompt] /\ lastId' \in [SyncNodes -> Nat]
    BY <2>1, <2>2, PromptsTyped DEF UserTouches
  <2> QED
    BY <1>0, <2>1, <2>3 DEF SyncTypeOK, DefsTyped, UserTouches
<1>7. ASSUME NEW n \in SyncNodes, RemovePrompt(n)
      PROVE  SyncTypeOK'
  <2>1. UserTouches(n) /\ UNCHANGED <<agents, lastId>>
    BY <1>7, RemovePromptStep
  <2>2. prompts' \in [SyncNodes -> SUBSET Prompt]
    BY <1>0, <1>7 DEF RemovePrompt, DefsTyped
  <2> QED
    BY <1>0, <2>1, <2>2 DEF SyncTypeOK, DefsTyped, UserTouches
<1>8. ASSUME NEW n \in SyncNodes, EditAgent(n)
      PROVE  SyncTypeOK'
  <2>1. UserTouches(n) /\ UNCHANGED <<prompts, lastId>>
    BY <1>8, EditAgentStep
  <2>2. PICK a \in Agents, row \in AgentRow \cup {None} : agents' = [agents EXCEPT ![n][a] = row]
    BY <1>8, EditAgentStep
  <2>3. [agents[n] EXCEPT ![a] = row] \in [Agents -> AgentRow \cup {None}]
    BY <1>0 DEF DefsTyped
  <2>4. agents' = [agents EXCEPT ![n] = [agents[n] EXCEPT ![a] = row]]
    BY <2>2
  <2>5. agents' \in [SyncNodes -> [Agents -> AgentRow \cup {None}]]
    BY <1>0, <2>3, <2>4 DEF DefsTyped
  <2> QED
    BY <1>0, <2>1, <2>5 DEF SyncTypeOK, DefsTyped, UserTouches
<1> QED
  BY <1>2, <1>3, <1>4, <1>5, <1>6, <1>7, <1>8, StepCases

LEMMA NumbersKept ==
  ASSUME SyncTypeOK, PromptsNumbered, RunFollowsPlan, TargetsInTurn, JobsAreWhole, SyncNext
  PROVE  PromptsNumbered'
<1>1. ASSUME UNCHANGED <<prompts, lastId>>
      PROVE  PromptsNumbered'
  BY <1>1 DEF PromptsNumbered
<1>2. ASSUME NEW n \in SyncNodes, Well(prompts'[n], lastId'[n]),
             \A m \in SyncNodes \ {n} : prompts'[m] = prompts[m] /\ lastId'[m] = lastId[m]
      PROVE  PromptsNumbered'
  <2>1. ASSUME NEW m \in SyncNodes
        PROVE  Numbered(prompts'[m], lastId'[m]) /\ OneActive(prompts'[m])
    BY <1>2 DEF PromptsNumbered, Well
  <2> QED
    BY <2>1 DEF PromptsNumbered
<1>3. ASSUME NEW plan \in Plans, StartRun(plan)
      PROVE  PromptsNumbered'
  BY <1>1, <1>3, StartRunStep DEF Elsewhere, defs
<1>4. CASE RunStep
  BY <1>1, <1>4, RunStepsAreLocal DEF RunOnly, Elsewhere, defs
<1>5. CASE Send
  BY <1>1, <1>5, SendStep DEF Elsewhere, defs
<1>6. ASSUME NEW r \in RunIds, NEW t \in Targets, Import(r, t)
      PROVE  PromptsNumbered'
  <2>1. CASE ImportPrompt(r, t)
    <3>1. t \in SyncNodes
      BY DEF SyncNodes
    <3> QED
      BY <1>2, <2>1, <3>1, ImportedPrompts
  <2>2. CASE List(r, t)
    BY <1>1, <2>2, ListStep DEF defs
  <2>3. CASE ImportAgent(r, t)
    BY <1>1, <2>3, AgentStep
  <2>4. CASE ImportTeam(r, t)
    BY <1>1, <2>4, TeamStep
  <2>5. CASE ImportServer(r, t)
    BY <1>1, <2>5, ServerStep
  <2> QED
    BY <1>6, <2>1, <2>2, <2>3, <2>4, <2>5 DEF Import
<1>7. ASSUME NEW n \in SyncNodes, EditPrompt(n) \/ RemovePrompt(n) \/ EditAgent(n)
      PROVE  PromptsNumbered'
  <2>1. CASE EditPrompt(n)
    BY <1>2, <2>1, EditPromptStep DEF UserTouches
  <2>2. CASE RemovePrompt(n)
    BY <1>2, <2>2, RemovePromptStep DEF UserTouches
  <2>3. CASE EditAgent(n)
    BY <1>1, <2>3, EditAgentStep
  <2> QED
    BY <1>7, <2>1, <2>2, <2>3
<1> QED
  BY <1>3, <1>4, <1>5, <1>6, <1>7, StepCases

(* Only a user's removal leaves a family of an agent without prompts.       *)
LEMMA FamiliesKept ==
  ASSUME SyncTypeOK, PromptsNumbered, RunFollowsPlan, TargetsInTurn, JobsAreWhole, FamiliesHavePrompts, SyncNext
  PROVE  FamiliesHavePrompts'
<1> DEFINE Has(n, f) == (\E p \in prompts[n] : p.family = f) \/ <<n, f>> \in emptied
           StillHas(n, f) == (\E p \in prompts'[n] : p.family = f) \/ <<n, f>> \in emptied'
<1>0. \A n \in SyncNodes, a \in Agents : agents[n][a] # None => Has(n, agents[n][a].family)
  BY DEF FamiliesHavePrompts
<1>1. ASSUME UNCHANGED <<prompts, agents, emptied>>
      PROVE  FamiliesHavePrompts'
  BY <1>1 DEF FamiliesHavePrompts
<1>2. ASSUME NEW n \in SyncNodes, UNCHANGED <<agents, emptied>>, Kept(prompts[n], prompts'[n]),
             \A m \in SyncNodes \ {n} : prompts'[m] = prompts[m]
      PROVE  FamiliesHavePrompts'
  <2>1. ASSUME NEW m \in SyncNodes, NEW f, Has(m, f)
        PROVE  StillHas(m, f)
    BY <1>2, <2>1 DEF Kept, SamePrompt
  <2> HIDE DEF Has, StillHas
  <2>2. \A m \in SyncNodes, a \in Agents : agents'[m][a] # None => StillHas(m, agents'[m][a].family)
    BY <1>0, <1>2, <2>1
  <2> QED
    BY <2>2 DEF FamiliesHavePrompts, StillHas
<1>3. ASSUME NEW n \in SyncNodes, NEW a, NEW row \in AgentRow \cup {None}, UNCHANGED <<prompts, emptied>>,
             agents' = [agents EXCEPT ![n][a] = row],
             row # None => FamilyOf(n, row.family) # {} \/ (a \in Agents /\ agents[n][a] # None /\ row.family = agents[n][a].family)
      PROVE  FamiliesHavePrompts'
  <2>1. row # None => Has(n, row.family)
    BY <1>0, <1>3 DEF FamilyOf
  <2>2. ASSUME NEW m \in SyncNodes, NEW b \in Agents, agents'[m][b] # None
        PROVE  Has(m, agents'[m][b].family)
    <3>1. agents'[m][b] = IF m = n /\ b = a THEN row ELSE agents[m][b]
      BY <1>3 DEF SyncTypeOK
    <3> QED
      BY <1>0, <2>1, <2>2, <3>1
  <2> QED
    BY <1>3, <2>2 DEF FamiliesHavePrompts
<1>4. ASSUME NEW plan \in Plans, StartRun(plan)
      PROVE  FamiliesHavePrompts'
  BY <1>1, <1>4, StartRunStep DEF Elsewhere, defs
<1>5. CASE RunStep
  BY <1>1, <1>5, RunStepsAreLocal DEF RunOnly, Elsewhere, defs
<1>6. CASE Send
  BY <1>1, <1>6, SendStep DEF Elsewhere, defs
<1>7. ASSUME NEW r \in RunIds, NEW t \in Targets, Import(r, t)
      PROVE  FamiliesHavePrompts'
  <2>0. t \in SyncNodes
    BY DEF SyncNodes
  <2>1. CASE ImportPrompt(r, t)
    BY <1>2, <2>0, <2>1, ImportedPrompts, PromptStep
  <2>2. CASE List(r, t)
    BY <1>1, <2>2, ListStep DEF defs
  <2>3. CASE ImportAgent(r, t)
    <3>1. UNCHANGED <<prompts, emptied>>
      BY <2>3, AgentStep
    <3>2. PICK e \in NamedAgent : AgentSet(r, t, e) \/ AgentPassed(r, t)
      BY <2>3, AgentStep
    <3>3. CASE AgentPassed(r, t)
      BY <1>1, <3>1, <3>3 DEF AgentPassed
    <3>4. CASE AgentSet(r, t, e)
      <4>1. e.name \in Agents
        BY DEF NamedAgent
      <4>2. PICK row \in AgentRow :
              /\ agents' = [agents EXCEPT ![t][e.name] = row]
              /\ \/ FamilyOf(t, row.family) # {}
                 \/ agents[t][e.name] # None /\ row.family = agents[t][e.name].family
        BY <3>4 DEF AgentSet
      <4> QED
        BY <1>3, <2>0, <3>1, <4>1, <4>2
    <3> QED
      BY <3>2, <3>3, <3>4
  <2>4. CASE ImportTeam(r, t)
    BY <1>1, <2>4, TeamStep
  <2>5. CASE ImportServer(r, t)
    BY <1>1, <2>5, ServerStep
  <2> QED
    BY <1>7, <2>1, <2>2, <2>3, <2>4, <2>5 DEF Import
<1>8. ASSUME NEW n \in SyncNodes, EditPrompt(n)
      PROVE  FamiliesHavePrompts'
  BY <1>2, <1>8, EditPromptStep DEF UserTouches
<1>9. ASSUME NEW n \in SyncNodes, RemovePrompt(n)
      PROVE  FamiliesHavePrompts'
  <2>1. UserTouches(n) /\ UNCHANGED agents
    BY <1>9, RemovePromptStep
  <2>2. PICK p \in prompts[n] :
          /\ prompts'[n] = prompts[n] \ {p}
          /\ emptied' = IF FamilyOf(n, p.family) = {p} THEN emptied \cup {<<n, p.family>>} ELSE emptied
    BY <1>9, RemovePromptStep
  <2>3. ASSUME NEW m \in SyncNodes, NEW f, Has(m, f)
        PROVE  StillHas(m, f)
    <3>1. CASE m # n
      BY <2>1, <2>2, <2>3, <3>1 DEF UserTouches
    <3>2. CASE m = n /\ f # p.family
      BY <2>2, <2>3, <3>2
    <3>3. CASE m = n /\ f = p.family
      BY <2>2, <2>3, <3>3 DEF FamilyOf
    <3> QED
      BY <3>1, <3>2, <3>3
  <2> HIDE DEF Has, StillHas
  <2>4. \A m \in SyncNodes, a \in Agents : agents'[m][a] # None => StillHas(m, agents'[m][a].family)
    BY <1>0, <2>1, <2>3
  <2> QED
    BY <2>4 DEF FamiliesHavePrompts, StillHas
<1>10. ASSUME NEW n \in SyncNodes, EditAgent(n)
       PROVE  FamiliesHavePrompts'
  BY <1>3, <1>10, EditAgentStep
<1> QED
  BY <1>4, <1>5, <1>6, <1>7, <1>8, <1>9, <1>10, StepCases

-----------------------------------------------------------------------------
(* The synchronisation: every step keeps the run and its bundle whole       *)

LEMMA PlanKept ==
  ASSUME SyncTypeOK, PromptsNumbered, RunFollowsPlan, TargetsInTurn, JobsAreWhole, SyncNext
  PROVE  RunFollowsPlan'
<1>1. ASSUME UNCHANGED run
      PROVE  RunFollowsPlan'
  BY <1>1 DEF RunFollowsPlan, Distinct, TargetsOf
<1>2. ASSUME NEW plan \in Plans, StartRun(plan)
      PROVE  RunFollowsPlan'
  BY <1>2, StartRunStep DEF RunFollowsPlan, Distinct, TargetsOf
<1>3. ASSUME KeepsPlan, run.at \notin {"idle", "ended"}, run'.at # "idle"
      PROVE  RunFollowsPlan'
  BY <1>3 DEF RunFollowsPlan, Distinct, TargetsOf, KeepsPlan
<1>4. CASE RunStep
  BY <1>3, <1>4, RunStepsAreLocal
<1>5. CASE Send
  BY <1>3, <1>5, SendStep
<1>6. ASSUME NEW r \in RunIds, NEW t \in Targets, Import(r, t)
      PROVE  RunFollowsPlan'
  BY <1>1, <1>6, ImportStep DEF ImportTouches
<1>7. ASSUME NEW n \in SyncNodes, EditPrompt(n) \/ RemovePrompt(n) \/ EditAgent(n)
      PROVE  RunFollowsPlan'
  BY <1>1, <1>7, EditPromptStep, RemovePromptStep, EditAgentStep DEF UserTouches
<1> QED
  BY <1>2, <1>4, <1>5, <1>6, <1>7, StepCases

LEMMA UsersKeepRun ==
  ASSUME SyncTypeOK, PromptsNumbered, NEW n \in SyncNodes, EditPrompt(n) \/ RemovePrompt(n) \/ EditAgent(n)
  PROVE  UserTouches(n)
BY EditPromptStep, RemovePromptStep, EditAgentStep

LEMMA BundleKept ==
  ASSUME SyncTypeOK, PromptsNumbered, RunFollowsPlan, BundleIsOnePerName, TargetsInTurn, JobsAreWhole, SyncNext
  PROVE  BundleIsOnePerName'
<1>1. ASSUME UNCHANGED run
      PROVE  BundleIsOnePerName'
  BY <1>1 DEF BundleIsOnePerName, OneActive
<1>2. ASSUME NEW plan \in Plans, StartRun(plan)
      PROVE  BundleIsOnePerName'
  BY <1>2, StartRunStep DEF BundleIsOnePerName, OneActive, NoBundle
<1>3. ASSUME KeepsPlan, run'.bundle = run.bundle, run.at # "idle"
      PROVE  BundleIsOnePerName'
  BY <1>3 DEF BundleIsOnePerName, OneActive, KeepsPlan
<1>4. CASE Early \/ Select \/ ResultComes \/ End \/ Send
  <2>1. KeepsPlan /\ run'.bundle = run.bundle
    BY <1>4, EarlyStep, SelectStep, ResultStep, EndStep, SendStep DEF Early, ResultComes, KeepsExport
  <2>2. run.at # "idle"
    BY <1>4, RunStepsAreLocal, SendStep DEF RunStep
  <2> QED
    BY <1>3, <2>1, <2>2
<1>5. CASE ExportPrompts
  <2>1. Numbered(prompts[Source], lastId[Source]) /\ OneActive(prompts[Source])
    BY DEF PromptsNumbered, SyncNodes
  <2>2. /\ run'.bundle.prompts \subseteq prompts[Source]
        /\ "prompt" \notin run.plan.scope => run'.bundle.prompts = {}
        /\ run'.bundle.agents = run.bundle.agents /\ run'.bundle.teams = run.bundle.teams
        /\ run'.bundle.servers = run.bundle.servers /\ KeepsPlan /\ run.at # "idle"
    BY <1>5, ExportPromptsStep
  <2>3. /\ \A p, q \in run'.bundle.prompts : p.family = q.family /\ p.version = q.version => p = q
        /\ OneActive(run'.bundle.prompts)
    BY <2>1, <2>2 DEF Numbered, OneActive
  <2> QED
    BY <2>2, <2>3 DEF BundleIsOnePerName, KeepsPlan
<1>6. CASE ExportAgents
  <2>1. /\ \A d, e \in run'.bundle.agents : d.name = e.name => d = e
        /\ "agent" \notin run.plan.scope => run'.bundle.agents = {}
    BY <1>6, ExportAgentsStep
  <2>2. /\ run'.bundle.prompts = run.bundle.prompts /\ run'.bundle.teams = run.bundle.teams
        /\ run'.bundle.servers = run.bundle.servers /\ KeepsPlan /\ run.at # "idle"
    BY <1>6, ExportAgentsStep
  <2> QED
    BY <2>1, <2>2 DEF BundleIsOnePerName, KeepsPlan, OneActive
<1>7. CASE ExportRest
  <2>1. /\ \A d, e \in run'.bundle.teams : d.name = e.name => d = e
        /\ \A d, e \in run'.bundle.servers : d.name = e.name => d = e
        /\ "team" \notin run.plan.scope => run'.bundle.teams = {}
        /\ "server" \notin run.plan.scope => run'.bundle.servers = {}
    BY <1>7, ExportRestStep
  <2>2. /\ run'.bundle.prompts = run.bundle.prompts /\ run'.bundle.agents = run.bundle.agents
        /\ KeepsPlan /\ run.at # "idle"
    BY <1>7, ExportRestStep
  <2> QED
    BY <2>1, <2>2 DEF BundleIsOnePerName, KeepsPlan, OneActive
<1>8. ASSUME NEW r \in RunIds, NEW t \in Targets, Import(r, t)
      PROVE  BundleIsOnePerName'
  BY <1>1, <1>8, ImportStep DEF ImportTouches
<1>9. ASSUME NEW n \in SyncNodes, EditPrompt(n) \/ RemovePrompt(n) \/ EditAgent(n)
      PROVE  BundleIsOnePerName'
  BY <1>1, <1>9, UsersKeepRun DEF UserTouches
<1> QED
  BY <1>2, <1>4, <1>5, <1>6, <1>7, <1>8, <1>9, StepCases DEF RunStep

(* the source is not a target: while no user edits it, nothing else does    *)
SourceStays ==
  prompts'[Source] = prompts[Source] /\ agents'[Source] = agents[Source] /\ teams'[Source] = teams[Source]

LEMMA SourceKept ==
  ASSUME SyncTypeOK, PromptsNumbered, RunFollowsPlan, TargetsInTurn, JobsAreWhole, SyncNext,
         \A plan \in Plans : ~StartRun(plan), Source \notin edited'
  PROVE  SourceStays /\ Source \notin edited /\ emptied \subseteq emptied'
<1>1. CASE RunStep
  BY <1>1, RunStepsAreLocal DEF RunOnly, Elsewhere, defs, SourceStays
<1>2. CASE Send
  BY <1>2, SendStep DEF Elsewhere, defs, SourceStays
<1>3. ASSUME NEW r \in RunIds, NEW t \in Targets, Import(r, t)
      PROVE  SourceStays /\ Source \notin edited /\ emptied \subseteq emptied'
  <2>1. Source \in SyncNodes \ {t}
    BY NodeSyncAssumption DEF SyncNodes
  <2> QED
    BY <1>3, <2>1, ImportStep DEF ImportTouches, SourceStays
<1>4. ASSUME NEW n \in SyncNodes, EditPrompt(n) \/ RemovePrompt(n) \/ EditAgent(n)
      PROVE  SourceStays /\ Source \notin edited /\ emptied \subseteq emptied'
  <2>1. UserTouches(n)
    BY <1>4, UsersKeepRun
  <2>2. Source \in SyncNodes \ {n} /\ Source \notin edited
    BY <2>1 DEF UserTouches, SyncNodes
  <2>3. emptied \subseteq emptied'
    BY <1>4, EditPromptStep, RemovePromptStep, EditAgentStep
  <2> QED
    BY <2>1, <2>2, <2>3 DEF UserTouches, SourceStays
<1> QED
  BY <1>1, <1>2, <1>3, <1>4, StepCases

LEMMA ClosureKept ==
  ASSUME SyncTypeOK, PromptsNumbered, FamiliesHavePrompts, RunFollowsPlan, ChosenIsClosed, ExportIsClosed,
         TargetsInTurn, JobsAreWhole, SyncNext
  PROVE  ChosenIsClosed' /\ ExportIsClosed'
<1> SUFFICES ASSUME WithDependencies'
             PROVE  ChosenIsClosed' /\ ExportIsClosed'
  BY DEF ChosenIsClosed, ExportIsClosed
<1>1. /\ Source \notin edited' /\ run'.at \in Exporting \cup {"next", "waiting"}
      /\ run'.plan.selection # None /\ run'.plan.selection.dependencies /\ run'.plan.scope = Kinds
  BY DEF WithDependencies
<1>2. \A plan \in Plans : ~StartRun(plan)
  BY <1>1, StartRunStep DEF Exporting
<1>3. SourceStays /\ Source \notin edited /\ emptied \subseteq emptied'
  BY <1>1, <1>2, SourceKept
<1>4. ASSUME KeepsPlan, KeepsExport, run.at \in Exporting \cup {"next", "waiting"},
             run'.at = run.at \/ (run.at \in {"next", "waiting"} /\ run'.at \in {"next", "waiting"})
      PROVE  ChosenIsClosed' /\ ExportIsClosed'
  <2>1. WithDependencies
    BY <1>1, <1>3, <1>4 DEF WithDependencies, KeepsPlan
  <2>2. ChosenIsClosed'
    BY <1>3, <1>4, <2>1 DEF ChosenIsClosed, KeepsExport, SourceStays
  <2>3. ExportIsClosed'
    BY <1>3, <1>4, <2>1 DEF ExportIsClosed, KeepsExport, SourceStays, Named, Exporting
  <2> QED
    BY <2>2, <2>3
<1>5. ASSUME KeepsPlan, run'.chosen = run.chosen, run.at \in Exporting
      PROVE  /\ WithDependencies /\ ChosenIsClosed' /\ run.plan.selection # None /\ run.plan.scope = Kinds
             /\ run.chosen \in ChosenKind /\ ~All
             /\ Chosen("families") = run.chosen.families /\ Chosen("agents") = run.chosen.agents
             /\ Chosen("teams") = run.chosen.teams
  <2>1. WithDependencies
    BY <1>1, <1>3, <1>5 DEF WithDependencies, KeepsPlan
  <2> QED
    BY <1>3, <1>5, <2>1 DEF ChosenIsClosed, SourceStays, WithDependencies, All, Chosen
<1>6. CASE Early
  BY <1>1, <1>6, EarlyStep DEF Early, Exporting
<1>7. CASE Select
  <2>1. run'.at = "exportPrompts" /\ KeepsPlan
    BY <1>1, <1>7, SelectStep DEF Exporting
  <2>2. /\ run'.chosen = Resolved(run.plan.selection) /\ run.plan.selection \in Selection
        /\ Resolvable(run.plan.selection) /\ run.plan.selection.dependencies
    BY <1>1, <1>7, <2>1, SelectStep DEF KeepsPlan
  <2>3. /\ run'.chosen \in ChosenKind
        /\ \A t \in run'.chosen.teams : /\ teams[Source][t] # None
                                        /\ teams[Source][t].teams \subseteq run'.chosen.teams
                                        /\ teams[Source][t].agents \subseteq run'.chosen.agents
        /\ \A a \in run'.chosen.agents : agents[Source][a] # None /\ agents[Source][a].family \in run'.chosen.families
    BY <2>2, ResolvedFacts
  <2>4. ChosenIsClosed'
    BY <1>3, <2>3 DEF ChosenIsClosed, SourceStays
  <2>5. ExportIsClosed'
    BY <2>1 DEF ExportIsClosed
  <2> QED
    BY <2>4, <2>5
<1>8. CASE ExportPrompts
  <2>1. /\ run.at = "exportPrompts" /\ run'.at = "exportAgents" /\ KeepsPlan /\ run'.chosen = run.chosen
        /\ run'.bundle.prompts = IF "prompt" \in run.plan.scope
                                 THEN {p \in prompts[Source] : All \/ p.family \in Chosen("families")} ELSE {}
    BY <1>8, ExportPromptsStep
  <2>2. /\ WithDependencies /\ ChosenIsClosed' /\ run.chosen \in ChosenKind /\ run.plan.scope = Kinds
        /\ Chosen("families") = run.chosen.families
    BY <1>5, <2>1 DEF Exporting
  <2>3. ASSUME NEW a \in run.chosen.agents
        PROVE  \/ \E p \in run'.bundle.prompts : p.family = agents'[Source][a].family
               \/ <<Source, agents'[Source][a].family>> \in emptied'
    <3>1. a \in Agents /\ agents[Source][a] # None /\ agents[Source][a].family \in run.chosen.families
      BY <2>2 DEF ChosenIsClosed, ChosenKind
    <3>2. (\E p \in prompts[Source] : p.family = agents[Source][a].family) \/ <<Source, agents[Source][a].family>> \in emptied
      BY <3>1 DEF FamiliesHavePrompts, SyncNodes
    <3>3. \A p \in prompts[Source] : p.family = agents[Source][a].family => p \in run'.bundle.prompts
      BY <2>1, <2>2, <3>1 DEF Kinds
    <3> QED
      BY <1>3, <3>2, <3>3 DEF SourceStays
  <2>4. ExportIsClosed'
    BY <2>1, <2>3 DEF ExportIsClosed
  <2> QED
    BY <2>2, <2>4
<1>9. CASE ExportAgents
  <2>1. /\ run.at = "exportAgents" /\ run'.at = "exportTeams" /\ KeepsPlan /\ run'.chosen = run.chosen
        /\ run'.bundle.prompts = run.bundle.prompts
        /\ run'.bundle.agents =
              {[name |-> a, row |-> agents[Source][a]] :
                 a \in {b \in Agents : /\ "agent" \in run.plan.scope /\ agents[Source][b] # None
                                       /\ All \/ b \in Chosen("agents")}}
    BY <1>9, ExportAgentsStep
  <2>2. /\ WithDependencies /\ ChosenIsClosed' /\ run.chosen \in ChosenKind /\ run.plan.scope = Kinds /\ ~All
        /\ Chosen("agents") = run.chosen.agents
    BY <1>5, <2>1 DEF Exporting
  <2>3. \A a \in run.chosen.agents : /\ a \in Agents /\ agents[Source][a] # None
                                     /\ \/ \E p \in run.bundle.prompts : p.family = agents[Source][a].family
                                        \/ <<Source, agents[Source][a].family>> \in emptied
    BY <2>1, <2>2 DEF ChosenIsClosed, ExportIsClosed, ChosenKind
  <2>4. run'.bundle.agents = {[name |-> a, row |-> agents[Source][a]] : a \in run.chosen.agents}
    BY <2>1, <2>2, <2>3 DEF Kinds
  <2>5. run'.chosen.agents \subseteq Named(run'.bundle.agents)
    <3>1. ASSUME NEW a \in run.chosen.agents
          PROVE  \E e \in run'.bundle.agents : e.name = a
      <4> DEFINE e == [name |-> a, row |-> agents[Source][a]]
      <4>1. e \in run'.bundle.agents /\ e.name = a
        BY <2>4
      <4> QED
        BY <4>1
    <3> QED
      BY <2>1, <3>1 DEF Named
  <2>6. ASSUME NEW e \in run'.bundle.agents
        PROVE  \/ \E p \in run'.bundle.prompts : p.family = e.row.family
               \/ <<Source, e.row.family>> \in emptied'
    <3>1. PICK a \in run.chosen.agents : e = [name |-> a, row |-> agents[Source][a]]
      BY <2>4
    <3>2. e.row.family = agents[Source][a].family
      BY <3>1
    <3> QED
      BY <1>3, <2>1, <2>3, <3>2
  <2>7. \A a \in run'.chosen.agents : \/ \E p \in run'.bundle.prompts : p.family = agents'[Source][a].family
                                      \/ <<Source, agents'[Source][a].family>> \in emptied'
    BY <1>3, <2>1, <2>3 DEF SourceStays
  <2>8. ExportIsClosed'
    BY <2>1, <2>5, <2>6, <2>7 DEF ExportIsClosed
  <2> QED
    BY <2>2, <2>8
<1>10. CASE ExportRest
  <2>1. /\ run.at = "exportTeams" /\ run'.at = "next" /\ KeepsPlan /\ run'.chosen = run.chosen
        /\ run'.bundle.prompts = run.bundle.prompts /\ run'.bundle.agents = run.bundle.agents
        /\ run'.bundle.teams =
              {[name |-> t, row |-> teams[Source][t]] :
                 t \in {u \in Teams : /\ "team" \in run.plan.scope /\ teams[Source][u] # None
                                      /\ All \/ u \in Chosen("teams")}}
    BY <1>10, ExportRestStep
  <2>2. /\ WithDependencies /\ ChosenIsClosed' /\ run.chosen \in ChosenKind /\ run.plan.scope = Kinds /\ ~All
        /\ Chosen("teams") = run.chosen.teams
    BY <1>5, <2>1 DEF Exporting
  <2>3. \A t \in run.chosen.teams : /\ t \in Teams /\ teams[Source][t] # None
                                    /\ teams[Source][t].teams \subseteq run.chosen.teams
                                    /\ teams[Source][t].agents \subseteq run.chosen.agents
    BY <2>2 DEF ChosenIsClosed, ChosenKind
  <2>4. run'.bundle.teams = {[name |-> t, row |-> teams[Source][t]] : t \in run.chosen.teams}
    BY <2>1, <2>2, <2>3 DEF Kinds
  <2>5. /\ run.chosen.agents \subseteq Named(run.bundle.agents)
        /\ \A e \in run.bundle.agents : \/ \E p \in run.bundle.prompts : p.family = e.row.family
                                        \/ <<Source, e.row.family>> \in emptied
        /\ \A a \in run.chosen.agents : \/ \E p \in run.bundle.prompts : p.family = agents[Source][a].family
                                        \/ <<Source, agents[Source][a].family>> \in emptied
    BY <2>1, <2>2 DEF ExportIsClosed
  <2>6. run.chosen.teams \subseteq Named(run'.bundle.teams)
    <3>1. ASSUME NEW t \in run.chosen.teams
          PROVE  \E e \in run'.bundle.teams : e.name = t
      <4> DEFINE e == [name |-> t, row |-> teams[Source][t]]
      <4>1. e \in run'.bundle.teams /\ e.name = t
        BY <2>4
      <4> QED
        BY <4>1
    <3> QED
      BY <3>1 DEF Named
  <2>7. ASSUME NEW e \in run'.bundle.teams
        PROVE  e.row.agents \subseteq Named(run'.bundle.agents) /\ e.row.teams \subseteq Named(run'.bundle.teams)
    <3>1. PICK t \in run.chosen.teams : e = [name |-> t, row |-> teams[Source][t]]
      BY <2>4
    <3>2. e.row = teams[Source][t]
      BY <3>1
    <3>3. e.row.teams \subseteq run.chosen.teams /\ e.row.agents \subseteq run.chosen.agents
      BY <2>3, <3>2
    <3> QED
      BY <2>1, <2>5, <2>6, <3>3
  <2>8. ExportIsClosed'
    BY <1>3, <2>1, <2>5, <2>7 DEF ExportIsClosed, SourceStays, Named
  <2> QED
    BY <2>2, <2>8
<1>11. CASE Send \/ ResultComes
  <2>1. KeepsPlan /\ KeepsExport /\ run.at \in {"next", "waiting"} /\ run'.at \in {"next", "waiting"}
    BY <1>11, SendStep, ResultStep DEF ResultComes
  <2> QED
    BY <1>4, <2>1
<1>12. CASE End
  BY <1>1, <1>12, EndStep DEF Exporting
<1>13. CASE UNCHANGED run
  BY <1>1, <1>4, <1>13 DEF KeepsPlan, KeepsExport
<1>14. ASSUME NEW r \in RunIds, NEW t \in Targets, Import(r, t)
       PROVE  UNCHANGED run
  BY <1>14, ImportStep DEF ImportTouches
<1>15. ASSUME NEW n \in SyncNodes, EditPrompt(n) \/ RemovePrompt(n) \/ EditAgent(n)
       PROVE  UNCHANGED run
  BY <1>15, UsersKeepRun DEF UserTouches
<1> QED
  BY <1>2, <1>6, <1>7, <1>8, <1>9, <1>10, <1>11, <1>12, <1>13, <1>14, <1>15, StepCases DEF RunStep

-----------------------------------------------------------------------------
(* The synchronisation: every step keeps the imports in turn                *)

LEMMA TurnKept ==
  ASSUME SyncTypeOK, PromptsNumbered, RunFollowsPlan, TargetsInTurn, JobsFollowRuns, JobsAreWhole, SyncNext
  PROVE  TargetsInTurn'
<1>1. run \in RunKind /\ run.left \in Seq(Targets)
  BY DEF SyncTypeOK, RunKind
<1>2. ASSUME NEW plan \in Plans, StartRun(plan)
      PROVE  TargetsInTurn'
  BY <1>2, StartRunStep, NodeSyncAssumption DEF TargetsInTurn, Importing
<1>3. CASE Early \/ Select \/ ExportPrompts \/ ExportAgents
  <2>1. ASSUME run.at \in {"health", "select"} \cup Exporting, run'.at \notin {"next", "waiting"},
               run'.results = run.results, run'.status \in {run.status, "failed"},
               run'.at # "ended" => run'.status = run.status
        PROVE  TargetsInTurn'
    <3>1. run.at \notin Importing
      BY <2>1 DEF Exporting, Importing
    <3>2. run.status = None /\ (\A t \in Targets : run.results[t] = None) /\ run'.status # "success"
      BY <2>1, <3>1, NodeSyncAssumption DEF TargetsInTurn
    <3>3. run'.at \notin Importing => run'.at # "ended"
      BY DEF Importing
    <3> QED
      BY <2>1, <3>2, <3>3 DEF TargetsInTurn
  <2>2. CASE Early
    BY <2>1, <2>2, EarlyStep DEF Early
  <2>3. CASE Select
    BY <2>1, <2>3, SelectStep
  <2>4. CASE ExportPrompts
    BY <2>1, <2>4, ExportPromptsStep DEF KeepsTargets, Exporting
  <2>5. CASE ExportAgents
    BY <2>1, <2>5, ExportAgentsStep DEF KeepsTargets, Exporting
  <2> QED
    BY <1>3, <2>2, <2>3, <2>4, <2>5
<1>4. CASE ExportRest
  <2>1. /\ run.at = "exportTeams" /\ run'.at = "next" /\ KeepsPlan /\ run'.left = run.plan.targets
        /\ run'.results = run.results /\ run'.status = run.status /\ Distinct(run.plan) /\ UNCHANGED job
    BY <1>4, ExportRestStep DEF RunOnly
  <2>2. run.plan \in Plans /\ run.no \in RunIds
    BY <2>1 DEF RunFollowsPlan
  <2>3. /\ \A i, k \in DOMAIN run'.left : run'.left[i] = run'.left[k] => i = k
        /\ \A i \in DOMAIN run'.left : run'.left[i] \in Targets
    BY <2>1, <2>2, DistinctTargets, LenProperties
  <2>4. \A t \in Targets : run.results[t] = None /\ job[run.no][t].at = "none"
    BY <2>1, <2>2 DEF TargetsInTurn, JobsFollowRuns, Importing
  <2>5. run.status # "success"
    BY <2>1 DEF TargetsInTurn
  <2> QED
    BY <2>1, <2>3, <2>4, <2>5 DEF TargetsInTurn, KeepsPlan, Importing
<1>5. CASE Send
  <2> DEFINE t == Head(run.left)
  <2>1. /\ run.at = "next" /\ run'.at = "waiting" /\ t \in Targets /\ run'.target = t /\ run.left # <<>>
        /\ run'.left = Tail(run.left) /\ run.no \in RunIds /\ KeepsPlan
        /\ run'.results = run.results /\ run'.status = run.status
        /\ ImportRequest \in JobKind /\ JobPut(run.no, t, ImportRequest)
    BY <1>5, SendStep
  <2>2. /\ t = run.left[1] /\ 1 \in DOMAIN run.left
        /\ \A i \in DOMAIN run'.left : run'.left[i] = run.left[i + 1] /\ i + 1 \in DOMAIN run.left /\ i + 1 # 1 /\ i \in Nat
        /\ \A i \in DOMAIN run.left : run.left[i] \in Targets
    BY <1>1, <2>1, LeftFacts, LenProperties
  <2> HIDE DEF t
  <2>3. \A i \in DOMAIN run'.left : run'.left[i] # t /\ run'.left[i] \in Targets /\ run'.results[run'.left[i]] = None
                                    /\ job[run.no][run'.left[i]].at = "none"
    BY <2>1, <2>2 DEF TargetsInTurn
  <2>4. \A i \in DOMAIN run'.left : job'[run'.no][run'.left[i]].at = "none"
    BY <2>1, <2>3 DEF JobPut, KeepsPlan
  <2>5. \A i, k \in DOMAIN run'.left : run'.left[i] = run'.left[k] => i = k
    <3> SUFFICES ASSUME NEW i \in DOMAIN run'.left, NEW k \in DOMAIN run'.left, run'.left[i] = run'.left[k]
                 PROVE  i = k
      OBVIOUS
    <3>1. i + 1 = k + 1 /\ i \in Nat /\ k \in Nat
      BY <2>1, <2>2 DEF TargetsInTurn
    <3> QED
      BY <3>1
  <2>6. run'.results[t] = None
    BY <2>1, <2>2 DEF TargetsInTurn
  <2>7. run.status # "success"
    BY <2>1 DEF TargetsInTurn
  <2> QED
    BY <2>1, <2>3, <2>4, <2>5, <2>6, <2>7 DEF TargetsInTurn, Importing
<1>6. CASE ResultComes
  <2>1. PICK t \in Targets, x \in {"success", "failed"} :
          /\ \/ run.at = "next" /\ run.left # <<>> /\ t = Head(run.left) /\ run'.left = Tail(run.left)
             \/ run.at = "waiting" /\ t = run.target /\ run'.left = run.left
          /\ run'.at = "next" /\ run'.results = [run.results EXCEPT ![t] = x]
          /\ KeepsPlan /\ run'.status = run.status /\ UNCHANGED job
    BY <1>6, ResultStep DEF ResultComes, RunOnly
  <2>2. run.status # "success"
    BY <2>1 DEF TargetsInTurn
  <2>3. \A i \in DOMAIN run.left : run.left[i] \in Targets
    BY <1>1, LenProperties
  <2>4. \A u \in Targets : u # t => run'.results[u] = run.results[u]
    BY <1>1, <2>1 DEF RunKind
  <2>5. CASE run.at = "next" /\ run.left # <<>> /\ t = Head(run.left) /\ run'.left = Tail(run.left)
    <3>1. /\ t = run.left[1] /\ 1 \in DOMAIN run.left
          /\ \A i \in DOMAIN run'.left : run'.left[i] = run.left[i + 1] /\ i + 1 \in DOMAIN run.left /\ i + 1 # 1 /\ i \in Nat
      BY <1>1, <2>5, LeftFacts
    <3>2. \A i \in DOMAIN run'.left : run'.left[i] # t /\ run'.left[i] \in Targets /\ run.results[run'.left[i]] = None
                                      /\ job[run.no][run'.left[i]].at = "none"
      BY <2>3, <2>5, <3>1 DEF TargetsInTurn
    <3>3. \A i, k \in DOMAIN run'.left : run'.left[i] = run'.left[k] => i = k
      <4> SUFFICES ASSUME NEW i \in DOMAIN run'.left, NEW k \in DOMAIN run'.left, run'.left[i] = run'.left[k]
                   PROVE  i = k
        OBVIOUS
      <4>1. i + 1 = k + 1 /\ i \in Nat /\ k \in Nat
        BY <2>5, <3>1 DEF TargetsInTurn
      <4> QED
        BY <4>1
    <3> QED
      BY <2>1, <2>2, <2>4, <3>2, <3>3 DEF TargetsInTurn, KeepsPlan, Importing
  <2>6. CASE run.at = "waiting" /\ t = run.target /\ run'.left = run.left
    <3>1. \A i \in DOMAIN run.left : run.left[i] # t /\ run.results[run.left[i]] = None
                                     /\ job[run.no][run.left[i]].at = "none"
      BY <2>6 DEF TargetsInTurn
    <3>2. \A i, k \in DOMAIN run.left : run.left[i] = run.left[k] => i = k
      BY <2>6 DEF TargetsInTurn
    <3> QED
      BY <2>1, <2>2, <2>3, <2>4, <2>6, <3>1, <3>2 DEF TargetsInTurn, KeepsPlan, Importing
  <2> QED
    BY <2>1, <2>5, <2>6
<1>7. CASE End
  <2>1. /\ run.at = "next" /\ run'.at = "ended" /\ KeepsPlan /\ run'.results = run.results
        /\ run'.status = "success" => \A t \in TargetsOf(run.plan) : run.results[t] = "success"
    BY <1>7, EndStep
  <2>2. run.plan \in Plans /\ Distinct(run.plan)
    BY <2>1 DEF RunFollowsPlan
  <2>3. TargetsOf(run.plan) \subseteq Targets
    BY <2>2, PlanFacts, LenProperties DEF Distinct, TargetsOf, SyncNodes
  <2>4. TargetsOf(run'.plan) = TargetsOf(run.plan)
    BY <2>1 DEF KeepsPlan, TargetsOf
  <2> QED
    BY <2>1, <2>3, <2>4 DEF TargetsInTurn, Importing
<1>8. ASSUME NEW r \in RunIds, NEW t \in Targets, Import(r, t)
      PROVE  TargetsInTurn'
  <2>1. /\ UNCHANGED run /\ job[r][t].at \in Kinds
        /\ \A r2 \in RunIds, t2 \in Targets : r2 # r \/ t2 # t => job'[r2][t2] = job[r2][t2]
    BY <1>8, ImportStep DEF ImportTouches
  <2>2. ASSUME run.at \in {"next", "waiting"}, NEW i \in DOMAIN run.left
        PROVE  job'[run.no][run.left[i]].at = "none"
    <3>1. run.left[i] \in Targets /\ run.no \in RunIds
      BY <1>1, <2>2, LenProperties DEF RunFollowsPlan
    <3>2. job[run.no][run.left[i]].at = "none"
      BY <2>2 DEF TargetsInTurn
    <3>3. run.no # r \/ run.left[i] # t
      BY <2>1, <3>2 DEF Kinds
    <3> QED
      BY <2>1, <3>1, <3>2, <3>3
  <2> QED
    BY <2>1, <2>2 DEF TargetsInTurn, TargetsOf
<1>9. ASSUME NEW n \in SyncNodes, EditPrompt(n) \/ RemovePrompt(n) \/ EditAgent(n)
      PROVE  TargetsInTurn'
  <2>1. UNCHANGED <<run, job>>
    BY <1>9, UsersKeepRun DEF UserTouches
  <2> QED
    BY <2>1 DEF TargetsInTurn, TargetsOf
<1> QED
  BY <1>2, <1>3, <1>4, <1>5, <1>6, <1>7, <1>8, <1>9, StepCases DEF RunStep

LEMMA RunsKept ==
  ASSUME SyncTypeOK, PromptsNumbered, RunFollowsPlan, TargetsInTurn, JobsFollowRuns, JobsAreWhole, SyncNext
  PROVE  JobsFollowRuns'
<1>1. run \in RunKind /\ run.no \in Nat /\ RunIds \subseteq Nat
  BY NodeSyncAssumption DEF SyncTypeOK, RunKind, RunIds
<1>2. ASSUME NEW plan \in Plans, StartRun(plan)
      PROVE  JobsFollowRuns'
  <2>1. /\ run'.no = run.no + 1 /\ UNCHANGED job /\ \A t \in Targets : run'.results[t] = None
        /\ edited' = {t \in Targets : \E r \in RunIds : job[r][t].at \notin {"none", "done"}}
    BY <1>2, StartRunStep
  <2> SUFFICES ASSUME NEW r \in RunIds, NEW t \in Targets
               PROVE  /\ r > run'.no => job[r][t].at = "none"
                      /\ r < run'.no /\ t \notin edited' => job[r][t].at \in {"none", "done"}
                      /\ r = run'.no => job[r][t].at = "none" /\ run'.results[t] # "success"
    BY <2>1 DEF JobsFollowRuns
  <2>2. r > run.no => job[r][t].at = "none"
    BY DEF JobsFollowRuns
  <2> QED
    BY <1>1, <2>1, <2>2, NodeSyncAssumption
<1>3. ASSUME KeepsPlan, RunOnly, run'.results = run.results,
             run.at \notin Importing \/ (run'.at \in Importing /\ KeepsExport)
      PROVE  JobsFollowRuns'
  BY <1>3 DEF JobsFollowRuns, KeepsPlan, KeepsExport, RunOnly
<1>4. CASE Early \/ Select \/ ExportPrompts \/ ExportAgents \/ ExportRest
  <2>1. KeepsPlan /\ RunOnly /\ run'.results = run.results /\ run.at \notin Importing
    BY <1>4, EarlyStep, SelectStep, ExportPromptsStep, ExportAgentsStep, ExportRestStep
       DEF Early, Exporting, Importing, KeepsTargets
  <2> QED
    BY <1>3, <2>1
<1>5. CASE End
  BY <1>3, <1>5, EndStep DEF Importing
<1>6. CASE ResultComes
  <2>1. PICK t \in Targets, x \in {"success", "failed"} :
          /\ x = "success" => /\ job[run.no][t].at = "done" /\ job[run.no][t].failures = {}
          /\ run.at \in Importing /\ run'.at = "next" /\ run'.results = [run.results EXCEPT ![t] = x]
          /\ KeepsPlan /\ KeepsExport /\ RunOnly
    BY <1>6, ResultStep DEF ResultComes, Importing
  <2>2. \A u \in Targets : run'.results[u] = IF u = t THEN x ELSE run.results[u]
    BY <1>1, <2>1 DEF RunKind
  <2>3. UNCHANGED <<job, edited>> /\ run'.no = run.no /\ run'.plan = run.plan /\ run'.bundle = run.bundle
    BY <2>1 DEF RunOnly, KeepsPlan, KeepsExport
  <2>4. run'.at \in Importing
    BY <2>1 DEF Importing
  <2> QED
    BY <2>1, <2>2, <2>3, <2>4 DEF JobsFollowRuns
<1>7. CASE Send
  <2>1. PICK t \in Targets, j \in JobKind :
          /\ t = Head(run.left) /\ j = ImportRequest /\ JobPut(run.no, t, j)
          /\ run.at = "next" /\ run'.at = "waiting" /\ run.no \in RunIds /\ UNCHANGED edited
          /\ KeepsPlan /\ KeepsExport /\ run'.results = run.results /\ run.left # <<>>
    BY <1>7, SendStep
  <2>2. run.left \in Seq(Targets)
    BY <1>1 DEF RunKind
  <2>3. run.results[t] = None
    BY <2>1, <2>2, LeftFacts DEF TargetsInTurn
  <2>4. /\ job'[run.no][t] = ImportRequest
        /\ \A r2 \in RunIds, t2 \in Targets : r2 # run.no \/ t2 # t => job'[r2][t2] = job[r2][t2]
    BY <2>1 DEF JobPut
  <2>5. ImportRequest.bundle = run.bundle /\ ImportRequest.policy = run.plan.policy /\ ImportRequest.scope = run.plan.scope
    BY DEF ImportRequest, NoJob
  <2> SUFFICES ASSUME NEW r \in RunIds, NEW u \in Targets
               PROVE  /\ r > run.no => job'[r][u].at = "none"
                      /\ r < run.no /\ u \notin edited => job'[r][u].at \in {"none", "done"}
                      /\ r = run.no /\ job'[r][u].at # "none" =>
                           /\ job'[r][u].bundle = run.bundle /\ job'[r][u].policy = run.plan.policy
                           /\ job'[r][u].scope = run.plan.scope
                      /\ r = run.no /\ run.results[u] = "success" => job'[r][u].at = "done" /\ job'[r][u].failures = {}
    BY <2>1 DEF JobsFollowRuns, KeepsPlan, KeepsExport, Importing
  <2>6. CASE r = run.no /\ u = t
    BY <1>1, <2>3, <2>4, <2>5, <2>6, NodeSyncAssumption
  <2>7. CASE r # run.no \/ u # t
    BY <2>4, <2>7 DEF JobsFollowRuns
  <2> QED
    BY <2>6, <2>7
<1>8. ASSUME NEW r \in RunIds, NEW t \in Targets, Import(r, t)
      PROVE  JobsFollowRuns'
  <2>1. /\ UNCHANGED <<run, edited>> /\ job[r][t].at \in Kinds /\ SameRequest(job[r][t], job'[r][t])
        /\ \A r2 \in RunIds, t2 \in Targets : r2 # r \/ t2 # t => job'[r2][t2] = job[r2][t2]
    BY <1>8, ImportStep DEF ImportTouches
  <2>2. job[r][t].at \notin {"none", "done"}
    BY <2>1 DEF Kinds
  <2>3. /\ ~(r > run.no) /\ (r < run.no => t \in edited)
        /\ r = run.no => /\ run.at \in Importing /\ run.results[t] # "success"
                         /\ job'[r][t].bundle = run.bundle /\ job'[r][t].policy = run.plan.policy
                         /\ job'[r][t].scope = run.plan.scope
    BY <2>1, <2>2 DEF JobsFollowRuns, SameRequest
  <2> SUFFICES ASSUME NEW r2 \in RunIds, NEW u \in Targets
               PROVE  /\ r2 > run.no => job'[r2][u].at = "none"
                      /\ r2 < run.no /\ u \notin edited => job'[r2][u].at \in {"none", "done"}
                      /\ r2 = run.no /\ job'[r2][u].at # "none" =>
                           /\ run.at \in Importing
                           /\ job'[r2][u].bundle = run.bundle /\ job'[r2][u].policy = run.plan.policy
                           /\ job'[r2][u].scope = run.plan.scope
                      /\ r2 = run.no /\ run.results[u] = "success" => job'[r2][u].at = "done" /\ job'[r2][u].failures = {}
    BY <2>1 DEF JobsFollowRuns
  <2>4. CASE r2 = r /\ u = t
    BY <2>3, <2>4
  <2>5. CASE r2 # r \/ u # t
    BY <2>1, <2>5 DEF JobsFollowRuns
  <2> QED
    BY <2>4, <2>5
<1>9. ASSUME NEW n \in SyncNodes, EditPrompt(n) \/ RemovePrompt(n) \/ EditAgent(n)
      PROVE  JobsFollowRuns'
  <2>1. UNCHANGED <<run, job>> /\ edited \subseteq edited'
    BY <1>9, UsersKeepRun DEF UserTouches
  <2> QED
    BY <2>1 DEF JobsFollowRuns
<1> QED
  BY <1>2, <1>4, <1>5, <1>6, <1>7, <1>8, <1>9, StepCases DEF RunStep


-----------------------------------------------------------------------------
(* The synchronisation: every step keeps what the imports have seen true    *)

(* prompts only come, with new numbers, and change; so what was seen holds  *)
LEMMA WholeStays ==
  ASSUME NEW j, NEW P, NEW Q, NEW k \in Nat, NEW m \in Nat, Whole(j, P, k), Grown(P, Q, k), k <= m
  PROVE  Whole(j, Q, m)
<1> SUFFICES ASSUME j.at = "prompt"
             PROVE  /\ \A e \in j.existing : e.id <= m
                    /\ \A e \in j.existing, q \in Q : q.id = e.id => q.family = e.family /\ q.version = e.version
  BY DEF Whole
<1>1. j.existing \subseteq SeenPrompt /\ \A e \in j.existing : e.id \in Nat /\ e.id <= k
  BY DEF Whole, SeenPrompt
<1>2. ASSUME NEW e \in j.existing, NEW q \in Q, q.id = e.id
      PROVE  q.family = e.family /\ q.version = e.version
  <2>1. PICK p \in P : SamePrompt(p, q)
    BY <1>1, <1>2 DEF Grown
  <2> QED
    BY <1>2, <2>1 DEF Whole, SamePrompt
<1> QED
  BY <1>1, <1>2

LEMMA WholeMoved ==
  ASSUME NEW j \in JobKind, NEW k \in JobKind, NEW e, NEW P, NEW m, Whole(j, P, m), j.at \in Kinds,
         Moves(j, k, e)
  PROVE  Whole(k, P, m)
<1>1. CASE k.at = j.at /\ k.listed /\ k.left = j.left \ {e} /\ k.existing = j.existing
  <2>1. Incoming(k) = Incoming(j)
    BY <1>1 DEF Moves, SameRequest, Incoming
  <2> QED
    BY <1>1, <2>1 DEF Whole
<1>2. CASE ~k.listed /\ k.left = {} /\ k.existing = {}
  BY <1>2 DEF Whole
<1> QED
  BY <1>1, <1>2 DEF Moves

LEMMA WholeListed ==
  ASSUME SyncTypeOK, PromptsNumbered, NEW t \in Targets, NEW j \in JobKind, NEW k \in JobKind, j.at \in Kinds,
         Listed(t, j, k)
  PROVE  Whole(k, prompts[t], lastId[t])
<1>1. CASE ~k.listed /\ k.left = {} /\ k.existing = {}
  BY <1>1 DEF Whole
<1>2. CASE k.at = j.at /\ k.listed /\ k.left = Incoming(j) /\ (j.at = "prompt" => k.existing = SeenAt(t))
  <2>1. Incoming(k) = Incoming(j)
    BY <1>2 DEF Listed, SameRequest, Incoming
  <2>2. t \in SyncNodes /\ prompts[t] \subseteq Prompt /\ Numbered(prompts[t], lastId[t]) /\ lastId[t] \in Nat
    BY DEF SyncNodes, SyncTypeOK, PromptsNumbered
  <2>3. \A e \in SeenAt(t) : \E p \in prompts[t] : e = [id |-> p.id, family |-> p.family, version |-> p.version]
    BY DEF SeenAt
  <2>4. SeenAt(t) \subseteq SeenPrompt
    BY <2>2, <2>3 DEF Prompt, SeenPrompt
  <2>5. /\ \A e \in SeenAt(t) : e.id <= lastId[t]
        /\ \A d, e \in SeenAt(t) : d.id = e.id => d = e
        /\ \A e \in SeenAt(t), p \in prompts[t] : p.id = e.id => p.family = e.family /\ p.version = e.version
    BY <2>2, <2>3 DEF Numbered
  <2> QED
    BY <1>2, <2>1, <2>4, <2>5 DEF Whole
<1> QED
  BY <1>1, <1>2 DEF Listed

LEMMA GrownAlone == \A P, k : Grown(P, P, k)
  BY DEF Grown, SamePrompt

LEMMA WholeKept ==
  ASSUME SyncTypeOK, PromptsNumbered, RunFollowsPlan, TargetsInTurn, JobsAreWhole, SyncNext
  PROVE  JobsAreWhole'
<1> DEFINE W(r, t) == Whole(job[r][t], prompts[t], lastId[t])
<1>1. \A r \in RunIds, t \in Targets : W(r, t)
  BY DEF JobsAreWhole
<1>2. job \in [RunIds -> [Targets -> JobKind]] /\ Targets \subseteq SyncNodes /\ \A t \in Targets : lastId[t] \in Nat
  BY DEF SyncTypeOK, SyncNodes
<1>3. ASSUME UNCHANGED <<job, prompts, lastId>>
      PROVE  JobsAreWhole'
  BY <1>1, <1>3 DEF JobsAreWhole
<1>4. ASSUME NEW plan \in Plans, StartRun(plan)
      PROVE  JobsAreWhole'
  BY <1>3, <1>4, StartRunStep DEF Elsewhere, defs
<1>5. CASE RunStep
  BY <1>3, <1>5, RunStepsAreLocal DEF RunOnly, Elsewhere, defs
<1>6. CASE Send
  <2>1. PICK s \in Targets, q \in RunIds, j \in JobKind :
          q = run.no /\ j = ImportRequest /\ JobPut(q, s, j) /\ UNCHANGED <<prompts, lastId>>
    BY <1>6, SendStep DEF Elsewhere, defs
  <2>2. \A P, k : Whole(j, P, k)
    BY <2>1 DEF Whole, ImportRequest, NoJob, Kinds
  <2>3. job'[q][s] = j
    BY <2>1 DEF JobPut
  <2>4. \A r2 \in RunIds, t2 \in Targets : r2 # q \/ t2 # s => job'[r2][t2] = job[r2][t2]
    BY <2>1 DEF JobPut
  <2>5. \A r \in RunIds, t \in Targets : Whole(job'[r][t], prompts'[t], lastId'[t])
    BY <1>1, <2>1, <2>2, <2>3, <2>4
  <2> QED
    BY <2>5 DEF JobsAreWhole
<1>7. ASSUME NEW r \in RunIds, NEW t \in Targets, Import(r, t)
      PROVE  JobsAreWhole'
  <2>1. ASSUME \A r2 \in RunIds, t2 \in Targets : r2 # r \/ t2 # t => job'[r2][t2] = job[r2][t2],
               Grown(prompts[t], prompts'[t], lastId[t]), lastId'[t] \in Nat, lastId'[t] >= lastId[t],
               \A n \in SyncNodes \ {t} : prompts'[n] = prompts[n] /\ lastId'[n] = lastId[n],
               Whole(job'[r][t], prompts[t], lastId[t])
        PROVE  JobsAreWhole'
    <3>1. ASSUME NEW r2 \in RunIds, NEW t2 \in Targets
          PROVE  Whole(job'[r2][t2], prompts'[t2], lastId'[t2])
      <4>1. Whole(job'[r2][t2], prompts[t2], lastId[t2])
        BY <1>1, <2>1
      <4>2. CASE t2 = t
        BY <1>2, <2>1, <4>1, <4>2, WholeStays
      <4>3. CASE t2 # t
        BY <1>2, <2>1, <4>1, <4>3
      <4> QED
        BY <4>2, <4>3
    <3> QED
      BY <3>1 DEF JobsAreWhole
  <2>2. job[r][t] \in JobKind /\ Whole(job[r][t], prompts[t], lastId[t])
    BY <1>1, <1>2
  <2>3. ASSUME NEW e, JobMoved(r, t, e), job[r][t].at \in Kinds
        PROVE  /\ \A r2 \in RunIds, t2 \in Targets : r2 # r \/ t2 # t => job'[r2][t2] = job[r2][t2]
               /\ Whole(job'[r][t], prompts[t], lastId[t])
    <3>1. job'[r][t] \in JobKind /\ Moves(job[r][t], job'[r][t], e)
      BY <2>3 DEF JobMoved
    <3> QED
      BY <2>2, <2>3, <3>1, WholeMoved DEF JobMoved
  <2>4. CASE List(r, t)
    <3>1. /\ job'[r][t] \in JobKind /\ Listed(t, job[r][t], job'[r][t]) /\ job[r][t].at \in Kinds
          /\ \A r2 \in RunIds, t2 \in Targets : r2 # r \/ t2 # t => job'[r2][t2] = job[r2][t2]
          /\ UNCHANGED <<prompts, lastId>>
      BY <2>4, ListStep DEF defs
    <3>2. Whole(job'[r][t], prompts[t], lastId[t])
      BY <2>2, <3>1, WholeListed
    <3> QED
      BY <1>2, <2>1, <3>1, <3>2, GrownAlone
  <2>5. CASE ImportPrompt(r, t)
    <3>1. (\E e : JobMoved(r, t, e)) /\ job[r][t].at \in Kinds
      BY <2>5, PromptStep DEF Kinds
    <3>2. /\ Grown(prompts[t], prompts'[t], lastId[t]) /\ lastId'[t] \in Nat /\ lastId'[t] >= lastId[t]
          /\ \A n \in SyncNodes \ {t} : prompts'[n] = prompts[n] /\ lastId'[n] = lastId[n]
      BY <2>5, ImportedPrompts DEF Well
    <3> QED
      BY <2>1, <2>3, <3>1, <3>2
  <2>6. ASSUME NEW e, JobMoved(r, t, e), job[r][t].at \in Kinds, UNCHANGED <<prompts, lastId>>
        PROVE  JobsAreWhole'
    BY <1>2, <2>1, <2>3, <2>6, GrownAlone
  <2>7. CASE ImportAgent(r, t)
    <3>1. (\E e : JobMoved(r, t, e)) /\ job[r][t].at \in Kinds /\ UNCHANGED <<prompts, lastId>>
      BY <2>7, AgentStep DEF Kinds
    <3> QED
      BY <2>6, <3>1
  <2>8. CASE ImportTeam(r, t)
    <3>1. (\E e : JobMoved(r, t, e)) /\ job[r][t].at \in Kinds /\ UNCHANGED <<prompts, lastId>>
      BY <2>8, TeamStep DEF Kinds
    <3> QED
      BY <2>6, <3>1
  <2>9. CASE ImportServer(r, t)
    <3>1. (\E e : JobMoved(r, t, e)) /\ job[r][t].at \in Kinds /\ UNCHANGED <<prompts, lastId>>
      BY <2>9, ServerStep DEF Kinds
    <3> QED
      BY <2>6, <3>1
  <2> QED
    BY <1>7, <2>4, <2>5, <2>7, <2>8, <2>9 DEF Import
<1>8. ASSUME NEW n \in SyncNodes, EditPrompt(n) \/ RemovePrompt(n) \/ EditAgent(n)
      PROVE  JobsAreWhole'
  <2>1. UserTouches(n)
    BY <1>8, UsersKeepRun
  <2>2. Grown(prompts[n], prompts'[n], lastId[n]) /\ lastId'[n] \in {lastId[n], lastId[n] + 1}
    <3>1. CASE EditPrompt(n)
      BY <3>1, EditPromptStep
    <3>2. CASE RemovePrompt(n)
      BY <3>2, RemovePromptStep
    <3>3. CASE EditAgent(n)
      BY <3>3, EditAgentStep, GrownAlone
    <3> QED
      BY <1>8, <3>1, <3>2, <3>3
  <2>3. ASSUME NEW r \in RunIds, NEW t \in Targets
        PROVE  Whole(job'[r][t], prompts'[t], lastId'[t])
    <3>1. job'[r][t] = job[r][t] /\ Whole(job[r][t], prompts[t], lastId[t])
      BY <1>1, <2>1 DEF UserTouches
    <3>2. CASE t = n
      <4>1. lastId'[n] \in Nat /\ lastId[n] <= lastId'[n] /\ lastId[n] \in Nat
        BY <1>2, <2>2, <3>2
      <4> QED
        BY <2>2, <3>1, <3>2, <4>1, WholeStays
    <3>3. CASE t # n
      BY <1>2, <2>1, <3>1, <3>3 DEF UserTouches
    <3> QED
      BY <3>2, <3>3
  <2> QED
    BY <2>3 DEF JobsAreWhole
<1> QED
  BY <1>4, <1>5, <1>6, <1>7, <1>8, StepCases

-----------------------------------------------------------------------------
(* The synchronisation: what is handled without failure is there            *)

LEMMA FreshDelivers ==
  ASSUME NEW j, j.at = "prompt", ~j.listed, NEW P, NEW A, NEW T, NEW S
  PROVE  Delivered(j, P, A, T, S)
  BY DEF Delivered, Handled, Past

LEMMA ListedDelivers ==
  ASSUME NEW t, NEW j \in JobKind, NEW k \in JobKind, j.at \in Kinds, ~j.listed, Listed(t, j, k), k.failures = {},
         j.at \notin j.scope => Incoming(j) = {}, NEW P, NEW A, NEW T, NEW S, Delivered(j, P, A, T, S)
  PROVE  Delivered(k, P, A, T, S)
<1>1. k.bundle = j.bundle /\ (k.at = "prompt" => j.at = "prompt")
  BY DEF Listed, SameRequest, Kinds, After
<1>2. ASSUME NEW kind \in Kinds, NEW e, Handled(k, kind, e), e \in Incoming([j EXCEPT !.at = kind])
      PROVE  Handled(j, kind, e)
  <2>1. CASE k.at = j.at /\ k.listed /\ k.left = Incoming(j)
    <3>1. j.at = kind => [j EXCEPT !.at = kind].bundle = j.bundle /\ [j EXCEPT !.at = kind].at = j.at
      BY DEF JobKind
    <3>2. j.at = kind => e \in Incoming(j)
      BY <1>2, <3>1 DEF Incoming
    <3> QED
      BY <1>2, <2>1, <3>2 DEF Handled
  <2>2. CASE k.at = After[j.at] /\ ~k.listed /\ Incoming(j) = {}
    <3>1. [j EXCEPT !.at = kind].bundle = j.bundle /\ [j EXCEPT !.at = kind].at = kind
      BY DEF JobKind
    <3>2. j.at # kind
      BY <1>2, <2>2, <3>1 DEF Incoming
    <3> QED
      BY <1>2, <2>2, <3>2 DEF Handled, Past, After, Kinds
  <2> QED
    BY <2>1, <2>2 DEF Listed
<1>3. ASSUME NEW kind \in Kinds
      PROVE  Incoming([j EXCEPT !.at = kind]) =
               [prompt |-> j.bundle.prompts, agent |-> j.bundle.agents,
                team |-> j.bundle.teams, server |-> j.bundle.servers][kind]
  BY DEF Incoming, JobKind
<1>4. /\ \A p \in j.bundle.prompts : Handled(k, "prompt", p) => Handled(j, "prompt", p)
      /\ \A e \in j.bundle.agents : Handled(k, "agent", e) => Handled(j, "agent", e)
      /\ \A e \in j.bundle.teams : Handled(k, "team", e) => Handled(j, "team", e)
      /\ \A e \in j.bundle.servers : Handled(k, "server", e) => Handled(j, "server", e)
  BY <1>2, <1>3 DEF Kinds
<1>5. ASSUME NEW p \in j.bundle.prompts, p.active, Handled(k, "prompt", p)
      PROVE  Landed(k, P, p)
  <2>1. Handled(j, "prompt", p) /\ Landed(j, P, p)
    BY <1>4, <1>5 DEF Delivered
  <2>2. j.at # "prompt"
    BY <2>1 DEF Handled, Past
  <2> QED
    BY <1>1, <2>1, <2>2 DEF Landed
<1> QED
  BY <1>1, <1>4, <1>5 DEF Delivered

(* one more is handled: the one that came up                                *)
LEMMA HandledNext ==
  ASSUME NEW j \in JobKind, NEW k \in JobKind, NEW e, Moves(j, k, e), j.at \in Kinds, j.listed,
         NEW kind \in Kinds, NEW x, Handled(k, kind, x), kind = j.at => x # e
  PROVE  Handled(j, kind, x)
<1>1. CASE k.at = j.at /\ k.left = j.left \ {e}
  BY <1>1 DEF Handled
<1>2. CASE j.left \subseteq {e} /\ k.at = After[j.at] /\ ~k.listed
  <2>1. kind = j.at => x \notin j.left
    BY <1>2
  <2> QED
    BY <1>2, <2>1 DEF Handled, Past, After, Kinds
<1> QED
  BY <1>1, <1>2 DEF Moves

LEMMA LandedStays ==
  ASSUME NEW j \in JobKind, NEW k \in JobKind, NEW e, Moves(j, k, e), j.at \in Kinds, NEW P, NEW Q, NEW p,
         Landed(j, P, p),
         \A u \in P : u.family = p.family /\ u.active /\ (j.at = "prompt" => \A d \in j.existing : d.id = u.id => d.version = p.version) =>
           \E q \in Q : q.id = u.id /\ q.family = u.family /\ q.active /\ q.text = u.text
  PROVE  Landed(k, Q, p)
<1>1. k.at = "prompt" => j.at = "prompt" /\ k.existing \subseteq j.existing
  BY DEF Moves, Kinds, After
<1> QED
  BY <1>1 DEF Landed

LEMMA AgentsDeliver ==
  ASSUME SyncTypeOK, JobsAreWhole, BundleIsOnePerName, NEW r \in RunIds, NEW t \in Targets, ImportAgent(r, t),
         job[r][t].bundle = run.bundle, job[r][t].policy = "source_wins", job'[r][t].failures = {},
         Delivered(job[r][t], prompts[t], agents[t], teams[t], servers[t])
  PROVE  Delivered(job'[r][t], prompts'[t], agents'[t], teams'[t], servers'[t])
<1>1. PICK e \in job[r][t].left :
        /\ e \in job[r][t].bundle.agents /\ e \in NamedAgent /\ JobMoved(r, t, e) /\ (AgentSet(r, t, e) \/ AgentPassed(r, t))
  BY AgentStep
<1>2. job[r][t].at = "agent" /\ job[r][t].listed /\ UNCHANGED <<prompts, teams, servers>>
  BY AgentStep
<1> DEFINE j == job[r][t]
           k == job'[r][t]
<1>3. j \in JobKind /\ k \in JobKind /\ Moves(j, k, e) /\ k.bundle = j.bundle /\ t \in SyncNodes
  BY <1>1 DEF SyncTypeOK, JobMoved, Moves, SameRequest, SyncNodes
<1>4. AgentSet(r, t, e) /\ ~Skips(r, t)
  BY <1>1 DEF AgentPassed, Skips
<1>5. PICK row \in AgentRow :
        agents' = [agents EXCEPT ![t][e.name] = row] /\ row.text = e.row.text /\ e.row.family \in {None, row.family}
  BY <1>4 DEF AgentSet
<1>6. agents'[t] = [agents[t] EXCEPT ![e.name] = row] /\ agents[t] \in [Agents -> AgentRow \cup {None}]
  BY <1>3, <1>5 DEF SyncTypeOK
<1>7. e.name \in Agents /\ AgentLanded(agents'[t], e)
  BY <1>1, <1>5, <1>6, NodeSyncAssumption DEF AgentLanded, NamedAgent
<1>8. \A x \in j.bundle.agents : x # e => x.name # e.name /\ x.name \in Agents
  BY <1>1, <1>3 DEF BundleIsOnePerName, JobKind, BundleKind, NamedAgent
<1> HIDE DEF j, k
<1>9. \A x \in j.bundle.agents : Handled(k, "agent", x) => AgentLanded(agents'[t], x)
  <2> TAKE x \in j.bundle.agents
  <2>1. CASE x = e
    BY <1>7, <2>1
  <2>2. CASE x # e
    <3>1. Handled(k, "agent", x) => AgentLanded(agents[t], x)
      BY <1>2, <1>3, <2>2, HandledNext DEF Delivered, Kinds, j
    <3>2. agents'[t][x.name] = agents[t][x.name]
      BY <1>6, <1>8, <2>2
    <3> QED
      BY <3>1, <3>2 DEF AgentLanded
  <2> QED
    BY <2>1, <2>2
<1>10. /\ \A p \in j.bundle.prompts : p.active /\ Handled(k, "prompt", p) => Landed(j, prompts[t], p)
       /\ \A x \in j.bundle.teams : Handled(k, "team", x) => teams[t][x.name] = x.row
       /\ \A x \in j.bundle.servers : Handled(k, "server", x) => servers[t][x.name] = x.row
  BY <1>2, <1>3, HandledNext DEF Delivered, Kinds, j
<1>11. \A p \in j.bundle.prompts : Landed(j, prompts[t], p) => Landed(k, prompts[t], p)
  BY <1>2, <1>3, LandedStays DEF Kinds, j
<1> QED
  BY <1>2, <1>3, <1>9, <1>10, <1>11 DEF Delivered, k

LEMMA TeamsDeliver ==
  ASSUME SyncTypeOK, JobsAreWhole, BundleIsOnePerName, NEW r \in RunIds, NEW t \in Targets, ImportTeam(r, t),
         job[r][t].bundle = run.bundle, job[r][t].policy = "source_wins", job'[r][t].failures = {},
         Delivered(job[r][t], prompts[t], agents[t], teams[t], servers[t])
  PROVE  Delivered(job'[r][t], prompts'[t], agents'[t], teams'[t], servers'[t])
<1>1. PICK e \in job[r][t].left :
        /\ e \in job[r][t].bundle.teams /\ e \in NamedTeam /\ JobMoved(r, t, e) /\ (TeamSet(r, t, e) \/ TeamPassed(r, t))
  BY TeamStep
<1>2. job[r][t].at = "team" /\ job[r][t].listed /\ UNCHANGED <<prompts, agents, servers>>
  BY TeamStep
<1> DEFINE j == job[r][t]
           k == job'[r][t]
<1>3. j \in JobKind /\ k \in JobKind /\ Moves(j, k, e) /\ k.bundle = j.bundle /\ t \in SyncNodes
  BY <1>1 DEF SyncTypeOK, JobMoved, Moves, SameRequest, SyncNodes
<1>4. TeamSet(r, t, e)
  BY <1>1 DEF TeamPassed, Skips
<1>5. teams'[t] = [teams[t] EXCEPT ![e.name] = e.row] /\ teams[t] \in [Teams -> TeamRow \cup {None}]
  BY <1>3, <1>4 DEF TeamSet, SyncTypeOK
<1>6. e.name \in Teams /\ \A x \in j.bundle.teams : x # e => x.name # e.name /\ x.name \in Teams
  BY <1>1, <1>3 DEF BundleIsOnePerName, JobKind, BundleKind, NamedTeam
<1> HIDE DEF j, k
<1>7. \A x \in j.bundle.teams : Handled(k, "team", x) => teams'[t][x.name] = x.row
  <2> TAKE x \in j.bundle.teams
  <2>1. CASE x = e
    BY <1>5, <1>6, <2>1
  <2>2. CASE x # e
    <3>1. Handled(k, "team", x) => teams[t][x.name] = x.row
      BY <1>2, <1>3, <2>2, HandledNext DEF Delivered, Kinds, j
    <3> QED
      BY <1>5, <1>6, <2>2, <3>1
  <2> QED
    BY <2>1, <2>2
<1>8. /\ \A p \in j.bundle.prompts : p.active /\ Handled(k, "prompt", p) => Landed(j, prompts[t], p)
      /\ \A x \in j.bundle.agents : Handled(k, "agent", x) => AgentLanded(agents[t], x)
      /\ \A x \in j.bundle.servers : Handled(k, "server", x) => servers[t][x.name] = x.row
  BY <1>2, <1>3, HandledNext DEF Delivered, Kinds, j
<1>9. \A p \in j.bundle.prompts : Landed(j, prompts[t], p) => Landed(k, prompts[t], p)
  BY <1>2, <1>3, LandedStays DEF Kinds, j
<1> QED
  BY <1>2, <1>3, <1>7, <1>8, <1>9 DEF Delivered, k

LEMMA ServersDeliver ==
  ASSUME SyncTypeOK, JobsAreWhole, BundleIsOnePerName, NEW r \in RunIds, NEW t \in Targets, ImportServer(r, t),
         job[r][t].bundle = run.bundle, job[r][t].policy = "source_wins", job'[r][t].failures = {},
         Delivered(job[r][t], prompts[t], agents[t], teams[t], servers[t])
  PROVE  Delivered(job'[r][t], prompts'[t], agents'[t], teams'[t], servers'[t])
<1>1. PICK e \in job[r][t].left :
        /\ e \in job[r][t].bundle.servers /\ e \in NamedServer /\ JobMoved(r, t, e)
        /\ ServerSet(r, t, e) \/ ServerPassed(r, t)
  BY ServerStep
<1>2. job[r][t].at = "server" /\ job[r][t].listed /\ UNCHANGED <<prompts, agents, teams>>
  BY ServerStep
<1> DEFINE j == job[r][t]
           k == job'[r][t]
<1>3. j \in JobKind /\ k \in JobKind /\ Moves(j, k, e) /\ k.bundle = j.bundle /\ t \in SyncNodes
  BY <1>1 DEF SyncTypeOK, JobMoved, Moves, SameRequest, SyncNodes
<1>4. ServerSet(r, t, e)
  BY <1>1 DEF ServerPassed, Skips
<1>5. servers'[t] = [servers[t] EXCEPT ![e.name] = e.row] /\ servers[t] \in [Servers -> ServerRow \cup {None}]
  BY <1>3, <1>4 DEF ServerSet, SyncTypeOK
<1>6. e.name \in Servers /\ \A x \in j.bundle.servers : x # e => x.name # e.name /\ x.name \in Servers
  BY <1>1, <1>3 DEF BundleIsOnePerName, JobKind, BundleKind, NamedServer
<1> HIDE DEF j, k
<1>7. \A x \in j.bundle.servers : Handled(k, "server", x) => servers'[t][x.name] = x.row
  <2> TAKE x \in j.bundle.servers
  <2>1. CASE x = e
    BY <1>5, <1>6, <2>1
  <2>2. CASE x # e
    <3>1. Handled(k, "server", x) => servers[t][x.name] = x.row
      BY <1>2, <1>3, <2>2, HandledNext DEF Delivered, Kinds, j
    <3> QED
      BY <1>5, <1>6, <2>2, <3>1
  <2> QED
    BY <2>1, <2>2
<1>8. /\ \A p \in j.bundle.prompts : p.active /\ Handled(k, "prompt", p) => Landed(j, prompts[t], p)
      /\ \A x \in j.bundle.agents : Handled(k, "agent", x) => AgentLanded(agents[t], x)
      /\ \A x \in j.bundle.teams : Handled(k, "team", x) => teams[t][x.name] = x.row
  BY <1>2, <1>3, HandledNext DEF Delivered, Kinds, j
<1>9. \A p \in j.bundle.prompts : Landed(j, prompts[t], p) => Landed(k, prompts[t], p)
  BY <1>2, <1>3, LandedStays DEF Kinds, j
<1> QED
  BY <1>2, <1>3, <1>7, <1>8, <1>9 DEF Delivered, k

LEMMA NewPromptAtTarget ==
  ASSUME SyncTypeOK, PromptsNumbered, NEW t \in Targets, NEW f \in Families, NEW x \in Texts
  PROVE  LET new == NewPrompt(t, f, x)
             P == prompts[t] \cup {new}
         IN  /\ new \in Prompt /\ new.id = lastId[t] + 1 /\ new.family = f /\ new.text = x
             /\ Numbered(P, lastId[t] + 1) /\ OneActive(P)
<1>1. t \in SyncNodes /\ Numbered(prompts[t], lastId[t]) /\ OneActive(prompts[t])
  BY DEF SyncNodes, PromptsNumbered
<1> QED
  BY <1>1, NewPromptIsNext

(* a created or updated prompt is the one its source has active, and takes  *)
(* nothing from those that came before it                                   *)
LEMMA CreatedLands ==
  ASSUME SyncTypeOK, PromptsNumbered, JobsAreWhole, NEW r \in RunIds, NEW t \in Targets, job[r][t].at = "prompt",
         NEW p \in Prompt, Created(r, t, p), job'[r][t].failures = {},
         NEW w \in Prompt, w.active, w = p \/ (p.active => w.family # p.family),
         w = p \/ Landed(job[r][t], prompts[t], w)
  PROVE  \E q \in prompts'[t] :
           /\ q.family = w.family /\ q.active /\ q.text = w.text
           /\ \A d \in job[r][t].existing : d.id = q.id => d.version = w.version
<1>0. PICK f \in Families, x \in Texts : f = p.family /\ x = p.text
  BY DEF Prompt
<1> DEFINE new == NewPrompt(t, f, x)
           P == prompts[t] \cup {new}
<1>1. t \in SyncNodes /\ prompts[t] \in SUBSET Prompt /\ lastId[t] \in Nat
      /\ Numbered(prompts[t], lastId[t]) /\ OneActive(prompts[t])
  BY DEF SyncNodes, SyncTypeOK, PromptsNumbered, Prompt
<1>2. /\ new \in Prompt /\ new.id = lastId[t] + 1 /\ new.family = f /\ new.text = x
      /\ Numbered(P, lastId[t] + 1) /\ OneActive(P)
  BY NewPromptAtTarget
<1>3. \A d \in job[r][t].existing : d.id \in Nat /\ d.id <= lastId[t]
  BY DEF JobsAreWhole, Whole, SeenPrompt
<1>4. CASE ~p.active
  <2>1. prompts'[t] = P /\ w # p
    BY <1>0, <1>1, <1>4 DEF Created, SyncTypeOK
  <2>2. Landed(job[r][t], prompts[t], w)
    BY <2>1
  <2> QED
    BY <2>1, <2>2 DEF Landed
<1>5. CASE p.active
  <2>1. prompts'[t] = WithActive(P, new)
    BY <1>0, <1>1, <1>5 DEF Created, SyncTypeOK
  <2>2. P \in SUBSET Prompt /\ new.id \in Nat /\ new.family \in Families /\ lastId[t] + 1 \in Nat
    BY <1>1, <1>2
  <2> HIDE DEF new, P
  <2>3. \A u \in P : \E q \in WithActive(P, new) :
          /\ q.id = u.id /\ q.family = u.family /\ q.version = u.version /\ q.text = u.text
          /\ u.family # new.family => (q.active <=> u.active)
          /\ u.family = new.family => (q.active <=> u.id = new.id)
    BY <1>2, <2>2, ActivatingKeeps
  <2>4. CASE w = p
    <3>1. PICK q \in WithActive(P, new) : q.id = new.id /\ q.family = new.family /\ q.text = new.text /\ q.active
      BY <2>3 DEF P
    <3>2. \A d \in job[r][t].existing : d.id # q.id
      BY <1>1, <1>2, <1>3, <3>1
    <3> QED
      BY <1>0, <1>2, <2>1, <2>4, <3>1, <3>2
  <2>5. CASE w # p
    <3>1. PICK u \in prompts[t] :
            /\ u.family = w.family /\ u.active /\ u.text = w.text
            /\ \A d \in job[r][t].existing : d.id = u.id => d.version = w.version
      BY <2>5 DEF Landed
    <3>2. u \in P /\ u.family # new.family
      BY <1>0, <1>2, <1>5, <2>5, <3>1 DEF P
    <3>3. PICK q \in WithActive(P, new) : q.id = u.id /\ q.family = u.family /\ q.text = u.text /\ q.active
      BY <2>3, <3>1, <3>2
    <3> QED
      BY <2>1, <3>1, <3>3
  <2> QED
    BY <2>4, <2>5
<1> QED
  BY <1>4, <1>5

LEMMA UpdatedLands ==
  ASSUME SyncTypeOK, PromptsNumbered, JobsAreWhole, NEW r \in RunIds, NEW t \in Targets, job[r][t].at = "prompt",
         NEW p \in Prompt, Updated(r, t, p), job'[r][t].failures = {},
         NEW w \in Prompt, w.active, w = p \/ (p.active => w.family # p.family),
         w = p \/ w.family # p.family \/ w.version # p.version,
         w = p \/ Landed(job[r][t], prompts[t], w)
  PROVE  \E q \in prompts'[t] :
           /\ q.family = w.family /\ q.active /\ q.text = w.text
           /\ \A d \in job[r][t].existing : d.id = q.id => d.version = w.version
<1>1. PICK e \in Found(r, t, p) :
        LET changed == Reworded(prompts[t], e.id, p.text)
        IN  /\ \/ prompts' = [prompts EXCEPT ![t] = changed] /\ (p.active => job'[r][t].failures # {})
               \/ prompts' = [prompts EXCEPT ![t] = WithActive(changed, e)] /\ p.active
            /\ (\A q \in prompts[t] : q.id # e.id) => job'[r][t].failures # {}
  BY DEF Updated
<1> DEFINE P == Reworded(prompts[t], e.id, p.text)
<1>2. t \in SyncNodes /\ prompts[t] \in SUBSET Prompt /\ lastId[t] \in Nat /\ p.text \in Texts
      /\ Numbered(prompts[t], lastId[t]) /\ OneActive(prompts[t])
  BY DEF SyncNodes, SyncTypeOK, PromptsNumbered, Prompt
<1>3. /\ e \in job[r][t].existing /\ e.family = p.family /\ e.version = p.version
      /\ e.id \in Nat /\ e.family \in Families
      /\ \A d \in job[r][t].existing : d.id = e.id => d = e
      /\ \A u \in prompts[t] : u.id = e.id => u.family = e.family /\ u.version = e.version
  BY <1>1 DEF Found, JobsAreWhole, Whole, SeenPrompt
<1>4. /\ P \in SUBSET Prompt /\ Numbered(P, lastId[t]) /\ OneActive(P)
      /\ \A u \in prompts[t] : \E q \in P :
           /\ q.id = u.id /\ q.family = u.family /\ q.version = u.version /\ q.active = u.active
           /\ q.text = IF u.id = e.id THEN p.text ELSE u.text
  BY <1>2, RewordingKeeps
<1>5. CASE ~p.active
  <2>1. prompts'[t] = P /\ w # p
    BY <1>1, <1>2, <1>5 DEF SyncTypeOK
  <2>2. PICK u \in prompts[t] :
          /\ u.family = w.family /\ u.active /\ u.text = w.text
          /\ \A d \in job[r][t].existing : d.id = u.id => d.version = w.version
    BY <2>1 DEF Landed
  <2>3. u.id # e.id
    BY <1>3, <2>1, <2>2
  <2> QED
    BY <1>4, <2>1, <2>2, <2>3
<1>6. CASE p.active
  <2>1. prompts'[t] = WithActive(P, e)
    BY <1>1, <1>2, <1>6 DEF SyncTypeOK
  <2> HIDE DEF P
  <2>2. \A u \in P : \E q \in WithActive(P, e) :
          /\ q.id = u.id /\ q.family = u.family /\ q.version = u.version /\ q.text = u.text
          /\ u.family # e.family => (q.active <=> u.active)
          /\ u.family = e.family => (q.active <=> u.id = e.id)
    BY <1>2, <1>3, <1>4, ActivatingKeeps
  <2>3. CASE w = p
    <3>1. PICK u \in prompts[t] : u.id = e.id
      BY <1>1
    <3>2. PICK u2 \in P : u2.id = e.id /\ u2.family = e.family /\ u2.text = p.text
      BY <1>3, <1>4, <3>1
    <3>3. PICK q \in WithActive(P, e) : q.id = e.id /\ q.family = e.family /\ q.text = p.text /\ q.active
      BY <2>2, <3>2
    <3> QED
      BY <1>3, <2>1, <2>3, <3>3
  <2>4. CASE w # p
    <3>1. PICK u \in prompts[t] :
            /\ u.family = w.family /\ u.active /\ u.text = w.text
            /\ \A d \in job[r][t].existing : d.id = u.id => d.version = w.version
      BY <2>4 DEF Landed
    <3>2. u.family # e.family /\ u.id # e.id
      BY <1>3, <1>6, <2>4, <3>1
    <3>3. PICK u2 \in P : u2.id = u.id /\ u2.family = u.family /\ u2.text = u.text /\ u2.active
      BY <1>4, <3>1, <3>2
    <3>4. PICK q \in WithActive(P, e) : q.id = u.id /\ q.family = u.family /\ q.text = u.text /\ q.active
      BY <2>2, <3>2, <3>3
    <3> QED
      BY <2>1, <3>1, <3>4
  <2> QED
    BY <2>3, <2>4
<1> QED
  BY <1>5, <1>6

LEMMA PromptsDeliver ==
  ASSUME SyncTypeOK, PromptsNumbered, JobsAreWhole, BundleIsOnePerName, NEW r \in RunIds, NEW t \in Targets,
         ImportPrompt(r, t),
         job[r][t].bundle = run.bundle, job[r][t].policy = "source_wins", job'[r][t].failures = {},
         Delivered(job[r][t], prompts[t], agents[t], teams[t], servers[t])
  PROVE  Delivered(job'[r][t], prompts'[t], agents'[t], teams'[t], servers'[t])
<1>1. PICK p \in job[r][t].left :
        /\ p \in job[r][t].bundle.prompts /\ p \in Prompt /\ JobMoved(r, t, p)
        /\ Created(r, t, p) \/ Updated(r, t, p) \/ Passed(r, t)
  BY PromptStep
<1>2. job[r][t].at = "prompt" /\ job[r][t].listed /\ UNCHANGED <<agents, teams, servers>>
  BY PromptStep
<1> DEFINE j == job[r][t]
           k == job'[r][t]
<1>3. j \in JobKind /\ k \in JobKind /\ Moves(j, k, p) /\ k.bundle = j.bundle
  BY <1>1 DEF SyncTypeOK, JobMoved, Moves, SameRequest
<1>4. Created(r, t, p) \/ Updated(r, t, p)
  BY <1>1 DEF Passed, Skips
<1>5. ASSUME NEW w \in j.bundle.prompts, w.active, Handled(k, "prompt", w)
      PROVE  Landed(k, prompts'[t], w)
  <2>1. w \in Prompt
    BY <1>3 DEF JobKind, BundleKind
  <2>2. w = p \/ Landed(j, prompts[t], w)
    BY <1>2, <1>3, <1>5, HandledNext DEF Delivered, Kinds
  <2>3. w = p \/ (p.active => w.family # p.family)
    BY <1>1, <1>5 DEF BundleIsOnePerName, OneActive
  <2>4. w = p \/ w.family # p.family \/ w.version # p.version
    BY <1>1, <1>5 DEF BundleIsOnePerName
  <2>5. \E q \in prompts'[t] :
          /\ q.family = w.family /\ q.active /\ q.text = w.text
          /\ \A d \in job[r][t].existing : d.id = q.id => d.version = w.version
    <3>1. CASE Created(r, t, p)
      BY <1>1, <1>2, <1>5, <2>1, <2>2, <2>3, <3>1, CreatedLands
    <3>2. CASE Updated(r, t, p)
      BY <1>1, <1>2, <1>5, <2>1, <2>2, <2>3, <2>4, <3>2, UpdatedLands
    <3> QED
      BY <1>4, <3>1, <3>2
  <2>6. k.at = "prompt" => k.existing \subseteq j.existing
    BY <1>2, <1>3 DEF Moves, Kinds, After
  <2> QED
    BY <2>5, <2>6 DEF Landed
<1>6. /\ \A x \in j.bundle.agents : Handled(k, "agent", x) => AgentLanded(agents[t], x)
      /\ \A x \in j.bundle.teams : Handled(k, "team", x) => teams[t][x.name] = x.row
      /\ \A x \in j.bundle.servers : Handled(k, "server", x) => servers[t][x.name] = x.row
  BY <1>2, <1>3, HandledNext DEF Delivered, Kinds
<1> HIDE DEF j, k
<1> QED
  BY <1>2, <1>3, <1>5, <1>6 DEF Delivered, k

LEMMA ImportDelivers ==
  ASSUME SyncTypeOK, PromptsNumbered, JobsAreWhole, BundleIsOnePerName, RunFollowsPlan,
         NEW r \in RunIds, NEW t \in Targets, Import(r, t),
         job[r][t].bundle = run.bundle, job[r][t].scope = run.plan.scope, run.at # "idle",
         job[r][t].policy = "source_wins", job'[r][t].failures = {},
         Delivered(job[r][t], prompts[t], agents[t], teams[t], servers[t])
  PROVE  Delivered(job'[r][t], prompts'[t], agents'[t], teams'[t], servers'[t])
<1>1. CASE List(r, t)
  <2>1. /\ job[r][t].at \in Kinds /\ ~job[r][t].listed /\ Listed(t, job[r][t], job'[r][t])
        /\ job'[r][t] \in JobKind /\ UNCHANGED <<prompts, agents, teams, servers>>
    BY <1>1, ListStep DEF defs
  <2>2. job[r][t] \in JobKind
    BY DEF SyncTypeOK
  <2>3. job[r][t].at \notin job[r][t].scope => Incoming(job[r][t]) = {}
    BY <2>1 DEF BundleIsOnePerName, Incoming, Kinds
  <2> QED
    BY <2>1, <2>2, <2>3, ListedDelivers
<1>2. CASE ImportPrompt(r, t)
  BY <1>2, PromptsDeliver
<1>3. CASE ImportAgent(r, t)
  BY <1>3, AgentsDeliver
<1>4. CASE ImportTeam(r, t)
  BY <1>4, TeamsDeliver
<1>5. CASE ImportServer(r, t)
  BY <1>5, ServersDeliver
<1> QED
  BY <1>1, <1>2, <1>3, <1>4, <1>5 DEF Import

LEMMA HandledKept ==
  ASSUME SyncTypeOK, PromptsNumbered, RunFollowsPlan, BundleIsOnePerName, TargetsInTurn, JobsFollowRuns,
         JobsAreWhole, HandledIsThere, SyncNext
  PROVE  HandledIsThere'
<1>1. run \in RunKind /\ run.no \in Nat /\ RunIds \subseteq Nat
  BY NodeSyncAssumption DEF SyncTypeOK, RunKind, RunIds
<1>2. ASSUME NEW plan \in Plans, StartRun(plan)
      PROVE  HandledIsThere'
  <2>1. run'.no = run.no + 1 /\ UNCHANGED job
    BY <1>2, StartRunStep
  <2>2. run'.no \in RunIds => \A t \in Targets : job'[run'.no][t].at = "none"
    BY <1>1, <2>1 DEF JobsFollowRuns
  <2> QED
    BY <2>2 DEF HandledIsThere
<1>3. CASE RunStep
  <2>1. run'.no = run.no /\ UNCHANGED <<prompts, agents, teams, servers, job, edited>>
    BY <1>3, RunStepsAreLocal DEF RunOnly, KeepsPlan, Elsewhere, defs
  <2> QED
    BY <2>1 DEF HandledIsThere
<1>4. CASE Send
  <2>1. PICK s \in Targets, q \in RunIds, j \in JobKind :
          /\ q = run.no /\ j = ImportRequest /\ JobPut(q, s, j)
          /\ run'.no = run.no /\ UNCHANGED <<prompts, agents, teams, servers, edited>>
    BY <1>4, SendStep DEF Elsewhere, KeepsPlan, defs
  <2>2. job'[q][s] = j
    BY <2>1 DEF JobPut
  <2>3. \A t \in Targets : t # s => job'[q][t] = job[q][t]
    BY <2>1 DEF JobPut
  <2>4. Delivered(j, prompts[s], agents[s], teams[s], servers[s])
    BY <2>1, FreshDelivers DEF ImportRequest, NoJob
  <2> SUFFICES ASSUME NEW t \in Targets \ edited, job'[q][t].at # "none", job'[q][t].failures = {},
                      job'[q][t].policy = "source_wins"
               PROVE  Delivered(job'[q][t], prompts[t], agents[t], teams[t], servers[t])
    BY <2>1 DEF HandledIsThere
  <2>5. CASE t = s
    BY <2>2, <2>4, <2>5
  <2>6. CASE t # s
    BY <2>1, <2>3, <2>6 DEF HandledIsThere
  <2> QED
    BY <2>5, <2>6
<1>5. ASSUME NEW r \in RunIds, NEW t \in Targets, Import(r, t)
      PROVE  HandledIsThere'
  <2>1. ImportTouches(r, t)
    BY <1>5, ImportStep
  <2>2. UNCHANGED <<run, edited>>
    BY <2>1 DEF ImportTouches
  <2>3. t \notin edited => r = run.no
    BY <1>1, <2>1 DEF ImportTouches, JobsFollowRuns, Kinds
  <2> SUFFICES ASSUME NEW s \in Targets \ edited, run.no \in RunIds, job'[run.no][s].at # "none",
                      job'[run.no][s].failures = {}, job'[run.no][s].policy = "source_wins"
               PROVE  Delivered(job'[run.no][s], prompts'[s], agents'[s], teams'[s], servers'[s])
    BY <2>2 DEF HandledIsThere
  <2>4. CASE s = t
    <3>1. r = run.no
      BY <2>3, <2>4
    <3>2. /\ job[r][t].at # "none" /\ job[r][t].failures = {} /\ job[r][t].policy = "source_wins"
          /\ job'[r][t].failures = {}
      BY <2>1, <2>4, <3>1 DEF ImportTouches, SameRequest, Kinds
    <3>3. job[r][t].bundle = run.bundle /\ job[r][t].scope = run.plan.scope /\ run.at # "idle"
      BY <3>1, <3>2 DEF JobsFollowRuns, Importing
    <3>4. Delivered(job[r][t], prompts[t], agents[t], teams[t], servers[t])
      BY <2>4, <3>1, <3>2 DEF HandledIsThere
    <3>5. Delivered(job'[r][t], prompts'[t], agents'[t], teams'[t], servers'[t])
      BY <1>5, <3>2, <3>3, <3>4, ImportDelivers
    <3> QED
      BY <2>4, <3>1, <3>5
  <2>5. CASE s # t
    <3>1. /\ job'[run.no][s] = job[run.no][s] /\ s \in SyncNodes \ {t}
          /\ prompts'[s] = prompts[s] /\ agents'[s] = agents[s] /\ teams'[s] = teams[s] /\ servers'[s] = servers[s]
      BY <2>1, <2>5 DEF ImportTouches, SyncNodes
    <3> QED
      BY <3>1 DEF HandledIsThere
  <2> QED
    BY <2>4, <2>5
<1>6. ASSUME NEW n \in SyncNodes, EditPrompt(n) \/ RemovePrompt(n) \/ EditAgent(n)
      PROVE  HandledIsThere'
  <2>1. UserTouches(n)
    BY <1>6, UsersKeepRun
  <2>2. UNCHANGED <<run, job, teams, servers>> /\ edited' = edited \cup {n}
    BY <2>1 DEF UserTouches
  <2>3. \A t \in Targets \ edited' : t \notin edited /\ prompts'[t] = prompts[t] /\ agents'[t] = agents[t]
    BY <2>1, <2>2 DEF UserTouches, SyncNodes
  <2> QED
    BY <2>2, <2>3 DEF HandledIsThere
<1> QED
  BY <1>2, <1>3, <1>4, <1>5, <1>6, StepCases

-----------------------------------------------------------------------------
(* The synchronisation: the theorems                                        *)

LEMMA SyncInitially == SyncInit => SyncInv
<1> SUFFICES ASSUME SyncInit
             PROVE  SyncInv
  OBVIOUS
<1> USE DEF SyncInit
<1>1. \A n \in SyncNodes :
        /\ prompts[n] = Stored[n].prompts /\ agents[n] = Stored[n].agents /\ teams[n] = Stored[n].teams
        /\ servers[n] = Stored[n].servers /\ lastId[n] = Cardinality(Stored[n].prompts) /\ lastId[n] \in Nat
  BY FS_CardinalityType, NodeSyncAssumption
<1>2. NoRun \in RunKind
  <2>1. NoRun.left \in Seq(Targets) /\ NoRun.no \in 0 .. MaxRuns
    BY NodeSyncAssumption DEF NoRun
  <2> QED
    BY <2>1, NoBundleKind DEF NoRun, RunKind, RunStages
<1>3. NoJob \in JobKind
  BY NoBundleKind DEF NoJob, JobKind
<1>4. SyncTypeOK
  BY <1>1, <1>2, <1>3, NodeSyncAssumption DEF SyncTypeOK
<1>5. PromptsNumbered /\ FamiliesHavePrompts
  BY <1>1, NodeSyncAssumption DEF PromptsNumbered, FamiliesHavePrompts
<1>6. RunFollowsPlan /\ ChosenIsClosed /\ ExportIsClosed
  BY DEF RunFollowsPlan, ChosenIsClosed, ExportIsClosed, WithDependencies, NoRun, Exporting
<1>7. BundleIsOnePerName
  BY DEF BundleIsOnePerName, NoRun, NoBundle, OneActive
<1>8. TargetsInTurn /\ JobsFollowRuns
  BY NodeSyncAssumption DEF TargetsInTurn, JobsFollowRuns, NoRun, NoJob, Importing, RunIds
<1>9. JobsAreWhole
  BY DEF JobsAreWhole, Whole, NoJob, Kinds
<1>10. HandledIsThere
  BY DEF HandledIsThere, NoRun, RunIds
<1> QED
  BY <1>4, <1>5, <1>6, <1>7, <1>8, <1>9, <1>10 DEF SyncInv

LEMMA SyncStutters ==
  ASSUME SyncInv, UNCHANGED syncVars
  PROVE  SyncInv'
<1>1. UNCHANGED <<prompts, agents, teams, servers, lastId, run, job, edits, mishaps, edited, emptied>>
  BY DEF syncVars, defs
<1>2. SyncTypeOK' /\ PromptsNumbered' /\ FamiliesHavePrompts' /\ RunFollowsPlan' /\ BundleIsOnePerName'
  BY <1>1 DEF SyncInv, SyncTypeOK, PromptsNumbered, FamiliesHavePrompts, RunFollowsPlan, BundleIsOnePerName
<1>3. ChosenIsClosed' /\ ExportIsClosed'
  BY <1>1 DEF SyncInv, ChosenIsClosed, ExportIsClosed, WithDependencies
<1>4. TargetsInTurn' /\ JobsFollowRuns' /\ JobsAreWhole' /\ HandledIsThere'
  BY <1>1 DEF SyncInv, TargetsInTurn, TargetsOf, JobsFollowRuns, JobsAreWhole, HandledIsThere
<1> QED
  BY <1>2, <1>3, <1>4 DEF SyncInv

(* The coordinator's run, its bundle and the imports of its targets agree   *)
(* at every step of the synchronisation: the bundle has one entry a name,   *)
(* what was chosen with its dependencies is closed, one target is asked at  *)
(* a time and once, an import works on the request it was sent, and what it *)
(* has handled without failure is on its node.                              *)
THEOREM SyncInvariance == SyncSpec => []SyncInv
<1>1. SyncInit => SyncInv
  BY SyncInitially
<1>2. SyncInv /\ [SyncNext]_syncVars => SyncInv'
  <2> SUFFICES ASSUME SyncInv, SyncNext
               PROVE  SyncInv'
    BY SyncStutters
  <2>1. SyncTypeOK' /\ PromptsNumbered' /\ FamiliesHavePrompts'
    BY TypesKept, NumbersKept, FamiliesKept DEF SyncInv
  <2>2. RunFollowsPlan' /\ BundleIsOnePerName' /\ ChosenIsClosed' /\ ExportIsClosed'
    BY PlanKept, BundleKept, ClosureKept DEF SyncInv
  <2>3. TargetsInTurn' /\ JobsFollowRuns' /\ JobsAreWhole' /\ HandledIsThere'
    BY TurnKept, RunsKept, WholeKept, HandledKept DEF SyncInv
  <2> QED
    BY <2>1, <2>2, <2>3 DEF SyncInv
<1> QED
  BY <1>1, <1>2, PTL DEF SyncSpec

(* The definitions of every node, the coordinator's run and the imports are *)
(* of their kinds, and prompt versions are one per number in a family, of   *)
(* which one at most is active.                                             *)
THEOREM SyncTypeCorrect == SyncSpec => [](SyncTypeOK /\ PromptsNumbered)
<1>1. SyncInv => SyncTypeOK /\ PromptsNumbered
  BY DEF SyncInv
<1> QED
  BY <1>1, SyncInvariance, PTL

LEMMA SuccessFollows ==
  ASSUME SyncInv
  PROVE  SuccessMeansArrived
<1> SUFFICES ASSUME run.at \in Importing, run.plan.policy = "source_wins"
             PROVE  /\ \A t \in Targets : run.results[t] = "success" /\ t \notin edited => Arrived(t)
                    /\ run.status = "success" => \A t \in TargetsOf(run.plan) : t \in edited \/ Arrived(t)
  BY DEF SuccessMeansArrived, Importing
<1>1. run.no \in RunIds
  BY DEF SyncInv, RunFollowsPlan, Importing
<1>2. ASSUME NEW t \in Targets, run.results[t] = "success", t \notin edited
      PROVE  Arrived(t)
  <2> DEFINE j == job[run.no][t]
  <2>1. j.at = "done" /\ j.failures = {}
    BY <1>1, <1>2 DEF SyncInv, JobsFollowRuns
  <2>2. j.bundle = run.bundle /\ j.policy = "source_wins"
    BY <1>1, <2>1 DEF SyncInv, JobsFollowRuns
  <2>3. Delivered(j, prompts[t], agents[t], teams[t], servers[t])
    BY <1>1, <1>2, <2>1, <2>2 DEF SyncInv, HandledIsThere
  <2>4. \A kind \in Kinds : \A e : Handled(j, kind, e)
    BY <2>1 DEF Handled, Past, Kinds
  <2> HIDE DEF j
  <2>5. /\ \A p \in run.bundle.prompts : p.active => Landed(j, prompts[t], p)
        /\ \A e \in run.bundle.agents : AgentLanded(agents[t], e)
        /\ \A e \in run.bundle.teams : teams[t][e.name] = e.row
        /\ \A e \in run.bundle.servers : servers[t][e.name] = e.row
    BY <2>2, <2>3, <2>4 DEF Delivered, Kinds
  <2>6. ASSUME NEW p \in run.bundle.prompts, p.active
        PROVE  Actives(prompts[t], p.family) = {p.text}
    <3>1. PICK u \in prompts[t] : u.family = p.family /\ u.active /\ u.text = p.text
      BY <2>5, <2>6 DEF Landed
    <3>2. OneActive(prompts[t])
      BY DEF SyncInv, PromptsNumbered, SyncNodes
    <3>3. \A q \in prompts[t] : q.family = p.family /\ q.active => q = u
      BY <3>1, <3>2 DEF OneActive
    <3> QED
      BY <3>1, <3>3 DEF Actives
  <2> QED
    BY <2>5, <2>6 DEF Arrived, AgentLanded
<1>3. run.status = "success" => \A t \in TargetsOf(run.plan) : t \in Targets /\ run.results[t] = "success"
  BY DEF SyncInv, TargetsInTurn
<1> QED
  BY <1>2, <1>3

(* A target reported as successful, in a run whose source wins, has every   *)
(* definition of the bundle, unless its users or the import of an earlier   *)
(* run changed it meanwhile; and a run is a success only if all its targets *)
(* are: for any number of nodes, definitions, runs, edits and failures.     *)
THEOREM SuccessHasArrived == SyncSpec => []SuccessMeansArrived
<1>1. SyncInv => SuccessMeansArrived
  BY SuccessFollows
<1> QED
  BY <1>1, SyncInvariance, PTL

(* No import leaves an agent on a family without prompts which no user      *)
(* emptied; and a bundle selected with its dependencies has the members of  *)
(* its teams, however deep they are nested, and the prompts of its agents.  *)
THEOREM ReferencesHaveArrived == SyncSpec => []ReferencesArrive
<1>1. SyncInv => ReferencesArrive
  <2> SUFFICES ASSUME SyncInv
               PROVE  ReferencesArrive
    OBVIOUS
  <2>1. \A n \in SyncNodes : \A a \in ThereIn(agents[n]) :
          FamilyOf(n, agents[n][a].family) = {} => <<n, agents[n][a].family>> \in emptied
    <3> SUFFICES ASSUME NEW n \in SyncNodes, NEW a \in ThereIn(agents[n]), FamilyOf(n, agents[n][a].family) = {}
                 PROVE  <<n, agents[n][a].family>> \in emptied
      OBVIOUS
    <3>1. a \in Agents /\ agents[n][a] # None
      BY DEF SyncInv, SyncTypeOK, ThereIn
    <3> QED
      BY <3>1 DEF SyncInv, FamiliesHavePrompts, FamilyOf
  <2>2. run.at \in {"next", "waiting"} /\ Source \notin edited /\ ~All
          /\ run.plan.scope = Kinds /\ run.plan.selection.dependencies =>
            WithDependencies /\ run.at \notin {"exportPrompts", "exportAgents"}
    BY DEF All, WithDependencies
  <2> QED
    BY <2>1, <2>2 DEF SyncInv, ExportIsClosed, ReferencesArrive
<1> QED
  BY <1>1, SyncInvariance, PTL

LEMMA KeepingStep ==
  ASSUME SyncInv, SyncNext, NEW r \in RunIds, NEW t \in Targets, job[r][t].policy = "target_wins",
         job'[r][t] # job[r][t]
  PROVE  /\ \A a \in ThereIn(agents[t]) : agents'[t][a] = agents[t][a]
         /\ \A x \in ThereIn(teams[t]) : teams'[t][x] = teams[t][x]
         /\ \A p \in prompts[t] : \E q \in prompts'[t] : q.id = p.id /\ q.text = p.text
<1> USE DEF SyncInv
<1>1. t \in SyncNodes /\ agents[t] \in [Agents -> AgentRow \cup {None}] /\ teams[t] \in [Teams -> TeamRow \cup {None}]
  BY DEF SyncTypeOK, SyncNodes
<1>2. ASSUME UNCHANGED <<prompts, agents, teams>>
      PROVE  /\ \A a \in ThereIn(agents[t]) : agents'[t][a] = agents[t][a]
             /\ \A x \in ThereIn(teams[t]) : teams'[t][x] = teams[t][x]
             /\ \A p \in prompts[t] : \E q \in prompts'[t] : q.id = p.id /\ q.text = p.text
  BY <1>2
<1>3. \A plan \in Plans : ~StartRun(plan)
  BY StartRunStep
<1>4. ~RunStep
  BY RunStepsAreLocal DEF RunOnly
<1>5. CASE Send
  BY <1>2, <1>5, SendStep DEF Elsewhere, defs
<1>6. \A n \in SyncNodes : ~(EditPrompt(n) \/ RemovePrompt(n) \/ EditAgent(n))
  BY UsersKeepRun DEF UserTouches
<1>7. ASSUME NEW s \in RunIds, NEW u \in Targets, Import(s, u)
      PROVE  /\ \A a \in ThereIn(agents[t]) : agents'[t][a] = agents[t][a]
             /\ \A x \in ThereIn(teams[t]) : teams'[t][x] = teams[t][x]
             /\ \A p \in prompts[t] : \E q \in prompts'[t] : q.id = p.id /\ q.text = p.text
  <2>1. s = r /\ u = t
    BY <1>7, ImportStep DEF ImportTouches
  <2>2. Skips(r, t)
    BY DEF Skips
  <2>3. CASE List(r, t)
    BY <1>2, <2>3, ListStep DEF defs
  <2>4. CASE ImportServer(r, t)
    BY <1>2, <2>4, ServerStep
  <2>5. CASE ImportAgent(r, t)
    <3>1. PICK e : AgentSet(r, t, e) \/ agents' = agents
      BY <2>5, AgentStep DEF AgentPassed
    <3>2. UNCHANGED <<prompts, teams>>
      BY <2>5, AgentStep
    <3>3. \A a \in ThereIn(agents[t]) : agents'[t][a] = agents[t][a]
      BY <1>1, <2>2, <3>1 DEF AgentSet, ThereIn, SyncTypeOK
    <3> QED
      BY <3>2, <3>3
  <2>6. CASE ImportTeam(r, t)
    <3>1. PICK e : TeamSet(r, t, e) \/ teams' = teams
      BY <2>6, TeamStep DEF TeamPassed
    <3>2. UNCHANGED <<prompts, agents>>
      BY <2>6, TeamStep
    <3>3. \A x \in ThereIn(teams[t]) : teams'[t][x] = teams[t][x]
      BY <1>1, <2>2, <3>1 DEF TeamSet, ThereIn, SyncTypeOK
    <3> QED
      BY <3>2, <3>3
  <2>7. CASE ImportPrompt(r, t)
    <3>1. PICK p \in Prompt : Created(r, t, p) \/ prompts' = prompts
      BY <2>2, <2>7, PromptStep DEF Updated, Passed
    <3>2. UNCHANGED <<agents, teams>>
      BY <2>7, PromptStep
    <3>3. \A w \in prompts[t] : \E q \in prompts'[t] : q.id = w.id /\ q.text = w.text
      <4>1. CASE prompts' = prompts
        BY <4>1
      <4>2. CASE Created(r, t, p)
        <5>1. PICK f \in Families, x \in Texts : f = p.family /\ x = p.text
          BY DEF Prompt
        <5> DEFINE new == NewPrompt(t, f, x)
                   P == prompts[t] \cup {new}
        <5>2. prompts'[t] = P \/ prompts'[t] = WithActive(P, new)
          BY <1>1, <4>2, <5>1 DEF Created, SyncTypeOK
        <5>3. /\ new \in Prompt /\ new.id = lastId[t] + 1 /\ new.family = f
              /\ Numbered(P, lastId[t] + 1) /\ OneActive(P)
          BY NewPromptAtTarget
        <5>4. P \in SUBSET Prompt /\ new.id \in Nat /\ new.family \in Families /\ lastId[t] + 1 \in Nat
          BY <1>1, <5>3 DEF SyncTypeOK
        <5> HIDE DEF new, P
        <5>5. \A w \in P : \E q \in WithActive(P, new) : q.id = w.id /\ q.text = w.text
          BY <5>3, <5>4, ActivatingKeeps
        <5> QED
          BY <5>2, <5>5 DEF P
      <4> QED
        BY <3>1, <4>1, <4>2
    <3> QED
      BY <3>2, <3>3
  <2> QED
    BY <1>7, <2>1, <2>3, <2>4, <2>5, <2>6, <2>7 DEF Import
<1> QED
  BY <1>3, <1>4, <1>5, <1>6, <1>7, StepCases

(* An import whose target wins changes no agent, team or prompt text that   *)
(* its target has when the step is taken, whenever it came to be there.     *)
THEOREM TargetsKeepTheirs == SyncSpec => TargetWinsKeeps
<1>1. SyncInv /\ [SyncNext]_syncVars =>
        [\A r \in RunIds, t \in Targets :
           job[r][t].policy = "target_wins" /\ job'[r][t] # job[r][t] =>
             /\ \A a \in ThereIn(agents[t]) : agents'[t][a] = agents[t][a]
             /\ \A x \in ThereIn(teams[t]) : teams'[t][x] = teams[t][x]
             /\ \A p \in prompts[t] : \E q \in prompts'[t] : q.id = p.id /\ q.text = p.text]_syncVars
  BY KeepingStep
<1> QED
  BY <1>1, SyncInvariance, PTL DEF SyncSpec, TargetWinsKeeps
=============================================================================
