------------------------------ MODULE EventUplink ------------------------------
(****************************************************************************)
(* The events of one run on their way from a worker's team to the host:     *)
(* WorkerRunLifecycleCoordinator with its event forwarders, the uplink      *)
(* client's POST with its abort, and the host's event route with the run    *)
(* fence, the idempotency policy and the aggregator's numbering.            *)
(*                                                                          *)
(* Handlers are the bootstraps and stops of the run, in the part that       *)
(* replaces or tears down the forwarder; a forwarder has the name of the    *)
(* handler that attached it.  Events are numbered as the team emits them.   *)
(* A request that is lost is one that stays "sent".                         *)
(*                                                                          *)
(* Bounds: MaxEvents of this run; MaxOthers events of other runs or nodes,  *)
(* which share the idempotency policy; Capacity is the policy's maxEntries. *)
(****************************************************************************)
EXTENDS Naturals, Sequences, FiniteSets

CONSTANTS Handlers, MaxEvents, MaxOthers, Capacity, None

ASSUME EventUplinkAssumption ==
  /\ MaxEvents \in Nat /\ MaxOthers \in Nat
  /\ Capacity \in Nat \ {0}
  /\ None \notin Handlers

Events == 1 .. MaxEvents
Other == 0      \* an accepted event of another run or node

VARIABLES
  handler,      \* the bootstraps and stops
  overlapped,   \* history: whether one began before the last one ended
  current,      \* eventForwarderByRunId
  tracked,      \* whether hostNodeIdByRunId knows the run
  forwarder,    \* the forwarding loops
  produced,     \* events the team emitted so far
  post,         \* what became of every POST
  aborted,      \* history: POSTs whose client gave up waiting
  active,       \* whether the host's orchestrator still has the run
  log,          \* the events the host accepted, in the order of their numbers
  remembered,   \* expiresAtByKey: the places in log whose key is in the map
  expired       \* history: the places whose entry outlived its ttlMs

uplinkVars == <<handler, overlapped, current, tracked, forwarder, produced, post,
                aborted, active, log, remembered, expired>>
workerVars == <<handler, overlapped, current, tracked, forwarder, produced, aborted>>
hostVars == <<active, log, remembered, expired>>

UplinkInit ==
  /\ handler \in [Handlers -> [kind : {"replace", "teardown"}, at : {"new"}, closes : {None}]]
  /\ overlapped = FALSE
  /\ current = None
  /\ tracked = FALSE
  /\ forwarder = [h \in Handlers |->
                    [at |-> "none", next |-> 1, closed |-> FALSE, until |-> MaxEvents]]
  /\ produced = 0
  /\ post = [h \in Handlers |-> [e \in Events |-> "none"]]
  /\ aborted = {}
  /\ active = TRUE
  /\ log = <<>>
  /\ remembered = {}
  /\ expired = {}

-----------------------------------------------------------------------------
(* Replacing and tearing down the forwarder                                 *)

(* stopEventForwarder up to its await: the stream is closed and the loop    *)
(* keeps what it has queued; a bootstrap has subscribed to the new stream   *)
StopForwarder(f, h) ==
  /\ current' = None
  /\ forwarder' = [g \in Handlers |->
       CASE g = f -> [forwarder[f] EXCEPT !.closed = TRUE, !.until = produced]
         [] g = h -> [forwarder[h] EXCEPT !.next = produced + 1]
         [] OTHER -> forwarder[g]]

(* (slip: the old forwarder is taken out of the map but not closed)         *)
BeginWithoutClose(h) ==
  /\ handler[h].at = "new"
  /\ overlapped' = (overlapped \/ \E g \in Handlers : handler[g].at = "closing")
  /\ handler' = [handler EXCEPT ![h].at = "closing"]
  /\ current' = None
  /\ tracked' = (tracked \/ handler[h].kind = "replace")
  /\ forwarder' = [forwarder EXCEPT ![h].next = produced + 1]
  /\ UNCHANGED <<produced, post, aborted, hostVars>>

(* a bootstrap has marked the run and calls replaceEventForwarder, or a stop *)
(* calls teardownRun                                                        *)
Begin(h) ==
  /\ handler[h].at = "new"
  /\ overlapped' = (overlapped \/ \E g \in Handlers : handler[g].at = "closing")
  /\ handler' = [handler EXCEPT ![h].at = "closing", ![h].closes = current]
  /\ StopForwarder(current, h)
  /\ tracked' = (tracked \/ handler[h].kind = "replace")
  /\ UNCHANGED <<produced, post, aborted, hostVars>>

(* forwarder.close() has awaited the loop                                   *)
Closed(h) ==
  /\ handler[h].at = "closing"
  /\ handler[h].closes # None => forwarder[handler[h].closes].at = "ended"
  /\ handler' = [handler EXCEPT ![h].at = "done"]

(* (slip: the loop is not awaited before the run is forgotten)              *)
TeardownAtOnce(h) ==
  /\ handler[h].kind = "teardown"
  /\ handler[h].at = "closing"
  /\ handler' = [handler EXCEPT ![h].at = "done"]
  /\ tracked' = FALSE
  /\ UNCHANGED <<overlapped, current, forwarder, produced, post, aborted, hostVars>>

Teardown(h) ==
  /\ handler[h].kind = "teardown"
  /\ Closed(h)
  /\ tracked' = FALSE
  /\ UNCHANGED <<overlapped, current, forwarder, produced, post, aborted, hostVars>>

Attach(h) ==
  /\ handler[h].kind = "replace"
  /\ Closed(h)
  /\ current' = h
  /\ forwarder' = [forwarder EXCEPT ![h].at = "waiting"]
  /\ UNCHANGED <<overlapped, tracked, produced, post, aborted, hostVars>>

(* the team had no event stream: it is gone                                 *)
NoStream(h) ==
  /\ handler[h].kind = "replace"
  /\ Closed(h)
  /\ UNCHANGED <<overlapped, current, tracked, forwarder, produced, post, aborted, hostVars>>

-----------------------------------------------------------------------------
(* The forwarding loop and the uplink client                                *)

Produce ==
  /\ produced < MaxEvents
  /\ produced' = produced + 1
  /\ UNCHANGED <<handler, overlapped, current, tracked, forwarder, post, aborted, hostVars>>

(* the POST goes to the tracked host, or to the node itself                 *)
Publish(h) ==
  LET e == forwarder[h].next
  IN  /\ forwarder[h].at = "waiting"
      /\ e <= produced /\ e <= forwarder[h].until
      /\ forwarder' = [forwarder EXCEPT ![h].at = "posting"]
      /\ post' = [post EXCEPT ![h][e] = IF tracked THEN "sent" ELSE "astray"]
      /\ UNCHANGED <<handler, overlapped, current, tracked, produced, aborted, hostVars>>

NextEvent(h) ==
  forwarder' = [forwarder EXCEPT ![h].at = "waiting", ![h].next = @ + 1]

Answered(h) ==
  /\ forwarder[h].at = "posting"
  /\ post[h][forwarder[h].next] \notin {"sent", "checked"}
  /\ NextEvent(h)
  /\ UNCHANGED <<handler, overlapped, current, tracked, produced, post, aborted, hostVars>>

(* (slip: an aborted POST is not given up)                                  *)
AbortAndWait(h) ==
  /\ forwarder[h].at = "posting"
  /\ aborted' = aborted \cup {<<h, forwarder[h].next>>}
  /\ UNCHANGED <<handler, overlapped, current, tracked, forwarder, produced, post, hostVars>>

(* requestTimeoutMs passed or the connection failed: the error is logged and *)
(* the event is not sent again, though the request may be under way         *)
Abort(h) ==
  /\ forwarder[h].at = "posting"
  /\ post[h][forwarder[h].next] \in {"sent", "checked"}
  /\ NextEvent(h)
  /\ aborted' = aborted \cup {<<h, forwarder[h].next>>}
  /\ UNCHANGED <<handler, overlapped, current, tracked, produced, post, hostVars>>

(* a closed stream ends, whether it delivers what it has queued or not      *)
EndLoop(h) ==
  /\ forwarder[h].at = "waiting"
  /\ forwarder[h].closed
  /\ forwarder' = [forwarder EXCEPT ![h].at = "ended"]
  /\ UNCHANGED <<handler, overlapped, current, tracked, produced, post, aborted, hostVars>>

-----------------------------------------------------------------------------
(* The host's event route                                                   *)

Becomes(h, e, p) == post' = [post EXCEPT ![h][e] = p]

(* verification fails, or the server answers an error                       *)
Refuse(h, e) ==
  /\ post[h][e] = "sent"
  /\ Becomes(h, e, "refused")
  /\ UNCHANGED <<workerVars, hostVars>>

(* dropIfStale and its await                                                *)
Fence(h, e) ==
  /\ post[h][e] = "sent"
  /\ Becomes(h, e, IF active THEN "checked" ELSE "stale")
  /\ UNCHANGED <<workerVars, hostVars>>

Keys == {log[i] : i \in remembered}
Oldest == CHOOSE i \in remembered : \A j \in remembered : i <= j

(* shouldDropDuplicate forgets its oldest entry when it is full; the        *)
(* aggregator gives the event the next sequence number of its run           *)
EvictEarly(e) ==      \* (slip: one entry too few is kept)
  /\ log' = Append(log, e)
  /\ remembered' = (IF Cardinality(remembered) >= Capacity - 1 /\ remembered # {}
                    THEN remembered \ {Oldest} ELSE remembered) \cup {Len(log) + 1}

Accept(e) ==
  /\ log' = Append(log, e)
  /\ remembered' = (IF Cardinality(remembered) >= Capacity
                    THEN remembered \ {Oldest} ELSE remembered) \cup {Len(log) + 1}

Ingest(h, e) ==
  /\ post[h][e] = "checked"
  /\ \/ e \in Keys /\ Becomes(h, e, "duplicate") /\ UNCHANGED <<log, remembered>>
     \/ e \notin Keys /\ Becomes(h, e, "accepted") /\ Accept(e)
  /\ UNCHANGED <<workerVars, active, expired>>

IngestOther ==
  /\ Cardinality({i \in 1 .. Len(log) : log[i] = Other}) < MaxOthers
  /\ Accept(Other)
  /\ UNCHANGED <<workerVars, post, active, expired>>

(* pruneExpired: entries expire in the order they were made                 *)
PruneExpired ==
  /\ remembered # {}
  /\ remembered' = remembered \ {Oldest}
  /\ expired' = expired \cup {Oldest}
  /\ UNCHANGED <<workerVars, post, active, log>>

StopRun ==
  /\ active
  /\ active' = FALSE
  /\ UNCHANGED <<workerVars, post, log, remembered, expired>>

-----------------------------------------------------------------------------
UplinkNext ==
  \/ \E h \in Handlers :
       \/ Begin(h) \/ Teardown(h) \/ Attach(h) \/ NoStream(h)
       \/ Publish(h) \/ Answered(h) \/ Abort(h) \/ EndLoop(h)
  \/ \E h \in Handlers, e \in Events : Refuse(h, e) \/ Fence(h, e) \/ Ingest(h, e)
  \/ Produce \/ IngestOther \/ PruneExpired \/ StopRun

(* a POST ends by its answer or its abort; a closed stream ends its loop,   *)
(* and a promise that is settled resumes its handler                        *)
Fairness ==
  \A h \in Handlers :
    /\ WF_uplinkVars(Answered(h) \/ Abort(h))
    /\ WF_uplinkVars(Publish(h) \/ EndLoop(h))
    /\ WF_uplinkVars(Teardown(h) \/ Attach(h) \/ NoStream(h))

UplinkSpec == UplinkInit /\ [][UplinkNext]_uplinkVars
FairSpec == UplinkSpec /\ Fairness

-----------------------------------------------------------------------------
(* Properties                                                               *)

(* The host accepts an event a second time only when the first entry's time *)
(* was up or at least Capacity later events have pushed it out, however     *)
(* many forwarders and late requests repeat it                              *)
(* (remote-event-idempotency-policy.ts:38).                                 *)
AcceptedOnceInWindow ==
  \A i, j \in 1 .. Len(log) :
    (i < j /\ log[i] = log[j] /\ log[i] # Other) => (i \in expired \/ j - i > Capacity)

(* While the run's bootstraps and stops do not overlap, a run has one       *)
(* forwarder at work, the registered one or the one a handler is closing    *)
(* ("forwards projected member events and replaces existing forwarder"),    *)
(* none of its events is sent to the worker itself because the run's host   *)
(* was forgotten too early,                                                 *)
OneForwarder ==
  overlapped \/
    /\ \A f \in Handlers : forwarder[f].at \in {"waiting", "posting"} =>
         \/ current = f
         \/ \E h \in Handlers : handler[h].at = "closing" /\ handler[h].closes = f
    /\ \A h \in Handlers, e \in Events : post[h][e] # "astray"

(* ... and the numbering follows the order in which the team emitted the    *)
(* events, except for an event whose POST the worker had given up.          *)
OrderKeptUnlessAborted ==
  overlapped \/ \A i, j \in 1 .. Len(log) :
    (i < j /\ log[j] # Other /\ log[j] < log[i]) => \E h \in Handlers : <<h, log[j]>> \in aborted

(* A bootstrap or a stop that waits for the old forwarder gets on: no host  *)
(* that is silent keeps the worker from closing a stream.                   *)
CloseEnds ==
  \A h \in Handlers : handler[h].at = "closing" ~> handler[h].at = "done"
=============================================================================
