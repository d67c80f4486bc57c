----------------------------- MODULE ExternalChannel ----------------------------
(****************************************************************************)
(* One conversation (route) of an external messaging channel: the requests  *)
(* with which the gateway posts its messages (ChannelIngressService), their *)
(* dispatch to the bound agent or team under the conversation's ThreadLock, *)
(* the turns that the agents work on, the receipts that tie a turn to its   *)
(* message, and the replies that are posted back (ReplyCallbackService).    *)
(*                                                                          *)
(* A step ends at an await whose outcome other handlers can influence: a    *)
(* database call or a post to the gateway.  A create that finds its key,    *)
(* and the find after it, are one step: only the refresh of an expired key  *)
(* depends on what was read before.  A request dispatches at most one turn, *)
(* which is named after it; turn ids are unique.                            *)
(*                                                                          *)
(* Bounds: a request is posted once (the gateway's retry is a request of    *)
(* the same message); MaxRebinds changes of the route's binding;            *)
(* MaxResponses responses of the turns of Responders; only the keys of      *)
(* Expiring messages expire, once; a callback key outlives its turn; the    *)
(* gateway's delivery events are Reports; the route is bound to one of      *)
(* FirstBindings at first.                                                  *)
(****************************************************************************)
EXTENDS ThreadLock

CONSTANTS
  Messages, MessageOf, \* what the gateway's requests post
  Agents, Team,        \* what a route can be bound to
  MaxRebinds, MaxResponses, Expiring, Responders, Reports,
  FirstBindings

(* a request makes one call of the lock                                     *)
Requests == Calls

ASSUME ExternalChannelAssumption ==
  /\ MessageOf \in [Requests -> Messages]
  /\ Expiring \subseteq Messages /\ Responders \subseteq Requests
  /\ Team \notin Agents /\ None \notin Agents \cup {Team}
  /\ MaxRebinds \in Nat /\ MaxResponses \in Nat
  /\ Reports \subseteq {"SENT", "DELIVERED", "FAILED"}
  /\ FirstBindings \subseteq Agents \cup {Team, None}

VARIABLES
  binding,     \* the target that the route is bound to
  rebinds,     \* how often the binding changed
  ingressKey,  \* of a message: its idempotency key
  expired,     \* history: the messages whose key expired
  request,     \* of a request: where its handler is, or what it answered
  target,      \* of a request: the target that it resolved
  turn,        \* of a request: where the turn is that it gave to an agent
  worker,      \* of a turn: its agent
  receipt,     \* of a message: the agent and the turn that its receipt names
  bound,       \* history: turns whose receipt was written
  responses,   \* of a turn: how many responses it had
  callbackKey, \* turns whose callback key is reserved
  status,      \* of a turn: its delivery event
  posts,       \* of a turn: how many replies the gateway received
  lapsed       \* history: turns whose outcome could not be recorded

bindingVars == <<binding, rebinds>>
ingressVars == <<ingressKey, expired, request, target>>
outboundVars == <<responses, callbackKey, status, posts, lapsed>>
turnVars == <<turn, worker, receipt, bound>>
vars == <<bindingVars, ingressVars, lockVars, turnVars, outboundVars>>

Targets == Agents \cup {Team}
Handling == {"refreshing", "resolving", "locked", "recording"}
NoReceipt == [agent |-> None, turn |-> None]

Init ==
  /\ binding \in FirstBindings /\ rebinds = 0
  /\ ingressKey = [m \in Messages |-> "absent"] /\ expired = {}
  /\ request = [r \in Requests |-> "new"]
  /\ target = [r \in Requests |-> None]
  /\ LockInit
  /\ turn = [r \in Requests |-> "none"]
  /\ worker = [r \in Requests |-> None]
  /\ receipt = [m \in Messages |-> NoReceipt]
  /\ bound = {}
  /\ responses = [r \in Requests |-> 0]
  /\ callbackKey = {} /\ lapsed = {}
  /\ status = [r \in Requests |-> "none"]
  /\ posts = [r \in Requests |-> 0]

-----------------------------------------------------------------------------
(* The environment: the binding is edited, a key's time to live passes.     *)
Rebind(b) ==
  /\ rebinds < MaxRebinds /\ b # binding
  /\ binding' = b /\ rebinds' = rebinds + 1
  /\ UNCHANGED <<ingressVars, lockVars, turnVars, outboundVars>>

Expire(m) ==
  /\ m \in Expiring \ expired
  /\ ingressKey[m] = "live"
  /\ ingressKey' = [ingressKey EXCEPT ![m] = "expired"]
  /\ expired' = expired \cup {m}
  /\ UNCHANGED <<bindingVars, request, target, lockVars, turnVars, outboundVars>>

-----------------------------------------------------------------------------
(* The ingress handler of a request.                                        *)
Goes(r, where) == request' = [request EXCEPT ![r] = where]

(* (slip: the message is only looked up; its key is written later)          *)
ReserveLate(r) ==
  LET m == MessageOf[r] IN
  /\ request[r] = "new"
  /\ \/ /\ ingressKey[m] # "live"
        /\ Goes(r, "refreshing")
     \/ /\ ingressKey[m] = "live"
        /\ Goes(r, "DUPLICATE")
  /\ UNCHANGED <<bindingVars, ingressKey, expired, target, lockVars, turnVars, outboundVars>>

Reserve(r) ==
  LET m == MessageOf[r] IN
  /\ request[r] = "new"
  /\ \/ /\ ingressKey[m] = "absent"
        /\ ingressKey' = [ingressKey EXCEPT ![m] = "live"]
        /\ Goes(r, "resolving")
     \/ /\ ingressKey[m] = "live"
        /\ Goes(r, "DUPLICATE")
        /\ UNCHANGED ingressKey
     \/ /\ ingressKey[m] = "expired"
        /\ Goes(r, "refreshing")
        /\ UNCHANGED ingressKey
  /\ UNCHANGED <<bindingVars, expired, target, lockVars, turnVars, outboundVars>>

Refresh(r) ==
  /\ request[r] = "refreshing"
  /\ ingressKey' = [ingressKey EXCEPT ![MessageOf[r]] = "live"]
  /\ Goes(r, "resolving")
  /\ UNCHANGED <<bindingVars, expired, target, lockVars, turnVars, outboundVars>>

(* the binding is read, and the handler queues for the conversation's lock  *)
Resolve(r) ==
  /\ request[r] = "resolving"
  /\ \/ /\ binding = None
        /\ Goes(r, "UNBOUND")
        /\ UNCHANGED <<target, lockVars>>
     \/ /\ binding # None
        /\ target' = [target EXCEPT ![r] = binding]
        /\ Enter(r)
        /\ Goes(r, "locked")
  /\ UNCHANGED <<bindingVars, ingressKey, expired, turnVars, outboundVars>>

StartDispatch(r) ==
  /\ Acquire(r)
  /\ UNCHANGED <<bindingVars, ingressVars, turnVars, outboundVars>>

GiveUp(r) ==
  /\ TimeOut(r)
  /\ Goes(r, "FAILED")
  /\ UNCHANGED <<bindingVars, ingressKey, expired, target, turnVars, outboundVars>>

(* the agent, or the member that a team's command goes to, is handed the    *)
(* message                                                                  *)
Deliver(r, a) ==
  /\ lock[r] = "holding" /\ turn[r] = "none"
  /\ target[r] \in {a, Team}
  /\ turn' = [turn EXCEPT ![r] = "queued"]
  /\ worker' = [worker EXCEPT ![r] = a]
  /\ UNCHANGED <<bindingVars, ingressVars, lockVars, receipt, bound, outboundVars>>

(* the dispatch returns, or it fails, possibly after the message arrived    *)
Dispatched(r) ==
  /\ Release(r)
  /\ turn[r] # "none" /\ Goes(r, "recording")
  /\ UNCHANGED <<bindingVars, ingressKey, expired, target, turnVars, outboundVars>>

DispatchFails(r) ==
  /\ Release(r)
  /\ Goes(r, "FAILED")
  /\ UNCHANGED <<bindingVars, ingressKey, expired, target, turnVars, outboundVars>>

(* (slip: the receipt is written anew, without the turn)                    *)
RecordAnew(r) ==
  /\ request[r] = "recording"
  /\ Goes(r, "ROUTED")
  /\ receipt' = [receipt EXCEPT ![MessageOf[r]] =
                   [agent |-> IF target[r] = Team THEN None ELSE target[r], turn |-> None]]
  /\ UNCHANGED <<bindingVars, ingressKey, expired, target, lockVars, turn, worker, bound,
                 outboundVars>>

(* the receipt's target is that of the dispatch; its turn stays             *)
RecordReceipt(r) ==
  /\ request[r] = "recording"
  /\ Goes(r, "ROUTED")
  /\ receipt' = [receipt EXCEPT ![MessageOf[r]].agent =
                   IF target[r] = Team THEN None ELSE target[r]]
  /\ UNCHANGED <<bindingVars, ingressKey, expired, target, lockVars, turn, worker, bound,
                 outboundVars>>

(* a database call of the handler fails                                     *)
HandlerFails(r) ==
  /\ request[r] \in {"refreshing", "resolving", "recording"}
  /\ Goes(r, "FAILED")
  /\ UNCHANGED <<bindingVars, ingressKey, expired, target, lockVars, turnVars, outboundVars>>

-----------------------------------------------------------------------------
(* A turn of an agent, which works on one message at a time.                *)
Moves(t, where) == turn' = [turn EXCEPT ![t] = where]

Idle(a) == \A t \in Requests : worker[t] = a => turn[t] \in {"queued", "over"}

BindTurn(t) ==
  /\ turn[t] = "queued" /\ Idle(worker[t])
  /\ Moves(t, "running")
  /\ receipt' = [receipt EXCEPT ![MessageOf[t]] = [agent |-> worker[t], turn |-> t]]
  /\ bound' = bound \cup {t}
  /\ UNCHANGED <<bindingVars, ingressVars, lockVars, worker, outboundVars>>

(* the upsert fails, which is logged only                                   *)
BindTurnFails(t) ==
  /\ turn[t] = "queued" /\ Idle(worker[t])
  /\ Moves(t, "running")
  /\ UNCHANGED <<bindingVars, ingressVars, lockVars, worker, receipt, bound, outboundVars>>

EndTurn(t) ==
  /\ turn[t] = "running"
  /\ Moves(t, "over")
  /\ UNCHANGED <<bindingVars, ingressVars, lockVars, worker, receipt, bound, outboundVars>>

(* getSourceByAgentTurn                                                     *)
HasSource(t) == \E m \in Messages : receipt[m] = [agent |-> worker[t], turn |-> t]

(* the agent's model responds: the reply's source is looked up              *)
Respond(t) ==
  /\ t \in Responders
  /\ turn[t] = "running" /\ responses[t] < MaxResponses
  /\ responses' = [responses EXCEPT ![t] = @ + 1]
  /\ Moves(t, IF HasSource(t) THEN "checking" ELSE "running")
  /\ UNCHANGED <<bindingVars, ingressVars, lockVars, worker, receipt, bound, callbackKey,
                 status, posts, lapsed>>

CheckBinding(t) ==
  /\ turn[t] = "checking"
  /\ Moves(t, IF binding = worker[t] THEN "reserving" ELSE "running")
  /\ UNCHANGED <<bindingVars, ingressVars, lockVars, worker, receipt, bound, outboundVars>>

ReserveReply(t) ==
  /\ turn[t] = "reserving"
  /\ Moves(t, IF t \in callbackKey THEN "running" ELSE "pending")
  /\ callbackKey' = callbackKey \cup {t}
  /\ UNCHANGED <<bindingVars, ingressVars, lockVars, worker, receipt, bound, responses,
                 status, posts, lapsed>>

(* recordWithStatus: the delivery event of the callback key is upserted,     *)
(* whatever it said before                                                  *)
UpsertEvent(t, s) == status' = [status EXCEPT ![t] = s]

RecordPending(t) ==
  /\ turn[t] = "pending"
  /\ Moves(t, "publishing")
  /\ UpsertEvent(t, "PENDING")
  /\ UNCHANGED <<bindingVars, ingressVars, lockVars, worker, receipt, bound, responses,
                 callbackKey, posts, lapsed>>

(* the gateway received the reply and answered, or its answer was late, an  *)
(* error or lost                                                            *)
Publish(t, answered) ==
  /\ turn[t] = "publishing"
  /\ posts' = [posts EXCEPT ![t] = @ + 1]
  /\ Moves(t, IF answered THEN "sent" ELSE "failing")
  /\ UNCHANGED <<bindingVars, ingressVars, lockVars, worker, receipt, bound, responses,
                 callbackKey, status, lapsed>>

PublishLost(t) ==
  /\ turn[t] = "publishing"
  /\ Moves(t, "failing")
  /\ UNCHANGED <<bindingVars, ingressVars, lockVars, worker, receipt, bound, outboundVars>>

(* recordSent, or recordFailed in the catch                                 *)
RecordOutcome(t) ==
  /\ turn[t] \in {"sent", "failing"}
  /\ Moves(t, "running")
  /\ UpsertEvent(t, IF turn[t] = "sent" THEN "SENT" ELSE "FAILED")
  /\ UNCHANGED <<bindingVars, ingressVars, lockVars, worker, receipt, bound, responses,
                 callbackKey, posts, lapsed>>

(* a delivery event cannot be written                                       *)
RecordFails(t) ==
  /\ turn[t] \in {"pending", "sent", "failing"}
  /\ Moves(t, IF turn[t] = "sent" THEN "failing" ELSE "running")
  /\ lapsed' = IF turn[t] = "failing" THEN lapsed \cup {t} ELSE lapsed
  /\ UNCHANGED <<bindingVars, ingressVars, lockVars, worker, receipt, bound, responses,
                 callbackKey, status, posts>>

(* the gateway reports on a reply that it received                          *)
GatewayReports(t, s) ==
  /\ posts[t] > 0
  /\ UpsertEvent(t, s)
  /\ UNCHANGED <<bindingVars, ingressVars, lockVars, turnVars, responses, callbackKey, posts,
                 lapsed>>

-----------------------------------------------------------------------------
HandlerNext(r) ==
  \/ Reserve(r) \/ Refresh(r) \/ Resolve(r) \/ StartDispatch(r) \/ GiveUp(r)
  \/ (\E a \in Agents : Deliver(r, a))
  \/ Dispatched(r) \/ DispatchFails(r) \/ RecordReceipt(r) \/ HandlerFails(r)

TurnNext(t) ==
  \/ BindTurn(t) \/ BindTurnFails(t) \/ EndTurn(t) \/ Respond(t)
  \/ CheckBinding(t) \/ ReserveReply(t) \/ RecordPending(t)
  \/ (\E answered \in BOOLEAN : Publish(t, answered)) \/ PublishLost(t)
  \/ RecordOutcome(t) \/ RecordFails(t)
  \/ (\E s \in Reports : GatewayReports(t, s))

Next ==
  \/ \E b \in Targets \cup {None} : Rebind(b)
  \/ \E m \in Messages : Expire(m)
  \/ \E r \in Requests : HandlerNext(r) \/ TurnNext(r)

Spec == Init /\ [][Next]_vars

-----------------------------------------------------------------------------
Of(m) == {r \in Requests : MessageOf[r] = m}
Turns(m) == {t \in Of(m) : turn[t] # "none"}

(* However often the gateway repeats a message, and however its requests    *)
(* interleave, an agent is handed it once, until its idempotency key has    *)
(* expired.  And a message that a request was told is a duplicate was       *)
(* handed to an agent, or still can be, or its route was not bound, or a    *)
(* request was told that it failed: nothing is lost that no answer tells of. *)
DispatchedOnce ==
  /\ \A m \in Messages \ expired : \A t, u \in Turns(m) : t = u
  /\ \A m \in Messages :
       (\E r \in Of(m) : request[r] \in {"DUPLICATE", "ROUTED"}) =>
         \/ Turns(m) # {}
         \/ \E r \in Of(m) : request[r] \in Handling \cup {"UNBOUND", "FAILED"}

(* The handler and the agent write a message's receipt in either order.     *)
(* Unless the message was dispatched again, or by a team, a turn that was   *)
(* bound to its message is found, as long as it lasts and afterwards.  And  *)
(* the delivery event of its reply is not left PENDING: when the            *)
(* publication has ended, however it ended, the event tells an outcome,     *)
(* unless the database refused to take it.                                  *)
RepliesAreTraced ==
  /\ \A t \in bound :
       target[t] # Team /\ (\A u \in Turns(MessageOf[t]) : u = t) => HasSource(t)
  /\ \A t \in Requests \ lapsed :
       status[t] = "PENDING" => turn[t] \in {"publishing", "sent", "failing"}
=============================================================================
