-------------------------- MODULE ExternalChannelProofs --------------------------
(****************************************************************************)
(* The lock and the conversation of an external channel, for any number of  *)
(* calls, messages, requests and agents.  Of the lock: the key is forgotten *)
(* when it is idle, and until a call times out, calls work in their turn;   *)
(* the strengthening says how the chain of tails and the order of arrival   *)
(* agree.  The channel uses the lock by its operations only, so it inherits *)
(* this.  Of the channel: where a handler is in its conversation says where *)
(* its call of the lock and its turn are, and a message whose key has not   *)
(* expired has one request that took it.                                    *)
(****************************************************************************)
EXTENDS ExternalChannel, TLAPS

-----------------------------------------------------------------------------
(* The lock: the last tail is the last call's, and a waiting call waits for *)
(* the call that came just before it.                                       *)

TailIsActive == tail # None => Active(tail)

TicketsNameCalls ==
  \A c \in Calls :
    /\ ticket[c] <= tickets
    /\ lock[c] # "out" => \A d \in Calls : ticket[d] = ticket[c] => d = c

PredecessorCame == \A c \in Calls : prev[c] # None => lock[prev[c]] # "out"

TailIsLast ==
  IF tail = None THEN \A c \in Calls : ~ Active(c) ELSE ticket[tail] = tickets

EarlierAreDone(c) == \A d \in Calls : ticket[d] < ticket[c] => ~ Active(d)

WaitsForPredecessor ==
  \A c \in Calls :
    lock[c] = "waiting" =>
      IF prev[c] = None THEN EarlierAreDone(c) ELSE ticket[c] = ticket[prev[c]] + 1

WorksInTurn ==
  \A c \in Calls : lock[c] \in {"holding", "released"} => EarlierAreDone(c)

LockInv ==
  /\ LockTypeOK
  /\ TailIsActive
  /\ TicketsNameCalls
  /\ PredecessorCame
  /\ NobodyTimedOut => TailIsLast /\ WaitsForPredecessor /\ WorksInTurn

-----------------------------------------------------------------------------
(* Nobody who timed out comes back.                                         *)
LEMMA TimedOutStays ==
  ASSUME LockTypeOK, [LockNext]_lockVars, NobodyTimedOut'
  PROVE  NobodyTimedOut
  BY ThreadLockAssumption
  DEF LockTypeOK, LockNext, lockVars, NobodyTimedOut, Enter, Acquire, Release, TimeOut

LEMMA LockInitInv == LockInit => LockInv
  BY ThreadLockAssumption
  DEF LockInit, LockInv, LockTypeOK, TailIsActive, Active, TicketsNameCalls, PredecessorCame,
      NobodyTimedOut, TailIsLast, WaitsForPredecessor, WorksInTurn, EarlierAreDone

LEMMA LockInvStep == LockInv /\ [LockNext]_lockVars => LockInv'
<1> SUFFICES ASSUME LockInv, [LockNext]_lockVars PROVE LockInv'
  OBVIOUS
<1> USE ThreadLockAssumption
<1>1. LockTypeOK /\ LockTypeOK'
  BY DEF LockInv, LockTypeOK, LockNext, lockVars, Enter, Acquire, Release, TimeOut, Leave
<1>2. NobodyTimedOut' => NobodyTimedOut
  BY <1>1, TimedOutStays
<1>3. ASSUME NEW c \in Calls, Enter(c) PROVE LockInv'
  <2>1. TailIsActive'
    BY <1>1, <1>3 DEF LockInv, LockTypeOK, TailIsActive, Active, Enter
  <2>2. TicketsNameCalls'
    BY <1>1, <1>3 DEF LockInv, LockTypeOK, TicketsNameCalls, Enter
  <2>3. PredecessorCame'
    BY <1>1, <1>3 DEF LockInv, LockTypeOK, TailIsActive, Active, PredecessorCame, Enter
  <2>4. ASSUME NobodyTimedOut' PROVE TailIsLast' /\ WaitsForPredecessor' /\ WorksInTurn'
    <3>1. TailIsLast /\ WaitsForPredecessor /\ WorksInTurn
      BY <1>2, <2>4 DEF LockInv
    <3>2. \A d \in Calls : ticket[d] <= tickets
      BY DEF LockInv, TicketsNameCalls
    <3>3. TailIsLast'
      BY <1>1, <1>3 DEF LockTypeOK, TailIsLast, Enter
    <3>4. \A d \in Calls \ {c} :
            /\ lock'[d] = lock[d] /\ ticket'[d] = ticket[d] /\ prev'[d] = prev[d]
            /\ Active(d)' = Active(d)
      BY <1>1, <1>3 DEF LockTypeOK, Active, Enter
    <3>5. lock[c] = "out" /\ lock'[c] = "waiting" /\ ticket'[c] = tickets + 1 /\ prev'[c] = tail
      BY <1>1, <1>3 DEF LockTypeOK, Enter
    <3>6. \A d \in Calls \ {c} : EarlierAreDone(d) => EarlierAreDone(d)'
      BY <1>1, <3>2, <3>4, <3>5 DEF LockTypeOK, EarlierAreDone
    <3>7. WorksInTurn'
      BY <3>1, <3>4, <3>5, <3>6 DEF WorksInTurn
    <3>8. \A d \in Calls \ {c} :
            lock[d] = "waiting" /\ prev[d] # None => prev[d] \in Calls \ {c}
      BY <1>1, <3>5 DEF LockInv, LockTypeOK, PredecessorCame
    <3>9. \A d \in Calls \ {c} :
            lock'[d] = "waiting" =>
              IF prev'[d] = None THEN EarlierAreDone(d)'
              ELSE ticket'[d] = ticket'[prev'[d]] + 1
      BY <3>1, <3>4, <3>6, <3>8 DEF WaitsForPredecessor
    <3>10. IF prev'[c] = None THEN EarlierAreDone(c)' ELSE ticket'[c] = ticket'[prev'[c]] + 1
      <4>1. CASE tail = None
        BY <4>1, <1>1, <3>1, <3>4, <3>5 DEF LockTypeOK, TailIsLast, EarlierAreDone
      <4>2. CASE tail # None
        <5>1. tail \in Calls \ {c}
          BY <4>2, <1>1, <3>5 DEF LockInv, LockTypeOK, TailIsActive, Active
        <5> QED BY <4>2, <5>1, <3>1, <3>4, <3>5 DEF TailIsLast
      <4> QED BY <4>1, <4>2
    <3>11. WaitsForPredecessor'
      BY <3>9, <3>10 DEF WaitsForPredecessor
    <3> QED BY <3>3, <3>7, <3>11
  <2> QED BY <1>1, <2>1, <2>2, <2>3, <2>4 DEF LockInv
<1>4. ASSUME NEW c \in Calls, Acquire(c) PROVE LockInv'
  <2>1. TailIsActive'
    BY <1>1, <1>4 DEF LockInv, LockTypeOK, TailIsActive, Active, Acquire
  <2>2. TicketsNameCalls'
    BY <1>1, <1>4 DEF LockInv, LockTypeOK, TicketsNameCalls, Acquire
  <2>3. PredecessorCame'
    BY <1>1, <1>4 DEF LockInv, LockTypeOK, PredecessorCame, Acquire
  <2>4. ASSUME NobodyTimedOut' PROVE TailIsLast' /\ WaitsForPredecessor' /\ WorksInTurn'
    <3>1. TailIsLast /\ WaitsForPredecessor /\ WorksInTurn
      BY <1>2, <2>4 DEF LockInv
    <3>2. \A d \in Calls : Active(d)' = Active(d)
      BY <1>1, <1>4 DEF LockTypeOK, Active, Acquire
    <3>3. UNCHANGED <<tail, prev, ticket, tickets>>
      BY <1>4 DEF Acquire
    <3>4. \A d \in Calls : EarlierAreDone(d)' = EarlierAreDone(d)
      BY <3>2, <3>3 DEF EarlierAreDone
    <3>5. TailIsLast'
      BY <3>1, <3>2, <3>3 DEF TailIsLast
    <3>6. lock[c] = "waiting" /\ (prev[c] # None => lock[prev[c]] = "released")
      BY <1>4 DEF Acquire, Resolved
    <3>7. \A d \in Calls \ {c} : lock'[d] = lock[d]
      BY <1>1, <1>4 DEF LockTypeOK, Acquire
    <3>8. lock'[c] = "holding"
      BY <1>1, <1>4 DEF LockTypeOK, Acquire
    <3>9. WaitsForPredecessor'
      BY <3>1, <3>3, <3>4, <3>7, <3>8 DEF WaitsForPredecessor
    <3>10. EarlierAreDone(c)
      <4>1. CASE prev[c] = None
        BY <4>1, <3>1, <3>6 DEF WaitsForPredecessor
      <4>2. CASE prev[c] # None
        <5>1. prev[c] \in Calls /\ lock[prev[c]] = "released" /\ ticket[c] = ticket[prev[c]] + 1
          BY <4>2, <1>1, <3>1, <3>6 DEF LockTypeOK, WaitsForPredecessor
        <5>2. EarlierAreDone(prev[c]) /\ ~ Active(prev[c])
          BY <5>1, <3>1 DEF WorksInTurn, Active
        <5>3. \A d \in Calls : ticket[d] = ticket[prev[c]] => d = prev[c]
          BY <5>1 DEF LockInv, TicketsNameCalls
        <5> QED BY <5>1, <5>2, <5>3, <1>1 DEF EarlierAreDone, LockTypeOK
      <4> QED BY <4>1, <4>2
    <3>11. WorksInTurn'
      BY <3>1, <3>4, <3>7, <3>10 DEF WorksInTurn
    <3> QED BY <3>5, <3>9, <3>11
  <2> QED BY <1>1, <2>1, <2>2, <2>3, <2>4 DEF LockInv
<1>5. ASSUME NEW c \in Calls, Release(c) \/ TimeOut(c) PROVE LockInv'
  <2>1. TailIsActive'
    BY <1>1, <1>5 DEF LockInv, LockTypeOK, TailIsActive, Active, Release, TimeOut, Leave
  <2>2. TicketsNameCalls'
    BY <1>1, <1>5 DEF LockInv, LockTypeOK, TicketsNameCalls, Release, TimeOut
  <2>3. PredecessorCame'
    BY <1>1, <1>5 DEF LockInv, LockTypeOK, PredecessorCame, Release, TimeOut
  <2>4. ASSUME NobodyTimedOut' PROVE TailIsLast' /\ WaitsForPredecessor' /\ WorksInTurn'
    <3>1. TailIsLast /\ WaitsForPredecessor /\ WorksInTurn
      BY <1>2, <2>4 DEF LockInv
    <3>2. Release(c)
      BY <1>1, <1>5, <2>4 DEF TimeOut, NobodyTimedOut, LockTypeOK
    <3>3. UNCHANGED <<prev, ticket, tickets>> /\ lock[c] = "holding" /\ lock'[c] = "released"
      BY <1>1, <3>2 DEF Release, LockTypeOK
    <3>4. \A d \in Calls \ {c} : lock'[d] = lock[d] /\ Active(d)' = Active(d)
      BY <1>1, <3>2 DEF Release, LockTypeOK, Active
    <3>5. ~ Active(c)'
      BY <3>3 DEF Active
    <3>6. \A d \in Calls : EarlierAreDone(d) => EarlierAreDone(d)'
      BY <3>3, <3>4, <3>5 DEF EarlierAreDone
    <3>7. WaitsForPredecessor' /\ WorksInTurn'
      BY <3>1, <3>3, <3>4, <3>6 DEF WaitsForPredecessor, WorksInTurn
    <3>8. TailIsLast'
      <4>1. CASE tail = c
        <5>1. ticket[c] = tickets /\ EarlierAreDone(c)
          BY <4>1, <3>1, <3>3 DEF TailIsLast, WorksInTurn
        <5>2. \A d \in Calls : ticket[d] <= ticket[c] /\ (ticket[d] = ticket[c] => d = c)
          BY <5>1, <3>3 DEF LockInv, TicketsNameCalls
        <5>3. \A d \in Calls \ {c} : ticket[d] < ticket[c]
          BY <5>2, <1>1 DEF LockTypeOK
        <5>4. \A d \in Calls : ~ Active(d)'
          BY <5>1, <5>3, <3>4, <3>5 DEF EarlierAreDone
        <5>5. tail' = None
          BY <4>1, <3>2 DEF Release, Leave
        <5> QED BY <5>4, <5>5 DEF TailIsLast
      <4>2. CASE tail # c
        <5>1. tail' = tail
          BY <4>2, <3>2 DEF Release, Leave
        <5>2. tail # None
          BY <3>1, <3>3 DEF TailIsLast, Active
        <5> QED BY <5>1, <5>2, <3>1, <3>3 DEF TailIsLast
      <4> QED BY <4>1, <4>2
    <3> QED BY <3>7, <3>8
  <2> QED BY <1>1, <2>1, <2>2, <2>3, <2>4 DEF LockInv
<1>6. ASSUME UNCHANGED lockVars PROVE LockInv'
  BY <1>6
  DEF lockVars, LockInv, LockTypeOK, TailIsActive, Active, TicketsNameCalls, PredecessorCame,
      NobodyTimedOut, TailIsLast, WaitsForPredecessor, WorksInTurn, EarlierAreDone
<1> QED BY <1>3, <1>4, <1>5, <1>6 DEF LockNext

LEMMA LockInvariance == LockSpec => []LockInv
  BY LockInitInv, LockInvStep, PTL DEF LockSpec

-----------------------------------------------------------------------------
(* Until a call of the key times out, calls work one at a time, in the      *)
(* order in which they came (withThreadLock).                               *)
THEOREM WorkInTurn == LockSpec => []InTurnUntilTimeout
<1>1. LockInv => InTurnUntilTimeout
  BY DEF LockInv, InTurnUntilTimeout, WorksInTurn, EarlierAreDone
<1> QED BY <1>1, LockInvariance, PTL

(* So two calls are at work at once only after a call has timed out.        *)
THEOREM SerializedUntilTimeout == LockSpec => [](NobodyTimedOut => Serialized)
<1>1. LockInv => (NobodyTimedOut => Serialized)
  <2> SUFFICES ASSUME LockInv, NobodyTimedOut, NEW c \in Calls, NEW d \in Calls,
                      lock[c] = "holding", lock[d] = "holding"
               PROVE  c = d
    BY DEF Serialized
  <2>1. ~ (ticket[d] < ticket[c]) /\ ~ (ticket[c] < ticket[d])
    BY DEF LockInv, WorksInTurn, EarlierAreDone, Active
  <2>2. ticket[c] = ticket[d]
    BY <2>1 DEF LockInv, LockTypeOK
  <2> QED BY <2>2 DEF LockInv, TicketsNameCalls
<1> QED BY <1>1, LockInvariance, PTL

(* A key with no call at work or waiting has no entry in queueTails.        *)
THEOREM IdleKeyForgotten == LockSpec => []IdleKeyIsForgotten
<1>1. LockInv => IdleKeyIsForgotten
  BY DEF LockInv, LockTypeOK, IdleKeyIsForgotten, TailIsActive
<1> QED BY <1>1, LockInvariance, PTL

-----------------------------------------------------------------------------
(* The channel                                                              *)

RequestState == {"new", "refreshing", "resolving", "locked", "recording",
                 "ROUTED", "FAILED", "UNBOUND", "DUPLICATE"}
TurnState == {"none", "queued", "running", "over", "checking", "reserving", "pending",
              "publishing", "sent", "failing"}
Receipt == [agent : Agents \cup {None}, turn : Requests \cup {None}]

ChannelTypeOK ==
  /\ binding \in Targets \cup {None} /\ rebinds \in Nat
  /\ ingressKey \in [Messages -> {"absent", "live", "expired"}]
  /\ expired \subseteq Messages
  /\ request \in [Requests -> RequestState]
  /\ target \in [Requests -> Targets \cup {None}]
  /\ turn \in [Requests -> TurnState]
  /\ worker \in [Requests -> Agents \cup {None}]
  /\ receipt \in [Messages -> Receipt]
  /\ bound \subseteq Requests /\ callbackKey \subseteq Requests /\ lapsed \subseteq Requests
  /\ responses \in [Requests -> Nat] /\ posts \in [Requests -> Nat]
  /\ status \in [Requests -> {"none", "PENDING", "SENT", "DELIVERED", "FAILED"}]

(* a request took its message when it reserved or refreshed its key         *)
Took(r) == request[r] \notin {"new", "DUPLICATE"}

(* a message's key is there once a request took it, which one did until it  *)
(* expires                                                                  *)
KeysInv ==
  /\ \A m \in Messages : ingressKey[m] = "expired" => m \in expired
  /\ \A r \in Requests : request[r] = "refreshing" => MessageOf[r] \in expired
  /\ \A r \in Requests : request[r] # "new" => ingressKey[MessageOf[r]] # "absent"
  /\ \A m \in Messages : ingressKey[m] # "absent" => \E r \in Of(m) : Took(r)
  /\ \A r, s \in Requests :
       (MessageOf[r] = MessageOf[s] /\ MessageOf[r] \notin expired /\ Took(r) /\ Took(s)) => r = s

(* the place of a handler, that of its call of the lock, and its turn       *)
PlacesInv ==
  \A r \in Requests :
    /\ request[r] = "locked" <=> Active(r)
    /\ request[r] \in {"new", "refreshing", "resolving", "UNBOUND", "DUPLICATE"} => lock[r] = "out"
    /\ request[r] \in {"recording", "ROUTED"} => turn[r] # "none"
    /\ turn[r] # "none" => /\ lock[r] \in {"holding", "released"}
                           /\ worker[r] \in Agents /\ target[r] \in {worker[r], Team}

(* the receipt of a message names its turn, if there is one only            *)
ReceiptInv ==
  \A t \in bound :
    /\ turn[t] # "none"
    /\ (target[t] # Team /\ \A u \in Turns(MessageOf[t]) : u = t) =>
         receipt[MessageOf[t]] = [agent |-> worker[t], turn |-> t]

(* a delivery event that is PENDING is one of a reply under way             *)
OutcomeInv ==
  \A t \in Requests \ lapsed :
    status[t] = "PENDING" => turn[t] \in {"publishing", "sent", "failing"}

ChannelInv ==
  LockInv /\ ChannelTypeOK /\ KeysInv /\ PlacesInv /\ ReceiptInv /\ OutcomeInv

-----------------------------------------------------------------------------
(* Every step takes the lock by its operations, or leaves it.               *)
LEMMA ChannelLockStep ==
  ASSUME [Next]_vars
  PROVE  [LockNext]_lockVars
<1>1. ASSUME NEW r \in Requests, HandlerNext(r) PROVE [LockNext]_lockVars
  <2>1. CASE Resolve(r) \/ StartDispatch(r) \/ GiveUp(r) \/ Dispatched(r) \/ DispatchFails(r)
    <3>1. (Enter(r) \/ Acquire(r) \/ Release(r) \/ TimeOut(r)) \/ UNCHANGED lockVars
      BY <2>1 DEF Resolve, StartDispatch, GiveUp, Dispatched, DispatchFails
    <3> QED
      BY <3>1 DEF LockNext, Requests
  <2>2. CASE ~ (Resolve(r) \/ StartDispatch(r) \/ GiveUp(r) \/ Dispatched(r) \/ DispatchFails(r))
    BY <1>1, <2>2
       DEF HandlerNext, Reserve, Refresh, Deliver, RecordReceipt, HandlerFails
  <2> QED
    BY <2>1, <2>2
<1>2. ASSUME NEW t \in Requests, TurnNext(t) PROVE UNCHANGED lockVars
  BY <1>2 DEF TurnNext, BindTurn, BindTurnFails, EndTurn, Respond, CheckBinding, ReserveReply,
              RecordPending, Publish, PublishLost, RecordOutcome, RecordFails, GatewayReports
<1>3. UNCHANGED vars => UNCHANGED lockVars
  BY DEF vars
<1> QED
  BY <1>1, <1>2, <1>3 DEF Next, Rebind, Expire

LEMMA ChannelInitInv == Init => ChannelInv
<1> SUFFICES ASSUME Init PROVE ChannelInv
  OBVIOUS
<1> USE ExternalChannelAssumption, ThreadLockAssumption DEF Init
<1>1. LockInv
  BY LockInitInv
<1>2. ChannelTypeOK
  BY DEF ChannelTypeOK, RequestState, TurnState, Receipt, NoReceipt, Targets
<1>3. KeysInv /\ PlacesInv
  BY DEF KeysInv, PlacesInv, Took, LockInit, Active, Requests
<1>4. ReceiptInv /\ OutcomeInv
  BY DEF ReceiptInv, OutcomeInv
<1> QED
  BY <1>1, <1>2, <1>3, <1>4 DEF ChannelInv

-----------------------------------------------------------------------------
(* Types                                                                    *)

LEMMA HandlerTypes ==
  ASSUME ChannelTypeOK, NEW r \in Requests, HandlerNext(r)
  PROVE  ChannelTypeOK'
<1> USE ExternalChannelAssumption
<1>1. /\ UNCHANGED <<bindingVars, expired, bound, outboundVars>>
      /\ request' \in [Requests -> RequestState]
  BY DEF HandlerNext, ChannelTypeOK, bindingVars, ingressVars, turnVars, outboundVars, Reserve,
         Refresh, Resolve, StartDispatch, GiveUp, Deliver, Dispatched, DispatchFails,
         RecordReceipt, HandlerFails, Goes, RequestState
<1>2. ingressKey' \in [Messages -> {"absent", "live", "expired"}]
  BY DEF HandlerNext, ChannelTypeOK, ingressVars, Reserve,
         Refresh, Resolve, StartDispatch, GiveUp, Deliver, Dispatched, DispatchFails,
         RecordReceipt, HandlerFails
<1>3. target' \in [Requests -> Targets \cup {None}]
  BY DEF HandlerNext, ChannelTypeOK, ingressVars, Reserve,
         Refresh, Resolve, StartDispatch, GiveUp, Deliver, Dispatched, DispatchFails,
         RecordReceipt, HandlerFails
<1>4. turn' \in [Requests -> TurnState] /\ worker' \in [Requests -> Agents \cup {None}]
  BY DEF HandlerNext, ChannelTypeOK, turnVars, Reserve, TurnState,
         Refresh, Resolve, StartDispatch, GiveUp, Deliver, Dispatched, DispatchFails,
         RecordReceipt, HandlerFails
<1>5. receipt' \in [Messages -> Receipt]
  <2>1. CASE RecordReceipt(r)
    <3>1. receipt[MessageOf[r]] \in Receipt /\ target[r] \in Targets \cup {None}
      BY DEF ChannelTypeOK
    <3>2. PICK a \in Agents \cup {None} :
            receipt' = [receipt EXCEPT ![MessageOf[r]] = [@ EXCEPT !.agent = a]]
      BY <2>1, <3>1 DEF RecordReceipt, Targets
    <3>3. [receipt[MessageOf[r]] EXCEPT !.agent = a] \in Receipt
      BY <3>1 DEF Receipt
    <3> QED
      BY <3>2, <3>3 DEF ChannelTypeOK
  <2>2. CASE receipt' = receipt
    BY <2>2 DEF ChannelTypeOK
  <2> QED
    BY <2>1, <2>2
       DEF HandlerNext, turnVars, Reserve, Refresh, Resolve, StartDispatch, GiveUp, Deliver,
           Dispatched, DispatchFails, HandlerFails
<1> QED
  BY <1>1, <1>2, <1>3, <1>4, <1>5 DEF ChannelTypeOK, bindingVars, outboundVars

(* What a turn's step leaves alone.                                         *)
LEMMA TurnLeaves ==
  ASSUME ChannelTypeOK, NEW t \in Requests, TurnNext(t)
  PROVE  /\ UNCHANGED <<bindingVars, ingressVars, lockVars, worker>>
         /\ turn' \in [Requests -> TurnState]
         /\ \A u \in Requests : turn'[u] = "none" <=> turn[u] = "none"
         /\ BindTurn(t) \/ UNCHANGED <<receipt, bound>>
<1>1. CASE UNCHANGED turnVars
  BY <1>1 DEF TurnNext, turnVars, ChannelTypeOK, GatewayReports, BindTurn, BindTurnFails, EndTurn,
              Respond, CheckBinding, ReserveReply, RecordPending, Publish, PublishLost,
              RecordOutcome, RecordFails
<1>2. ASSUME NEW where \in TurnState \ {"none"}, Moves(t, where), turn[t] # "none"
      PROVE  /\ turn' \in [Requests -> TurnState]
             /\ \A u \in Requests : turn'[u] = "none" <=> turn[u] = "none"
  BY <1>2 DEF Moves, ChannelTypeOK
<1>3. {"queued", "running", "over", "checking", "reserving", "pending", "publishing", "sent",
       "failing"} \subseteq TurnState \ {"none"}
  BY DEF TurnState
<1>4. CASE ~ UNCHANGED turnVars
  <2>1. /\ UNCHANGED <<bindingVars, ingressVars, lockVars, worker>>
        /\ BindTurn(t) \/ UNCHANGED <<receipt, bound>>
    BY <1>4 DEF TurnNext, turnVars, GatewayReports, BindTurn, BindTurnFails, EndTurn,
                Respond, CheckBinding, ReserveReply, RecordPending, Publish, PublishLost,
                RecordOutcome, RecordFails
  <2>2. \E where \in TurnState \ {"none"} : Moves(t, where) /\ turn[t] # "none"
    BY <1>3, <1>4
       DEF TurnNext, GatewayReports, BindTurn, BindTurnFails, EndTurn,
           Respond, CheckBinding, ReserveReply, RecordPending, Publish, PublishLost,
           RecordOutcome, RecordFails
  <2> QED
    BY <1>2, <2>1, <2>2
<1> QED
  BY <1>1, <1>4

LEMMA TurnTypes ==
  ASSUME ChannelTypeOK, NEW t \in Requests, TurnNext(t)
  PROVE  ChannelTypeOK'
<1> USE ExternalChannelAssumption
<1>1. /\ UNCHANGED <<bindingVars, ingressVars, lockVars, worker>>
      /\ turn' \in [Requests -> TurnState]
      /\ BindTurn(t) \/ UNCHANGED <<receipt, bound>>
  BY TurnLeaves
<1>2. receipt' \in [Messages -> Receipt] /\ bound' \subseteq Requests
  <2>1. CASE BindTurn(t)
    <3>1. [agent |-> worker[t], turn |-> t] \in Receipt
      BY DEF ChannelTypeOK, Receipt
    <3> QED
      BY <2>1, <3>1 DEF BindTurn, ChannelTypeOK
  <2> QED
    BY <1>1, <2>1 DEF ChannelTypeOK
<1>3. /\ callbackKey' \subseteq Requests /\ lapsed' \subseteq Requests
      /\ responses' \in [Requests -> Nat] /\ posts' \in [Requests -> Nat]
  BY DEF TurnNext, ChannelTypeOK, outboundVars, GatewayReports, BindTurn, BindTurnFails, EndTurn,
         Respond, CheckBinding, ReserveReply, RecordPending, Publish, PublishLost,
         RecordOutcome, RecordFails
<1>4. status' \in [Requests -> {"none", "PENDING", "SENT", "DELIVERED", "FAILED"}]
  BY DEF TurnNext, ChannelTypeOK, outboundVars, GatewayReports, BindTurn, BindTurnFails, EndTurn,
         Respond, CheckBinding, ReserveReply, RecordPending, Publish, PublishLost,
         RecordOutcome, RecordFails, UpsertEvent
<1> QED
  BY <1>1, <1>2, <1>3, <1>4 DEF ChannelTypeOK, bindingVars, ingressVars

LEMMA ChannelTypes ==
  ASSUME ChannelTypeOK, [Next]_vars
  PROVE  ChannelTypeOK'
<1>1. ASSUME NEW b \in Targets \cup {None}, Rebind(b) PROVE ChannelTypeOK'
  BY <1>1 DEF Rebind, ChannelTypeOK, ingressVars, turnVars, outboundVars
<1>2. ASSUME NEW m \in Messages, Expire(m) PROVE ChannelTypeOK'
  BY <1>2 DEF Expire, ChannelTypeOK, bindingVars, turnVars, outboundVars
<1>3. CASE UNCHANGED vars
  BY <1>3 DEF vars, ChannelTypeOK, bindingVars, ingressVars, turnVars, outboundVars
<1> QED
  BY <1>1, <1>2, <1>3, HandlerTypes, TurnTypes DEF Next

-----------------------------------------------------------------------------
(* The idempotency keys                                                     *)

(* A request that took its message goes on, or others do nothing.           *)
LEMMA KeysRest ==
  ASSUME ChannelTypeOK, KeysInv, NEW r \in Requests, UNCHANGED <<ingressKey, expired>>,
         \/ request' = request
         \/ \E where \in RequestState \ {"new", "refreshing", "DUPLICATE"} :
              Took(r) /\ Goes(r, where)
  PROVE  KeysInv'
<1>1. /\ \A q \in Requests : Took(q)' <=> Took(q)
      /\ \A q \in Requests : request'[q] = "refreshing" => request[q] = "refreshing"
      /\ \A q \in Requests : request'[q] # "new" => request[q] # "new"
  BY DEF ChannelTypeOK, Took, Goes
<1> QED
  BY <1>1 DEF KeysInv, Of

LEMMA ReserveKeys ==
  ASSUME ChannelTypeOK, KeysInv, NEW r \in Requests, Reserve(r)
  PROVE  KeysInv'
<1> USE ExternalChannelAssumption
<1> DEFINE m == MessageOf[r]
<1>1. m \in Messages /\ request[r] = "new" /\ expired' = expired
  BY DEF Reserve
<1>2. CASE ingressKey[m] = "absent"
  <2>1. /\ ingressKey' = [ingressKey EXCEPT ![m] = "live"]
        /\ request' = [request EXCEPT ![r] = "resolving"]
    BY <1>2 DEF Reserve, Goes
  <2>2. \A q \in Requests : MessageOf[q] = m => ~ Took(q)
    BY <1>2 DEF KeysInv, Took
  <2>3. \A q \in Requests : Took(q)' <=> (Took(q) \/ q = r)
    BY <2>1 DEF ChannelTypeOK, Took
  <2>4. /\ \A k \in Messages \ {m} : ingressKey'[k] = ingressKey[k]
        /\ ingressKey'[m] = "live"
        /\ \A q \in Requests \ {r} : request'[q] = request[q]
        /\ request'[r] = "resolving"
    BY <1>1, <2>1 DEF ChannelTypeOK
  <2> QED
    BY <1>1, <2>2, <2>3, <2>4 DEF KeysInv, Of
<1>3. CASE ingressKey[m] = "live"
  <2>1. UNCHANGED <<ingressKey, expired>> /\ request' = [request EXCEPT ![r] = "DUPLICATE"]
    BY <1>3 DEF Reserve, Goes
  <2>2. \A q \in Requests : Took(q)' <=> Took(q)
    BY <1>1, <2>1 DEF ChannelTypeOK, Took
  <2>3. /\ \A q \in Requests \ {r} : request'[q] = request[q]
        /\ request'[r] = "DUPLICATE"
    BY <2>1 DEF ChannelTypeOK
  <2> QED
    BY <1>3, <2>1, <2>2, <2>3 DEF KeysInv, Of
<1>4. CASE ingressKey[m] = "expired"
  <2>1. UNCHANGED <<ingressKey, expired>> /\ request' = [request EXCEPT ![r] = "refreshing"]
    BY <1>4 DEF Reserve, Goes
  <2>2. m \in expired
    BY <1>1, <1>4 DEF KeysInv
  <2>3. \A q \in Requests : Took(q)' <=> (Took(q) \/ q = r)
    BY <2>1 DEF ChannelTypeOK, Took
  <2>4. /\ \A q \in Requests \ {r} : request'[q] = request[q]
        /\ request'[r] = "refreshing"
    BY <2>1 DEF ChannelTypeOK
  <2> QED
    BY <1>4, <2>1, <2>2, <2>3, <2>4 DEF KeysInv, Of
<1> QED
  BY <1>2, <1>3, <1>4 DEF Reserve

LEMMA KeysStep ==
  ASSUME ChannelTypeOK, PlacesInv, KeysInv, [Next]_vars
  PROVE  KeysInv'
<1> USE ExternalChannelAssumption
<1>1. ASSUME NEW r \in Requests, HandlerNext(r) PROVE KeysInv'
  <2>1. CASE Reserve(r)
    BY <2>1, ReserveKeys
  <2>2. CASE Refresh(r)
    <3>1. /\ ingressKey' = [ingressKey EXCEPT ![MessageOf[r]] = "live"] /\ expired' = expired
          /\ request[r] = "refreshing" /\ request' = [request EXCEPT ![r] = "resolving"]
      BY <2>2 DEF Refresh, Goes
    <3>2. \A q \in Requests : Took(q)' <=> Took(q)
      BY <3>1 DEF ChannelTypeOK, Took
    <3>3. /\ \A k \in Messages : k # MessageOf[r] => ingressKey'[k] = ingressKey[k]
          /\ ingressKey'[MessageOf[r]] = "live" /\ MessageOf[r] \in Messages
          /\ \A q \in Requests \ {r} : request'[q] = request[q]
          /\ request'[r] = "resolving"
      BY <3>1 DEF ChannelTypeOK
    <3>4. ingressKey[MessageOf[r]] # "absent"
      BY <3>1 DEF KeysInv
    <3> QED
      BY <3>1, <3>2, <3>3, <3>4 DEF KeysInv, Of
  <2>3. CASE StartDispatch(r) \/ \E a \in Agents : Deliver(r, a)
    BY <2>3, KeysRest DEF StartDispatch, Deliver, ingressVars
  <2>4. CASE Resolve(r) \/ GiveUp(r) \/ Dispatched(r) \/ DispatchFails(r)
             \/ RecordReceipt(r) \/ HandlerFails(r)
    <3>1. Took(r) /\ UNCHANGED <<ingressKey, expired>>
      BY <2>4 DEF Took, PlacesInv, Active, Resolve, GiveUp, Dispatched, DispatchFails,
                  RecordReceipt, HandlerFails, TimeOut, Release
    <3>2. {"UNBOUND", "locked", "FAILED", "recording", "ROUTED"}
            \subseteq RequestState \ {"new", "refreshing", "DUPLICATE"}
      BY DEF RequestState
    <3>3. \E where \in {"UNBOUND", "locked", "FAILED", "recording", "ROUTED"} : Goes(r, where)
      BY <2>4 DEF Resolve, GiveUp, Dispatched, DispatchFails, RecordReceipt, HandlerFails
    <3> QED
      BY <3>1, <3>2, <3>3, KeysRest
  <2> QED
    BY <1>1, <2>1, <2>2, <2>3, <2>4 DEF HandlerNext
<1>2. ASSUME NEW m \in Messages, Expire(m) PROVE KeysInv'
  <2>1. /\ ingressKey[m] = "live" /\ ingressKey' = [ingressKey EXCEPT ![m] = "expired"]
        /\ expired' = expired \cup {m} /\ request' = request
    BY <1>2 DEF Expire
  <2>2. /\ \A k \in Messages \ {m} : ingressKey'[k] = ingressKey[k]
        /\ ingressKey'[m] = "expired"
    BY <2>1 DEF ChannelTypeOK
  <2> QED
    BY <2>1, <2>2 DEF KeysInv, Took, Of
<1>3. CASE UNCHANGED ingressVars
  BY <1>3 DEF ingressVars, KeysInv, Took, Of
<1>4. ASSUME NEW t \in Requests, TurnNext(t) PROVE UNCHANGED ingressVars
  BY <1>4, TurnLeaves
<1> QED
  BY <1>1, <1>2, <1>3, <1>4 DEF Next, vars, Rebind

-----------------------------------------------------------------------------
(* The places of a handler                                                  *)

(* Only the lock's operations of a request move its call.                   *)
LEMMA LockMoves ==
  ASSUME LockTypeOK, NEW r \in Requests
  PROVE  /\ Enter(r) => lock[r] = "out" /\ lock' = [lock EXCEPT ![r] = "waiting"]
         /\ Acquire(r) => lock[r] = "waiting" /\ lock' = [lock EXCEPT ![r] = "holding"]
         /\ Release(r) => lock[r] = "holding" /\ lock' = [lock EXCEPT ![r] = "released"]
         /\ TimeOut(r) => lock[r] = "waiting" /\ lock' = [lock EXCEPT ![r] = "timedOut"]
         /\ lock \in [Requests -> {"out", "waiting", "holding", "released", "timedOut"}]
BY DEF LockTypeOK, Requests, Enter, Acquire, Release, TimeOut

LEMMA HandlerPlaces ==
  ASSUME LockTypeOK, ChannelTypeOK, PlacesInv, NEW r \in Requests, HandlerNext(r)
  PROVE  PlacesInv'
<1> USE DEF Active
<1>1. lock \in [Requests -> {"out", "waiting", "holding", "released", "timedOut"}]
  BY LockMoves
<1>2. /\ request \in [Requests -> RequestState] /\ target \in [Requests -> Targets \cup {None}]
      /\ turn \in [Requests -> TurnState] /\ worker \in [Requests -> Agents \cup {None}]
  BY DEF ChannelTypeOK
<1>3. CASE Reserve(r) \/ Refresh(r) \/ HandlerFails(r)
  <2>1. UNCHANGED <<lock, target, turn, worker>>
    BY <1>3 DEF Reserve, Refresh, HandlerFails, lockVars, turnVars
  <2>2. lock[r] = "out" \/ (turn[r] # "none" /\ ~ Active(r))
    BY <1>3 DEF PlacesInv, Reserve, Refresh, HandlerFails
  <2>3. \E where \in {"resolving", "DUPLICATE", "refreshing", "FAILED"} :
          Goes(r, where) /\ (where # "FAILED" => lock[r] = "out")
    BY <1>3 DEF PlacesInv, Reserve, Refresh, HandlerFails
  <2>4. ~ Active(r)
    BY <2>2
  <2>5. request'[r] \in {"resolving", "DUPLICATE", "refreshing", "FAILED"}
        /\ (request'[r] # "FAILED" => lock[r] = "out")
        /\ \A q \in Requests \ {r} : request'[q] = request[q]
    BY <1>2, <2>3 DEF Goes
  <2> QED
    BY <2>1, <2>4, <2>5 DEF PlacesInv
<1>4. CASE Resolve(r)
  <2>1. UNCHANGED <<turn, worker>> /\ request[r] = "resolving" /\ lock[r] = "out" /\ turn[r] = "none"
    BY <1>4 DEF Resolve, turnVars, PlacesInv
  <2>2. \/ Goes(r, "UNBOUND") /\ UNCHANGED <<target, lock>>
        \/ /\ Goes(r, "locked") /\ target' = [target EXCEPT ![r] = binding]
           /\ lock' = [lock EXCEPT ![r] = "waiting"]
    BY <1>4, LockMoves DEF Resolve, lockVars
  <2> QED
    BY <1>1, <1>2, <2>1, <2>2 DEF PlacesInv, Goes
<1>5. CASE StartDispatch(r)
  <2>1. /\ UNCHANGED <<request, target, turn, worker>>
        /\ lock[r] = "waiting" /\ lock' = [lock EXCEPT ![r] = "holding"]
    BY <1>5, LockMoves DEF StartDispatch, ingressVars, turnVars
  <2> QED
    BY <1>1, <2>1 DEF PlacesInv
<1>6. CASE GiveUp(r)
  <2>1. /\ UNCHANGED <<target, turn, worker>> /\ Goes(r, "FAILED")
        /\ lock[r] = "waiting" /\ lock' = [lock EXCEPT ![r] = "timedOut"]
    BY <1>6, LockMoves DEF GiveUp, turnVars
  <2>2. turn[r] = "none"
    BY <2>1 DEF PlacesInv
  <2> QED
    BY <1>1, <1>2, <2>1, <2>2 DEF PlacesInv, Goes
<1>7. ASSUME NEW a \in Agents, Deliver(r, a) PROVE PlacesInv'
  <2>1. /\ UNCHANGED <<request, target, lock>> /\ lock[r] = "holding" /\ target[r] \in {a, Team}
        /\ turn' = [turn EXCEPT ![r] = "queued"] /\ worker' = [worker EXCEPT ![r] = a]
    BY <1>7 DEF Deliver, ingressVars, lockVars
  <2> QED
    BY <1>1, <1>2, <2>1 DEF PlacesInv
<1>8. CASE Dispatched(r)
  <2>1. /\ UNCHANGED <<target, turn, worker>> /\ Goes(r, "recording") /\ turn[r] # "none"
        /\ lock[r] = "holding" /\ lock' = [lock EXCEPT ![r] = "released"]
    BY <1>8, LockMoves DEF Dispatched, turnVars
  <2> QED
    BY <1>1, <1>2, <2>1 DEF PlacesInv, Goes
<1>9. CASE DispatchFails(r)
  <2>1. /\ UNCHANGED <<target, turn, worker>> /\ Goes(r, "FAILED")
        /\ lock[r] = "holding" /\ lock' = [lock EXCEPT ![r] = "released"]
    BY <1>9, LockMoves DEF DispatchFails, turnVars
  <2> QED
    BY <1>1, <1>2, <2>1 DEF PlacesInv, Goes
<1>10. CASE RecordReceipt(r)
  <2>1. /\ UNCHANGED <<target, lock, turn, worker>> /\ Goes(r, "ROUTED")
        /\ request[r] = "recording"
    BY <1>10 DEF RecordReceipt, lockVars
  <2> QED
    BY <1>2, <2>1 DEF PlacesInv, Goes
<1> QED
  BY <1>3, <1>4, <1>5, <1>6, <1>7, <1>8, <1>9, <1>10 DEF HandlerNext

LEMMA PlacesStep ==
  ASSUME LockTypeOK, ChannelTypeOK, PlacesInv, [Next]_vars
  PROVE  PlacesInv'
<1>1. ASSUME UNCHANGED <<request, target, lock, worker>>,
             \A u \in Requests : turn'[u] = "none" <=> turn[u] = "none"
      PROVE  PlacesInv'
  BY <1>1 DEF PlacesInv, Active
<1>2. ASSUME NEW t \in Requests, TurnNext(t) PROVE PlacesInv'
  BY <1>1, <1>2, TurnLeaves DEF ingressVars, lockVars
<1>3. UNCHANGED vars => UNCHANGED <<request, target, lock, worker, turn>>
  BY DEF vars, ingressVars, lockVars, turnVars
<1>4. ASSUME NEW b \in Targets \cup {None}, Rebind(b)
      PROVE  UNCHANGED <<request, target, lock, worker, turn>>
  BY <1>4 DEF Rebind, ingressVars, lockVars, turnVars
<1>5. ASSUME NEW m \in Messages, Expire(m)
      PROVE  UNCHANGED <<request, target, lock, worker, turn>>
  BY <1>5 DEF Expire, lockVars, turnVars
<1> QED
  BY <1>1, <1>2, <1>3, <1>4, <1>5, HandlerPlaces DEF Next

-----------------------------------------------------------------------------
(* Receipts and outcomes                                                    *)

(* What a turn was given with its message stays, and turns do not vanish.   *)
LEMMA ReceiptRests ==
  ASSUME ChannelTypeOK, ReceiptInv, UNCHANGED <<receipt, bound>>,
         \A t \in Requests : turn[t] # "none" =>
           turn'[t] # "none" /\ worker'[t] = worker[t] /\ target'[t] = target[t]
  PROVE  ReceiptInv'
<1> SUFFICES ASSUME NEW t \in bound
             PROVE  /\ turn'[t] # "none"
                    /\ (target'[t] # Team /\ \A u \in Turns(MessageOf[t])' : u = t) =>
                         receipt[MessageOf[t]] = [agent |-> worker'[t], turn |-> t]
  BY DEF ReceiptInv
<1>1. turn[t] # "none" /\ t \in Requests
  BY DEF ReceiptInv, ChannelTypeOK
<1>2. Turns(MessageOf[t]) \subseteq Turns(MessageOf[t])'
  BY DEF Turns, Of
<1> QED
  BY <1>1, <1>2 DEF ReceiptInv

(* The handler's write is that of the message's only turn, or of another one. *)
LEMMA RecordKeepsReceipt ==
  ASSUME ChannelTypeOK, PlacesInv, ReceiptInv, NEW r \in Requests, RecordReceipt(r)
  PROVE  ReceiptInv'
<1> USE ExternalChannelAssumption
<1>1. /\ UNCHANGED <<turn, worker, target, bound>> /\ request[r] = "recording"
      /\ receipt \in [Messages -> Receipt] /\ turn[r] # "none"
  BY DEF RecordReceipt, ChannelTypeOK, PlacesInv
<1> DEFINE agent == IF target[r] = Team THEN None ELSE target[r]
<1>2. receipt' = [receipt EXCEPT ![MessageOf[r]].agent = agent]
  BY DEF RecordReceipt
<1> SUFFICES ASSUME NEW t \in bound, target[t] # Team, \A u \in Turns(MessageOf[t]) : u = t
             PROVE  receipt'[MessageOf[t]] = [agent |-> worker[t], turn |-> t]
  BY <1>1 DEF ReceiptInv, Turns, Of
<1>3. receipt[MessageOf[t]] = [agent |-> worker[t], turn |-> t] /\ t \in Requests
  BY DEF ReceiptInv, ChannelTypeOK
<1>4. CASE MessageOf[t] = MessageOf[r]
  <2>1. r = t
    BY <1>1, <1>4 DEF Turns, Of
  <2>2. agent = worker[t]
    BY <1>1, <2>1 DEF PlacesInv
  <2>3. receipt'[MessageOf[t]] = [receipt[MessageOf[t]] EXCEPT !.agent = worker[t]]
    BY <1>1, <1>2, <1>3, <1>4, <2>2
  <2> QED
    BY <1>3, <2>3
<1>5. CASE MessageOf[t] # MessageOf[r]
  BY <1>1, <1>2, <1>3, <1>5
<1> QED
  BY <1>4, <1>5

(* The agent's write names its turn; another turn of the message is not its *)
(* only one.                                                                *)
LEMMA BindKeepsReceipt ==
  ASSUME ChannelTypeOK, ReceiptInv, NEW b \in Requests, BindTurn(b)
  PROVE  ReceiptInv'
<1> USE ExternalChannelAssumption
<1>1. /\ UNCHANGED <<worker, target>> /\ turn[b] = "queued" /\ bound' = bound \cup {b}
      /\ receipt' = [receipt EXCEPT ![MessageOf[b]] = [agent |-> worker[b], turn |-> b]]
      /\ receipt \in [Messages -> Receipt] /\ bound \subseteq Requests
      /\ \A t \in Requests : turn'[t] = "none" <=> turn[t] = "none"
  BY DEF BindTurn, ingressVars, ChannelTypeOK, Moves
<1>2. \A m \in Messages : Turns(m)' = Turns(m)
  BY <1>1 DEF Turns, Of
<1> SUFFICES ASSUME NEW t \in bound'
             PROVE  /\ turn[t] # "none"
                    /\ (target[t] # Team /\ \A u \in Turns(MessageOf[t]) : u = t) =>
                         receipt'[MessageOf[t]] = [agent |-> worker[t], turn |-> t]
  BY <1>1, <1>2 DEF ReceiptInv
<1>3. CASE t = b
  BY <1>1, <1>3
<1>4. CASE t # b /\ MessageOf[t] = MessageOf[b]
  <2>1. b \in Turns(MessageOf[t])
    BY <1>1, <1>4 DEF Turns, Of
  <2> QED
    BY <1>1, <1>4, <2>1 DEF ReceiptInv
<1>5. CASE t # b /\ MessageOf[t] # MessageOf[b]
  BY <1>1, <1>5 DEF ReceiptInv
<1> QED
  BY <1>3, <1>4, <1>5

LEMMA ReceiptStep ==
  ASSUME LockTypeOK, ChannelTypeOK, PlacesInv, ReceiptInv, [Next]_vars
  PROVE  ReceiptInv'
<1>1. ASSUME UNCHANGED <<receipt, bound, turn, worker, target>> PROVE ReceiptInv'
  BY <1>1, ReceiptRests
<1>2. ASSUME NEW r \in Requests, HandlerNext(r) PROVE ReceiptInv'
  <2>1. CASE RecordReceipt(r)
    BY <2>1, RecordKeepsReceipt
  <2>2. CASE Resolve(r)
    <3>1. UNCHANGED <<receipt, bound, turn, worker>> /\ request[r] = "resolving"
      BY <2>2 DEF Resolve, turnVars
    <3>2. turn[r] = "none"
      BY <3>1 DEF PlacesInv
    <3>3. \A t \in Requests \ {r} : target'[t] = target[t]
      BY <2>2 DEF Resolve, ChannelTypeOK
    <3> QED
      BY <3>1, <3>2, <3>3, ReceiptRests
  <2>3. ASSUME NEW a \in Agents, Deliver(r, a) PROVE ReceiptInv'
    <3>1. UNCHANGED <<receipt, bound, target>> /\ turn[r] = "none"
      BY <2>3 DEF Deliver, ingressVars
    <3>2. \A t \in Requests \ {r} : turn'[t] = turn[t] /\ worker'[t] = worker[t]
      BY <2>3 DEF Deliver, ChannelTypeOK
    <3> QED
      BY <3>1, <3>2, ReceiptRests
  <2>4. CASE \/ Reserve(r) \/ Refresh(r) \/ StartDispatch(r) \/ GiveUp(r)
             \/ Dispatched(r) \/ DispatchFails(r) \/ HandlerFails(r)
    BY <1>1, <2>4
       DEF Reserve, Refresh, StartDispatch, GiveUp, Dispatched, DispatchFails, HandlerFails,
           ingressVars, turnVars
  <2> QED
    BY <1>2, <2>1, <2>2, <2>3, <2>4 DEF HandlerNext
<1>3. ASSUME NEW t \in Requests, TurnNext(t) PROVE ReceiptInv'
  <2>1. CASE BindTurn(t)
    BY <2>1, BindKeepsReceipt
  <2>2. CASE UNCHANGED <<receipt, bound>>
    BY <1>3, <2>2, TurnLeaves, ReceiptRests DEF ingressVars
  <2> QED
    BY <1>3, <2>1, <2>2, TurnLeaves
<1> QED
  BY <1>1, <1>2, <1>3 DEF Next, vars, Rebind, Expire, ingressVars, turnVars

LEMMA OutcomeStep ==
  ASSUME ChannelTypeOK, PlacesInv, OutcomeInv, [Next]_vars
  PROVE  OutcomeInv'
<1> USE ExternalChannelAssumption
<1>1. ASSUME UNCHANGED <<turn, status, lapsed>> PROVE OutcomeInv'
  BY <1>1 DEF OutcomeInv
<1>2. /\ turn \in [Requests -> TurnState] /\ lapsed \subseteq Requests
      /\ status \in [Requests -> {"none", "PENDING", "SENT", "DELIVERED", "FAILED"}]
  BY DEF ChannelTypeOK
<1>3. ASSUME NEW t \in Requests, TurnNext(t) PROVE OutcomeInv'
  <2>1. CASE BindTurn(t) \/ BindTurnFails(t) \/ EndTurn(t) \/ Respond(t) \/ CheckBinding(t)
             \/ ReserveReply(t)
    BY <1>2, <2>1
       DEF BindTurn, BindTurnFails, EndTurn, Respond, CheckBinding, ReserveReply, Moves,
           outboundVars, OutcomeInv
  <2>2. CASE RecordPending(t) \/ PublishLost(t) \/ \E answered \in BOOLEAN : Publish(t, answered)
    BY <1>2, <2>2 DEF RecordPending, PublishLost, Publish, Moves, UpsertEvent, outboundVars, OutcomeInv
  <2>3. CASE RecordOutcome(t) \/ RecordFails(t)
    BY <1>2, <2>3 DEF RecordOutcome, RecordFails, Moves, UpsertEvent, OutcomeInv
  <2>4. ASSUME NEW s \in Reports, GatewayReports(t, s) PROVE OutcomeInv'
    <3>1. s # "PENDING"
      BY ExternalChannelAssumption
    <3> QED
      BY <1>2, <2>4, <3>1 DEF GatewayReports, UpsertEvent, turnVars, OutcomeInv
  <2> QED
    BY <1>3, <2>1, <2>2, <2>3, <2>4 DEF TurnNext
<1>4. ASSUME NEW r \in Requests, HandlerNext(r) PROVE OutcomeInv'
  <2>1. ASSUME NEW a \in Agents, Deliver(r, a) PROVE OutcomeInv'
    BY <1>2, <2>1 DEF Deliver, outboundVars, OutcomeInv
  <2>2. CASE ~ \E a \in Agents : Deliver(r, a)
    BY <1>1, <1>4, <2>2
       DEF HandlerNext, Reserve, Refresh, Resolve, StartDispatch, GiveUp, Dispatched,
           DispatchFails, RecordReceipt, HandlerFails, turnVars, outboundVars
  <2> QED
    BY <2>1, <2>2
<1> QED
  BY <1>1, <1>3, <1>4 DEF Next, vars, Rebind, Expire, turnVars, outboundVars

-----------------------------------------------------------------------------
LEMMA ChannelInvStep ==
  ASSUME ChannelInv, [Next]_vars
  PROVE  ChannelInv'
<1>1. LockInv'
  BY ChannelLockStep, LockInvStep DEF ChannelInv
<1>2. LockTypeOK
  BY DEF ChannelInv, LockInv
<1>3. ChannelTypeOK' /\ KeysInv' /\ PlacesInv' /\ ReceiptInv' /\ OutcomeInv'
  BY <1>2, ChannelTypes, KeysStep, PlacesStep, ReceiptStep, OutcomeStep DEF ChannelInv
<1> QED
  BY <1>1, <1>3 DEF ChannelInv

(* The inductive invariant holds throughout.                                *)
THEOREM ChannelInvariance == Spec => []ChannelInv
<1>1. Init => ChannelInv
  BY ChannelInitInv
<1>2. ChannelInv /\ [Next]_vars => ChannelInv'
  BY ChannelInvStep
<1> QED
  BY <1>1, <1>2, PTL DEF Spec

(* The handlers of a conversation use the lock by its operations only       *)
(* (channel-ingress-service.ts:121, withThreadLock): what holds of it holds *)
(* of the channel.                                                          *)
THEOREM ChannelUsesTheLock == Spec => LockSpec
<1>1. Init => LockInit
  BY DEF Init
<1>2. [Next]_vars => [LockNext]_lockVars
  BY ChannelLockStep
<1> QED
  BY <1>1, <1>2, PTL DEF Spec, LockSpec

(* The variables keep their types.                                          *)
THEOREM ChannelTypeCorrect == Spec => [](ChannelTypeOK /\ LockTypeOK)
<1>1. ChannelInv => ChannelTypeOK /\ LockTypeOK
  BY DEF ChannelInv, LockInv
<1> QED
  BY <1>1, ChannelInvariance, PTL

(* Messages of a conversation are dispatched one at a time, in the order in *)
(* which their handlers came, until one of them gives up waiting.           *)
THEOREM DispatchInTurn == Spec => []InTurnUntilTimeout
BY ChannelUsesTheLock, WorkInTurn, PTL

(* An agent is handed a message once until its idempotency key expires,     *)
(* however often and however concurrently the gateway repeats it, and no    *)
(* repetition is answered as a duplicate of a message that was lost         *)
(* (sql-channel-idempotency-provider.ts:16, reserveKey).                    *)
THEOREM MessagesAreDispatchedOnce == Spec => []DispatchedOnce
<1>1. ChannelInv => DispatchedOnce
  <2> SUFFICES ASSUME ChannelInv PROVE DispatchedOnce
    OBVIOUS
  <2>1. KeysInv /\ PlacesInv /\ ChannelTypeOK
    BY DEF ChannelInv
  <2>2. ASSUME NEW t \in Requests, turn[t] # "none" PROVE Took(t)
    BY <2>1, <2>2 DEF PlacesInv, Took
  <2>3. ASSUME NEW m \in Messages \ expired, NEW t \in Turns(m), NEW u \in Turns(m) PROVE t = u
    BY <2>1, <2>2 DEF KeysInv, Turns, Of
  <2>4. ASSUME NEW m \in Messages, NEW r \in Of(m), request[r] \in {"DUPLICATE", "ROUTED"}
        PROVE  \/ Turns(m) # {}
               \/ \E q \in Of(m) : request[q] \in Handling \cup {"UNBOUND", "FAILED"}
    <3>1. PICK q \in Of(m) : Took(q)
      BY <2>1, <2>4 DEF KeysInv, Of
    <3>2. request[q] \in Handling \cup {"UNBOUND", "FAILED"} \/ request[q] = "ROUTED"
      BY <2>1, <3>1 DEF ChannelTypeOK, RequestState, Took, Of, Handling
    <3>3. request[q] = "ROUTED" => q \in Turns(m)
      BY <2>1, <3>1 DEF PlacesInv, Turns, Of
    <3> QED
      BY <3>1, <3>2, <3>3
  <2> QED
    BY <2>3, <2>4 DEF DispatchedOnce
<1> QED
  BY <1>1, ChannelInvariance, PTL

(* A bound turn finds its message although the handler and the agent write  *)
(* the receipt in either order, and no delivery event stays PENDING once    *)
(* its publication has ended                                                *)
(* (sql-channel-message-receipt-provider.ts:28, reply-callback-service.ts:145). *)
THEOREM RepliesFindTheirMessage == Spec => []RepliesAreTraced
<1>1. ChannelInv => RepliesAreTraced
  <2> SUFFICES ASSUME ChannelInv PROVE RepliesAreTraced
    OBVIOUS
  <2>1. \A t \in bound : MessageOf[t] \in Messages
    BY ExternalChannelAssumption DEF ChannelInv, ChannelTypeOK
  <2>2. ReceiptInv /\ OutcomeInv
    BY DEF ChannelInv
  <2> QED
    BY <2>1, <2>2 DEF ReceiptInv, OutcomeInv, RepliesAreTraced, HasSource
<1> QED
  BY <1>1, ChannelInvariance, PTL
=============================================================================
