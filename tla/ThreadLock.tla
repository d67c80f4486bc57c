------------------------------- MODULE ThreadLock -------------------------------
(****************************************************************************)
(* ChannelThreadLockService: calls that work on one conversation wait for   *)
(* each other in a chain of promises, each for the tail that it found, and  *)
(* give up after a timeout.  A key has a queue of its own, so this is the   *)
(* lock of one key.                                                         *)
(*                                                                          *)
(* A call's tail resolves when its predecessor's has and its own finally    *)
(* ran afterwards.  A call that timed out ran its finally too early, while  *)
(* releaseCurrentTail was still the initial no-op: its tail never resolves. *)
(****************************************************************************)
EXTENDS Naturals

CONSTANTS Calls, None

ASSUME ThreadLockAssumption == None \notin Calls

VARIABLES
  tail,    \* queueTails: the call whose tail the key maps to
  prev,    \* of a call: the call whose tail it found
  lock,    \* of a call: where it is
  ticket,  \* history: the position in which a call came
  tickets  \* history: how many calls came

lockVars == <<tail, prev, lock, ticket, tickets>>

LockTypeOK ==
  /\ tail \in Calls \cup {None}
  /\ prev \in [Calls -> Calls \cup {None}]
  /\ lock \in [Calls -> {"out", "waiting", "holding", "released", "timedOut"}]
  /\ ticket \in [Calls -> Nat]
  /\ tickets \in Nat

LockInit ==
  /\ tail = None
  /\ prev = [c \in Calls |-> None]
  /\ lock = [c \in Calls |-> "out"]
  /\ ticket = [c \in Calls |-> 0]
  /\ tickets = 0

Resolved(c) == c # None => lock[c] = "released"
Active(c) == lock[c] \in {"waiting", "holding"}

-----------------------------------------------------------------------------
Enter(c) ==
  /\ lock[c] = "out"
  /\ lock' = [lock EXCEPT ![c] = "waiting"]
  /\ prev' = [prev EXCEPT ![c] = tail]
  /\ tail' = c
  /\ ticket' = [ticket EXCEPT ![c] = tickets + 1]
  /\ tickets' = tickets + 1

(* (slip: the work starts without waiting for the tail that was found)      *)
AcquireAtOnce(c) ==
  /\ lock[c] = "waiting"
  /\ lock' = [lock EXCEPT ![c] = "holding"]
  /\ UNCHANGED <<tail, prev, ticket, tickets>>

Acquire(c) ==
  /\ lock[c] = "waiting"
  /\ Resolved(prev[c])
  /\ lock' = [lock EXCEPT ![c] = "holding"]
  /\ UNCHANGED <<tail, prev, ticket, tickets>>

(* finally: the key is forgotten unless another call came in the meantime   *)
Leave(c) == tail' = IF tail = c THEN None ELSE tail

Release(c) ==
  /\ lock[c] = "holding"
  /\ lock' = [lock EXCEPT ![c] = "released"]
  /\ Leave(c)
  /\ UNCHANGED <<prev, ticket, tickets>>

TimeOut(c) ==
  /\ lock[c] = "waiting"
  /\ ~ Resolved(prev[c])
  /\ lock' = [lock EXCEPT ![c] = "timedOut"]
  /\ Leave(c)
  /\ UNCHANGED <<prev, ticket, tickets>>

LockNext ==
  \E c \in Calls : Enter(c) \/ Acquire(c) \/ Release(c) \/ TimeOut(c)

LockSpec == LockInit /\ [][LockNext]_lockVars

-----------------------------------------------------------------------------
(* Calls of one key do not work at the same time.  It holds only as long as *)
(* nobody gives up waiting: whoever times out last deletes the key although *)
(* its predecessor still works, and the next call finds no tail to wait for. *)
Serialized ==
  \A c, d \in Calls : lock[c] = "holding" /\ lock[d] = "holding" => c = d

NobodyTimedOut == \A c \in Calls : lock[c] # "timedOut"

(* As long as no call of the key timed out, calls work one at a time and in *)
(* the order in which they came.                                            *)
InTurnUntilTimeout ==
  NobodyTimedOut =>
    \A c, d \in Calls :
      ticket[d] < ticket[c] /\ lock[c] \in {"holding", "released"} => ~ Active(d)

(* When no call of a key waits or works, the map has forgotten the key:     *)
(* otherwise it grows with every conversation, and a tail that never        *)
(* resolves would block the conversation's next message.                    *)
IdleKeyIsForgotten == (\A c \in Calls : ~ Active(c)) => tail = None
=============================================================================
