----------------------------- MODULE CommandBridge -----------------------------
(****************************************************************************)
(* The command bridge between a host and a worker: HostNodeBridgeClient     *)
(* with its retry policy and HTTP timeout on one side, WorkerNodeBridgeServer *)
(* with its set of processed envelope ids on the other.                     *)
(*                                                                          *)
(* A request is one attempt to send an envelope.  An attempt that the       *)
(* client gave up keeps a life of its own: it may still arrive, and a       *)
(* handler that runs is not interrupted by the HTTP abort.  A request that  *)
(* is lost is one that stays "sent".  A handler is what                     *)
(* executeEnvelopeCommand awaits; here it only begins and ends.             *)
(*                                                                          *)
(* Bounds: MaxAttempts is the retry policy's maxAttempts; the worker        *)
(* restarts at most MaxRestarts times.                                      *)
(****************************************************************************)
EXTENDS Naturals

CONSTANTS Envelopes, MaxAttempts, MaxRestarts

ASSUME CommandBridgeAssumption ==
  /\ MaxAttempts \in Nat \ {0}
  /\ MaxRestarts \in Nat

Attempts == 1 .. MaxAttempts

VARIABLES
  client,       \* the host's side of every sendCommand
  request,      \* what became of every attempt
  processed,    \* WorkerNodeBridgeServer.processedEnvelopeIds
  restarts      \* restarts of the worker so far

bridgeVars == <<client, request, processed, restarts>>

Client == [at : {"new", "sending", "delivered", "failed"}, attempt : 0 .. MaxAttempts]

(* "done" was executed by the running worker, "forgotten" by an earlier one *)
RequestState == {"none", "sent", "executing", "failed", "deduped", "done", "forgotten"}

BridgeTypeOK ==
  /\ client \in [Envelopes -> Client]
  /\ request \in [Envelopes -> [Attempts -> RequestState]]
  /\ processed \subseteq Envelopes
  /\ restarts \in 0 .. MaxRestarts

BridgeInit ==
  /\ client = [e \in Envelopes |-> [at |-> "new", attempt |-> 0]]
  /\ request = [e \in Envelopes |-> [n \in Attempts |-> "none"]]
  /\ processed = {}
  /\ restarts = 0

Becomes(e, n, state) == request' = [request EXCEPT ![e][n] = state]

-----------------------------------------------------------------------------
(* The host's client                                                        *)

Transmit(e, n) ==
  /\ client' = [client EXCEPT ![e] = [at |-> "sending", attempt |-> n]]
  /\ Becomes(e, n, "sent")
  /\ UNCHANGED <<processed, restarts>>

Send(e) ==
  /\ client[e].at = "new"
  /\ Transmit(e, 1)

(* a 202 reaches the client before its timeout                              *)
Acknowledge(e) ==
  /\ client[e].at = "sending"
  /\ request[e][client[e].attempt] \in {"done", "deduped", "forgotten"}
  /\ client' = [client EXCEPT ![e].at = "delivered"]
  /\ UNCHANGED <<request, processed, restarts>>

(* an error answer, a refused connection or the abort at requestTimeoutMs   *)
Retry(e) ==
  /\ client[e].at = "sending"
  /\ client[e].attempt < MaxAttempts
  /\ Transmit(e, client[e].attempt + 1)

GiveUp(e) ==
  /\ client[e].at = "sending"
  /\ client[e].attempt = MaxAttempts
  /\ client' = [client EXCEPT ![e].at = "failed"]
  /\ UNCHANGED <<request, processed, restarts>>

-----------------------------------------------------------------------------
(* The network and the worker's server                                      *)

Dedupe(e, n) ==
  /\ request[e][n] = "sent"
  /\ e \in processed
  /\ Becomes(e, n, "deduped")
  /\ UNCHANGED <<client, processed, restarts>>

(* (slip: the id is recorded before the command is awaited)                 *)
RecordThenExecute(e, n) ==
  /\ request[e][n] = "sent"
  /\ e \notin processed
  /\ Becomes(e, n, "executing")
  /\ processed' = processed \cup {e}
  /\ UNCHANGED <<client, restarts>>

Execute(e, n) ==
  /\ request[e][n] = "sent"
  /\ e \notin processed
  /\ Becomes(e, n, "executing")
  /\ UNCHANGED <<client, processed, restarts>>

(* (slip: the id is never recorded)                                         *)
CompleteUnrecorded(e, n) ==
  /\ request[e][n] = "executing"
  /\ Becomes(e, n, "done")
  /\ UNCHANGED <<client, processed, restarts>>

Complete(e, n) ==
  /\ request[e][n] = "executing"
  /\ Becomes(e, n, "done")
  /\ processed' = processed \cup {e}
  /\ UNCHANGED <<client, restarts>>

(* the handler threw: nothing is recorded and the route answers 500         *)
Refuse(e, n) ==
  /\ request[e][n] = "executing"
  /\ Becomes(e, n, "failed")
  /\ UNCHANGED <<client, processed, restarts>>

AfterRestart(state) ==
  CASE state = "executing" -> "failed"
    [] state = "done"      -> "forgotten"
    [] OTHER               -> state

Restart ==
  /\ restarts < MaxRestarts
  /\ restarts' = restarts + 1
  /\ request' = [e \in Envelopes |-> [n \in Attempts |-> AfterRestart(request[e][n])]]
  /\ processed' = {}
  /\ UNCHANGED client

-----------------------------------------------------------------------------
HostStep(e) == Send(e) \/ Acknowledge(e) \/ Retry(e) \/ GiveUp(e)

WorkerStep(e, n) ==
  Dedupe(e, n) \/ Execute(e, n) \/ Complete(e, n) \/ Refuse(e, n)

BridgeNext ==
  \/ \E e \in Envelopes : HostStep(e)
  \/ \E e \in Envelopes, n \in Attempts : WorkerStep(e, n)
  \/ Restart

(* every attempt is bounded by its timeout, so the client keeps moving      *)
SendFairness == \A e \in Envelopes : WF_bridgeVars(Retry(e) \/ GiveUp(e) \/ Acknowledge(e))

BridgeSpec == BridgeInit /\ [][BridgeNext]_bridgeVars
-----------------------------------------------------------------------------
(* Properties                                                               *)

(* A client that reports delivery is right: some attempt of the envelope ran *)
(* its handler to the end (host-node-bridge-client.ts:42), in this or in an  *)
(* earlier life of the worker, even when the answer it saw was a dedupe.     *)
DeliveredWasExecuted ==
  \A e \in Envelopes : client[e].at = "delivered" =>
    \E n \in Attempts : request[e][n] \in {"done", "forgotten"}

(* Once a command succeeded, no other attempt of it starts before the worker *)
(* restarts, whatever late or retried request arrives.                       *)
SuccessIsNotRepeated ==
  [][\A e \in Envelopes, n \in Attempts :
       (request[e][n] # "executing" /\ request'[e][n] = "executing") =>
         \A k \in Attempts : request[e][k] # "done"]_bridgeVars

=============================================================================
