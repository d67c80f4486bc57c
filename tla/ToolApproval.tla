------------------------------ MODULE ToolApproval ------------------------------
(****************************************************************************)
(* Tool approvals of a team: the tokens that the connections' stream loops  *)
(* issue (AgentTeamStreamHandler), the answers that its users send, and the *)
(* ToolApprovalConcurrencyPolicy with which TeamCommandIngressService       *)
(* fences them, while the definition's run stops and starts again.          *)
(*                                                                          *)
(* A Local invocation asks for approval in the team's own stream.  A Remote *)
(* one asks in an event that a worker posted; it is shown without a token.  *)
(* The invocation version is 1 everywhere in the code and is left out.      *)
(*                                                                          *)
(* Bounds: MaxRuns runs; a connection answers an invocation again only when *)
(* its earlier answer was refused.                                          *)
(****************************************************************************)
EXTENDS TeamConnections

CONSTANTS Local, Remote

ASSUME ToolApprovalAssumption ==
  Local \cap Remote = {} /\ MaxRuns \in Nat

Invocations == Local \cup Remote
Refused == {"noRun", "stale", "notPending", "rejected"}

VARIABLES
  view,      \* of a request, on a connection: in its stream, or shown
  token,     \* the run of the approval_token a request is shown with
  pending,   \* latestVersionByInvocationKey
  answer,    \* of a connection to a request
  answerRun, \* the run an answer was dispatched in
  accepted   \* history: how many answers a member accepted, of a run

approvalVars == <<current, started, view, token, pending, answer, answerRun, accepted>>

ApprovalTypeOK ==
  /\ started \in 0 .. MaxRuns
  /\ current \in {NoRun, started}
  /\ view \in [Sessions -> [Invocations -> {"none", "queued", "shown"}]]
  /\ token \in [Sessions -> [Invocations -> 0 .. started]]
  /\ pending \subseteq (1 .. started) \X Invocations
  /\ answer \in [Sessions -> [Invocations -> {"none", "dispatching", "accepted"} \cup Refused]]
  /\ answerRun \in [Sessions -> [Invocations -> 0 .. started]]
  /\ accepted \in [Runs -> [Invocations -> Nat]]

ApprovalInit ==
  /\ NoRunYet
  /\ view = [s \in Sessions |-> [i \in Invocations |-> "none"]]
  /\ token = [s \in Sessions |-> [i \in Invocations |-> NoRun]]
  /\ pending = {}
  /\ answer = [s \in Sessions |-> [i \in Invocations |-> "none"]]
  /\ answerRun = [s \in Sessions |-> [i \in Invocations |-> NoRun]]
  /\ accepted = [r \in Runs |-> [i \in Invocations |-> 0]]

-----------------------------------------------------------------------------
StartRun ==
  /\ current = NoRun
  /\ started < MaxRuns
  /\ started' = started + 1
  /\ current' = started + 1
  /\ UNCHANGED <<view, token, pending, answer, answerRun, accepted>>

EndRun ==
  /\ StopActiveRun
  /\ UNCHANGED <<view, token, pending, answer, answerRun, accepted>>

(* a member asks: every connection has the event in its stream, or, of a    *)
(* worker's event of the active run, is sent it                             *)
Request(i) ==
  /\ \A s \in Sessions : view[s][i] = "none"
  /\ i \in Remote => current # NoRun
  /\ view' = [s \in Sessions |->
                [view[s] EXCEPT ![i] = IF i \in Local THEN "queued" ELSE "shown"]]
  /\ UNCHANGED <<current, started, token, pending, answer, answerRun, accepted>>

(* ToolApprovalConcurrencyPolicy                                            *)
Pending(r, i) == <<r, i>> \in pending
CompleteInvocation(r, i) == pending' = pending \ {<<r, i>>}

(* issueToolApprovalTokenFromActiveRun                                      *)
Issue(i) == pending' = IF current = NoRun THEN pending ELSE pending \cup {<<current, i>>}

(* a connection's loop converts the request: each registers it anew         *)
Convert(s, i) ==
  /\ view[s][i] = "queued"
  /\ view' = [view EXCEPT ![s][i] = "shown"]
  /\ token' = [token EXCEPT ![s][i] = current]
  /\ Issue(i)
  /\ UNCHANGED <<current, started, answer, answerRun, accepted>>

Answerable(s, i) == view[s][i] = "shown" /\ answer[s][i] \in {"none"} \cup Refused

Refuse(s, i, why) ==
  /\ answer' = [answer EXCEPT ![s][i] = why]
  /\ UNCHANGED <<current, started, view, token, answerRun, accepted>>

Dispatch(s, i) ==
  /\ answer' = [answer EXCEPT ![s][i] = "dispatching"]
  /\ answerRun' = [answerRun EXCEPT ![s][i] = current]
  /\ UNCHANGED <<current, started, view, token, accepted>>

(* (slip: the invocation is completed before its dispatch is answered)      *)
AnswerCompletes(s, i) ==
  /\ Answerable(s, i)
  /\ token[s][i] # NoRun
  /\ \/ current = NoRun /\ Refuse(s, i, "noRun")
     \/ current \notin {NoRun, token[s][i]} /\ Refuse(s, i, "stale")
     \/ /\ current = token[s][i]
        /\ \/ ~Pending(current, i) /\ Refuse(s, i, "notPending")
           \/ Pending(current, i) /\ Dispatch(s, i)
  /\ CompleteInvocation(current, i)

(* an answer with a token, through validateToolApprovalToken                *)
AnswerWithToken(s, i) ==
  /\ Answerable(s, i)
  /\ token[s][i] # NoRun
  /\ \/ current = NoRun /\ Refuse(s, i, "noRun")
     \/ current \notin {NoRun, token[s][i]} /\ Refuse(s, i, "stale")
     \/ /\ current = token[s][i]
        /\ \/ ~Pending(current, i) /\ Refuse(s, i, "notPending")
           \/ Pending(current, i) /\ Dispatch(s, i)
  /\ UNCHANGED pending

(* an answer without one is given a token of the active run                 *)
AnswerWithoutToken(s, i) ==
  /\ Answerable(s, i)
  /\ token[s][i] = NoRun
  /\ Issue(i)
  /\ \/ current = NoRun /\ Refuse(s, i, "noRun")
     \/ current # NoRun /\ Dispatch(s, i)

-----------------------------------------------------------------------------
(* The dispatch is answered: see RoutingAdapter and TeamRun                 *)

Accept(s, i) ==
  /\ answer[s][i] = "dispatching"
  /\ answer' = [answer EXCEPT ![s][i] = "accepted"]
  /\ accepted' = [accepted EXCEPT ![answerRun[s][i]][i] = @ + 1]
  /\ CompleteInvocation(answerRun[s][i], i)
  /\ UNCHANGED <<current, started, view, token, answerRun>>

Reject(s, i) ==
  /\ answer[s][i] = "dispatching"
  /\ answer' = [answer EXCEPT ![s][i] = "rejected"]
  /\ UNCHANGED <<current, started, view, token, pending, answerRun, accepted>>

-----------------------------------------------------------------------------
ApprovalNext ==
  \/ StartRun \/ EndRun
  \/ \E i \in Invocations : Request(i)
  \/ \E s \in Sessions, i \in Invocations :
       \/ Convert(s, i)
       \/ AnswerWithToken(s, i) \/ AnswerWithoutToken(s, i)
       \/ Accept(s, i) \/ Reject(s, i)

ApprovalSpec == ApprovalInit /\ [][ApprovalNext]_approvalVars

-----------------------------------------------------------------------------
(* Properties                                                               *)

(* A request that is shown with a token can be answered for as long as its  *)
(* run is active, until a member accepted an answer in that run: neither a  *)
(* failed dispatch, nor another connection's refused answer, nor the end of *)
(* an answer to an earlier run's request takes it away (validate before the *)
(* dispatch, complete after it).                                            *)
TokensStayGood ==
  \A s \in Sessions, i \in Invocations :
    LET r == token[s][i]
    IN  r # NoRun => <<r, i>> \in pending \/ accepted[r][i] > 0
=============================================================================
