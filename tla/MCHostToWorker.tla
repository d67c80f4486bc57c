---------------------------- MODULE MCHostToWorker ----------------------------
(* Model values for TLC: two commands that share the bootstrap of the       *)
(* worker, each with a retry, and one worker restart.                       *)
EXTENDS HostToWorker, TLC

CONSTANTS c1, c2, host, worker

MCNodeOf == [c \in Commands |-> worker]
MCEnvelopes == {"bootstrap", "command"} \X Commands
=============================================================================
