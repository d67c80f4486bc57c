------------------------------ MODULE MCWorkerRun ------------------------------
(* Model values for TLC: two runs with different member bindings, of which  *)
(* the first has a bootstrap that is retried, a message and a stop.         *)
EXTENDS WorkerRun, TLC

CONSTANTS b1, b3, m1, s1, r1, r2, memberA, memberB

MCRunOf    == b1 :> r1 @@ b3 :> r2 @@ m1 :> r1 @@ s1 :> r1
MCKindOf   == [e \in {b1, b3} |-> "bootstrap"] @@ m1 :> "message" @@ s1 :> "stop"
MCConfigOf == [r \in Runs |-> IF r = r1 THEN memberA ELSE memberB]
=============================================================================
