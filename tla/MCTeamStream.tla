------------------------------ MODULE MCTeamStream ------------------------------
(* Model values for TLC: two teams of one definition, one with two          *)
(* connections, and commands of both that compete for the run.              *)
EXTENDS TeamStream, TLC

CONSTANTS a, b, s1, s2, c1, c2, c3

MCTeamOf == s1 :> a @@ s2 :> a @@ c1 :> a @@ c2 :> a @@ c3 :> b
=============================================================================
