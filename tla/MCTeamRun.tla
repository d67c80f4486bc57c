------------------------------ MODULE MCTeamRun ------------------------------
(* Model values for TLC: two teams created from one definition, which       *)
(* therefore share its run, a team of another definition, and two           *)
(* interchangeable commands.                                                *)
EXTENDS TeamRun, TLC

CONSTANTS t1, t2, t3, d1, d2

MCDefinitionOf == t1 :> d1 @@ t2 :> d1 @@ t3 :> d2
CommandSymmetry == Permutations(Commands)
=============================================================================
