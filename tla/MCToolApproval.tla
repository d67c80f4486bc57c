----------------------------- MODULE MCToolApproval -----------------------------
(* Model values for TLC: two connections, a local and a remote request.     *)
EXTENDS ToolApproval, TLC

CONSTANTS s1, s2, i1, i2

Symmetry == Permutations({s1, s2})
=============================================================================
