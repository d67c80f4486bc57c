---------------------------- MODULE MCExternalChannel ---------------------------
(* Model values for TLC: a message posted twice, and another one.           *)
EXTENDS ExternalChannel, TLC

CONSTANTS r1, r2, r3, m1, m2, a1

MessageOfRequest == (r1 :> m1) @@ (r2 :> m1) @@ (r3 :> m2)

Symmetry == Permutations({r1, r2})
=============================================================================
