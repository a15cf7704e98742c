---------------------------- MODULE MCNodeClaims ----------------------------
(* The instances of the runs that refute the claims.                       *)
EXTENDS NodeClaims, TLC

CONSTANTS c1, c2, s1, s2

MCConnOf == (s1 :> c1) @@ (s2 :> c2)
=============================================================================
