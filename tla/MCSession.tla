------------------------------ MODULE MCSession ------------------------------
(* Two streams on two connections share a channel of one or two places.    *)
EXTENDS SessionFeed, TLC

CONSTANTS c1, c2, s1, s2

MCConnOf == (s1 :> c1) @@ (s2 :> c2)
=============================================================================
