---------------------------- MODULE MCNodeManager ----------------------------
(* Small instances of the node manager: the streams s1 and s2 come in on   *)
(* the connections c1 and c2.                                              *)
EXTENDS NodeManager, TLC

CONSTANTS c1, c2, s1, s2

MCConnOf == (s1 :> c1) @@ (s2 :> c2)
=============================================================================
