------------------------------ MODULE MCStartup ------------------------------
(* With an explicit host and without, and ports that are not accepted. *)
EXTENDS Startup

MCArguments ==
  {[host |-> "lan", node_port |-> n, web_port |-> 2] : n \in 0..2}
    \cup {[host |-> None, node_port |-> 1, web_port |-> 2]}
=============================================================================
