---------------------------- MODULE NodeService ----------------------------
(***************************************************************************)
(* node/service.rs: what the NodeManager keeps about its nodes, the RPC    *)
(* sequence number, and the table of RPCs that wait for an answer.  It has *)
(* no task of its own: the operators below are the effects of its methods, *)
(* which the actions of NodeManager compose.  The handles kept in a node   *)
(* are the connection and the stream whose send half it writes to.         *)
(***************************************************************************)
EXTENDS Session

CONSTANT MaxSeq   \* u64::MAX, the last value of rpc_seq

VARIABLES
  nodes,         \* the HashMap of nodes: None where there is no entry
  rpc_seq,       \* the next request id
  pending_rpc    \* the request ids with a waiting oneshot sender

serviceVars == <<nodes, rpc_seq, pending_rpc>>

Statuses == {"Starting", "Connected", "Disconnected", "Failed"}

Node ==
  [status : Statuses, dev_mode : BOOLEAN,
   connection : Conns \cup {None}, rpc_sender : Streams \cup {None}]

ASSUME ServiceAssumptions ==
  /\ MaxSeq \in Nat \ {0}
  /\ 1..(MaxSeq - 1) \subseteq RequestIds
  /\ None \notin Conns \cup Node

-----------------------------------------------------------------------------
ServiceInit ==
  /\ nodes = [n \in NodeIds |-> None]
  /\ rpc_seq = 1
  /\ pending_rpc = {}

ServiceTypeOK ==
  /\ nodes \in [NodeIds -> Node \cup {None}]
  /\ rpc_seq \in 1..MaxSeq
  /\ pending_rpc \subseteq 1..(rpc_seq - 1)

Known(n) == nodes[n] # None

(***************************************************************************)
(* The methods that write the table of nodes.                              *)
(***************************************************************************)
SetDevModeLocal(n, state) == nodes' = [nodes EXCEPT ![n].dev_mode = state]

MarkFailed(n) ==
  nodes' = IF Known(n) THEN [nodes EXCEPT ![n].status = "Failed"] ELSE nodes

NewNode ==
  [status |-> "Starting", dev_mode |-> FALSE,
   connection |-> None, rpc_sender |-> None]

(* Mutant: the entry is made anew, as insert would. *)
MarkConnectedAnew(n, c) ==
  nodes' = [nodes EXCEPT ![n] =
              [NewNode EXCEPT !.connection = c, !.status = "Connected"]]

MarkConnected(n, c) ==
  LET node == IF Known(n) THEN nodes[n] ELSE NewNode
  IN nodes' = [nodes EXCEPT ![n] =
                 [node EXCEPT !.connection = c, !.status = "Connected"]]

SetRpcSender(n, s) ==
  nodes' = IF Known(n) THEN [nodes EXCEPT ![n].rpc_sender = s] ELSE nodes

(* Mutant: the send half is kept. *)
DisconnectKeepsSender(node) ==
  [node EXCEPT !.status = "Disconnected", !.connection = None]

Disconnect(node) ==
  [node EXCEPT !.status = "Disconnected",
               !.connection = None,
               !.rpc_sender = None]

MarkDisconnected(n) ==
  nodes' = IF Known(n) THEN [nodes EXCEPT ![n] = Disconnect(@)] ELSE nodes

ServiceShutdown ==
  nodes' = [n \in NodeIds |->
              IF Known(n) THEN Disconnect(nodes[n]) ELSE None]

(***************************************************************************)
(* The methods that write the table of RPCs.  An entry that is routed is   *)
(* removed and its oneshot resolved in one call, and the only other way to *)
(* leave the table is the timeout of the call itself: an awaited id is     *)
(* resolved exactly when it is no longer in the table.                     *)
(***************************************************************************)
IsAnswer(m) == ~m.method /\ m.id \in pending_rpc

RouteIncomingRpc(m) ==
  pending_rpc' = IF IsAnswer(m) THEN pending_rpc \ {m.id} ELSE pending_rpc

SeqExhausted == rpc_seq = MaxSeq

(* next_rpc_request_id and insert_pending_rpc, for an id that exists. *)
(* Mutant: the sequence number does not advance. *)
SameRpcRequestId == UNCHANGED rpc_seq

NextRpcRequestId == rpc_seq' = rpc_seq + 1
InsertPendingRpc(id) == pending_rpc' = pending_rpc \cup {id}

(* Mutant: a call that timed out stays in the table. *)
KeepPendingRpc(id) == pending_rpc' = pending_rpc \cup {id}

RemovePendingRpc(id) == pending_rpc' = pending_rpc \ {id}

=============================================================================
