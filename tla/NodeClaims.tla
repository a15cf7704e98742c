----------------------------- MODULE NodeClaims -----------------------------
(***************************************************************************)
(* What the texts of the program tell its user about nodes, stated over    *)
(* NodeManager.  Each of these is violated: the counterexample is a        *)
(* finding, described in README.md.                                        *)
(***************************************************************************)
EXTENDS NodeManager

LiveRpc(s) ==
  /\ handler[s] \in {"rpc", "incoming"}
  /\ conn[ConnOf[s]] = "up"
  /\ ~Queued("RpcStreamReady", s)

Answers(e) == e.type = "RpcIncoming" /\ ~e.msg.method /\ e.msg.id = call

(***************************************************************************)
(* "RPC timeout for method {method}" (node/service.rs): a call is said to  *)
(* have timed out only if its answer has not come.  The answer is in the   *)
(* event channel, which the manager does not read while it waits.          *)
(***************************************************************************)
TimeoutStep ==
  pc = "await" /\ response' = "timeout"
    => ~\E i \in 1..Len(events) : Answers(events[i])

TimedOutUnanswered == [][TimeoutStep]_vars

(***************************************************************************)
(* "Node {} rpc info unavailable: no RPC stream" (node/mod.rs): this is    *)
(* said only of a node that has no established RPC stream.  A node that    *)
(* reconnects before its old RPC stream is seen to end loses the new send  *)
(* half to the Disconnected of the old one.                                *)
(***************************************************************************)
NoStreamStep ==
  pc = "issue" /\ response' = "nostream"
    => ~\E s \in Streams : LiveRpc(s) /\ hello[s].node = cmd.node

UnavailableHasNoStream == [][NoStreamStep]_vars

(***************************************************************************)
(* "List known node sessions and their states" (node/command.rs): once all *)
(* that was reported of it has been handled, a node whose RPC stream ended *)
(* with a read error because its connection was lost is not listed as      *)
(* Connected, unless another of its streams is still served.  Such an end  *)
(* is not reported: `?` returns before the Disconnected is sent.           *)
(***************************************************************************)
Served(n) ==
  \E s \in Streams :
    /\ handler[s] \notin {"none", "hello", "ended", "failed"}
    /\ hello[s].node = n

ListedConnectedIsServed ==
  \A s \in Streams :
    /\ pc = "idle" /\ events = << >>
    /\ IsRpc(s) /\ handler[s] = "failed" /\ conn[ConnOf[s]] = "down"
    /\ ~Served(hello[s].node)
    /\ Known(hello[s].node)
    => nodes[hello[s].node].status # "Connected"

=============================================================================
