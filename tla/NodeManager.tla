---------------------------- MODULE NodeManager ----------------------------
(***************************************************************************)
(* node/mod.rs over node/service.rs and the transport.  The manager serves *)
(* one command at a time (core/mod.rs awaits each one); pc is where that   *)
(* command stands:                                                         *)
(*   "idle"      no command                                                *)
(*   "refresh"   in refresh_events, one event at a time; after says where  *)
(*               the command goes on                                       *)
(*   "local"     about to look the node up (and set its dev mode)          *)
(*   "issue"     in service.send_rpc_request, about to pick the sender     *)
(*   "write"     writing the request line; no timeout guards it            *)
(*   "await"     waiting for the answer, three seconds at most             *)
(*   "report"    about to report the response and end the command          *)
(*   "shutdown"  the command loop has ended                                *)
(*   "drop"      the service is shut down, the manager not dropped yet     *)
(*   "closed"    the manager is gone                                       *)
(***************************************************************************)
EXTENDS NodeService

VARIABLES
  pc, after,   \* see above
  cmd,         \* the command being served
  call,        \* the request id of its RPC, while there is one
  response,    \* how the RPC ended
  asked,       \* the request ids that reached the peer of each stream
  calls        \* history: the fate of every request id

managerVars == <<pc, after, cmd, call, response>>
managerSide == <<serviceVars, managerVars, asked, calls>>
vars == <<sessionVars, managerSide>>

-----------------------------------------------------------------------------
(* A command names a node that may or may not exist; info has no state. *)
Command ==
  [op : {"set_dev"}, node : NodeIds, state : BOOLEAN]
    \cup [op : {"info"}, node : NodeIds, state : {FALSE}]

Points ==
  {"idle", "refresh", "local", "issue", "write", "await", "report",
   "shutdown", "drop", "closed"}

Continuations == {"local", "issue", "report", "shutdown"}

(* Ok(Some), Ok(None), and the errors of send_rpc_request. *)
Errors == {"overflow", "write", "timeout"}
Responses == {"answer", "nostream"} \cup Errors

Fates == {"unused", "open", "answer", "write", "timeout"}
Ids == 1..(MaxSeq - 1)

ASSUME ManagerAssumptions == None \notin Command \cup Responses

Init ==
  /\ SessionInit
  /\ ServiceInit
  /\ pc = "idle" /\ after = "local"
  /\ cmd = None /\ call = None /\ response = None
  /\ asked = [s \in Streams |-> {}]
  /\ calls = [id \in Ids |-> "unused"]

Sender == nodes[cmd.node].rpc_sender

Goto(point) == pc' = point /\ UNCHANGED after
RefreshThen(point) == pc' = "refresh" /\ after' = point

-----------------------------------------------------------------------------
(* Commands *)

(* A request arrives from the command line (NodeCommand::execute). *)
Submit(c) ==
  /\ pc = "idle"
  /\ cmd' = c
  /\ RefreshThen("local")
  /\ UNCHANGED <<sessionVars, serviceVars, call, response, asked, calls>>

(* `node list` prints the table as it stands: it does not refresh it. *)
List ==
  /\ pc = "idle"
  /\ UNCHANGED vars

(* The command line is closed: Core::run leaves its loop. *)
Exit ==
  /\ pc = "idle"
  /\ RefreshThen("shutdown")
  /\ UNCHANGED <<sessionVars, serviceVars, cmd, call, response, asked, calls>>

HandleEvent(e) ==
  \/ /\ e.type = "Connected"
     /\ MarkConnected(e.node, ConnOf[e.stream])
     /\ UNCHANGED pending_rpc
  \/ /\ e.type = "RpcStreamReady"
     /\ SetRpcSender(e.node, e.stream)
     /\ UNCHANGED pending_rpc
  \/ /\ e.type = "RpcIncoming"
     /\ RouteIncomingRpc(e.msg)
     /\ UNCHANGED nodes
  \/ /\ e.type = "Log"
     /\ UNCHANGED <<nodes, pending_rpc>>
  \/ /\ e.type = "Disconnected"
     /\ MarkDisconnected(e.node)
     /\ UNCHANGED pending_rpc

(* One turn of the loop of refresh_events. *)
Refresh ==
  /\ pc = "refresh"
  /\ TryRecv
  /\ HandleEvent(Head(events))
  /\ UNCHANGED <<rpc_seq, managerVars, asked, calls>>

(* try_recv finds nothing: the loop ends. *)
RefreshDone ==
  /\ pc = "refresh"
  /\ events = << >>
  /\ Goto(after)
  /\ UNCHANGED <<sessionVars, serviceVars, cmd, call, response, asked, calls>>

(* set_dev_mode_local or format_info_line, which fail on an unknown node. *)
NotFound ==
  /\ pc = "local"
  /\ ~Known(cmd.node)
  /\ Goto("idle")
  /\ cmd' = None
  /\ UNCHANGED <<sessionVars, serviceVars, call, response, asked, calls>>

Local ==
  /\ pc = "local"
  /\ Known(cmd.node)
  /\ IF cmd.op = "set_dev" THEN SetDevModeLocal(cmd.node, cmd.state)
     ELSE UNCHANGED nodes
  /\ RefreshThen("issue")
  /\ UNCHANGED <<sessionVars, rpc_seq, pending_rpc, cmd, call, response,
                 asked, calls>>

-----------------------------------------------------------------------------
(* send_rpc_request *)

(* It returns before anything is written. *)
IssueNothing(result) ==
  /\ response' = result
  /\ RefreshThen("report")
  /\ UNCHANGED <<sessionVars, serviceVars, cmd, call, asked, calls>>

NoStream ==
  /\ pc = "issue"
  /\ Sender = None
  /\ IssueNothing("nostream")

Overflow ==
  /\ pc = "issue"
  /\ Sender # None
  /\ SeqExhausted
  /\ IssueNothing("overflow")

Issue ==
  /\ pc = "issue"
  /\ Sender # None
  /\ ~SeqExhausted
  /\ call' = rpc_seq
  /\ NextRpcRequestId
  /\ InsertPendingRpc(rpc_seq)
  /\ calls' = [calls EXCEPT ![rpc_seq] = "open"]
  /\ Goto("write")
  /\ UNCHANGED <<sessionVars, nodes, cmd, response, asked>>

Ask == asked' = [asked EXCEPT ![Sender] = @ \cup {call}]

(* Mutant: the manager reads its events while it awaits the answer. *)
WriteOkThenRefresh ==
  /\ pc = "write"
  /\ conn[ConnOf[Sender]] = "up"
  /\ Ask
  /\ RefreshThen("await")
  /\ UNCHANGED <<sessionVars, serviceVars, cmd, call, response, calls>>

WriteOk ==
  /\ pc = "write"
  /\ conn[ConnOf[Sender]] = "up"
  /\ Ask
  /\ Goto("await")
  /\ UNCHANGED <<sessionVars, serviceVars, cmd, call, response, calls>>

(* The call ends with this response; the command refreshes and reports it. *)
EndCall(result) ==
  /\ response' = result
  /\ calls' = [calls EXCEPT ![call] = result]
  /\ call' = None
  /\ RefreshThen("report")
  /\ UNCHANGED <<sessionVars, nodes, rpc_seq, cmd>>

(* The stream or its connection is lost, before the peer had the request or *)
(* after: `?` returns and the entry stays in the table of pending RPCs.     *)
WriteFail ==
  /\ pc = "write"
  /\ Ask \/ UNCHANGED asked
  /\ EndCall("write")
  /\ UNCHANGED pending_rpc

(* Mutant: the wait has no timeout. *)
AwaitNoTimeout ==
  /\ pc = "await"
  /\ call \notin pending_rpc
  /\ EndCall("answer")
  /\ UNCHANGED <<pending_rpc, asked>>

(* Mutant: a request that timed out is sent again. *)
AwaitRetry ==
  /\ pc = "await"
  /\ call \in pending_rpc
  /\ calls' = [calls EXCEPT ![call] = "timeout"]
  /\ call' = None
  /\ RefreshThen("issue")
  /\ RemovePendingRpc(call)
  /\ UNCHANGED <<sessionVars, nodes, rpc_seq, cmd, response, asked>>

(* The oneshot is resolved, or else three seconds pass. *)
AwaitFinish ==
  /\ pc = "await"
  /\ EndCall(IF call \in pending_rpc THEN "timeout" ELSE "answer")
  /\ RemovePendingRpc(call)
  /\ UNCHANGED asked

(* What set_dev_mode and info make of the response. *)
Report ==
  /\ pc = "report"
  /\ IF cmd.op = "set_dev" /\ response \in Errors THEN MarkFailed(cmd.node)
     ELSE UNCHANGED nodes
  /\ Goto("idle")
  /\ cmd' = None
  /\ response' = None
  /\ UNCHANGED <<sessionVars, rpc_seq, pending_rpc, call, asked, calls>>

-----------------------------------------------------------------------------
(* Shutdown *)

Shutdown ==
  /\ pc = "shutdown"
  /\ ServiceShutdown
  /\ Goto("drop")
  /\ UNCHANGED <<sessionVars, rpc_seq, pending_rpc, cmd, call, response,
                 asked, calls>>

(* Core is dropped, and with it the manager and the table of pending RPCs. *)
Drop ==
  /\ pc = "drop"
  /\ CloseReceiver
  /\ pending_rpc' = {}
  /\ Goto("closed")
  /\ UNCHANGED <<nodes, rpc_seq, cmd, call, response, asked, calls>>

(* The program has ended. *)
Closed == pc = "closed" /\ UNCHANGED vars

-----------------------------------------------------------------------------
(* Composition *)

(* A peer answers what it was asked, once or more often, in any order, and *)
(* makes calls of its own, whose ids are its own business.                 *)
PeerMessages(s) ==
  {m \in RpcMessage : m.method \/ m.id \in asked[s]}

(* What the transport and the peers do while the manager does nothing. *)
Transport(s) == HandlerSend(s) \/ HandlerRead(s)
                  \/ \E m \in PeerMessages(s) : ReadRpcLine(s, m)

TransportStep ==
  /\ ListenerStep \/ \E s \in Streams : Transport(s)
  /\ UNCHANGED managerSide

(* The steps that the manager takes without waiting for anybody. *)
ManagerStep ==
  \/ Refresh \/ RefreshDone \/ NotFound \/ Local
  \/ NoStream \/ Overflow \/ Issue \/ AwaitFinish \/ Report
  \/ Shutdown \/ Drop

UserStep == List \/ Exit \/ \E c \in Command : Submit(c)
WriteStep == WriteOk \/ WriteFail

Next == TransportStep \/ ManagerStep \/ UserStep \/ WriteStep \/ Closed

Spec == Init /\ [][Next]_vars

(***************************************************************************)
(* Fairness.  The manager is one task that waits for nobody, except in     *)
(* WriteStep, where the peer's flow control may hold it for ever, and in   *)
(* UserStep.  A task that waits for room in the channel waits in the fair  *)
(* queue of tokio's semaphore: it gets its turn if room is made again and  *)
(* again.                                                                  *)
(***************************************************************************)
Fairness ==
  /\ WF_vars(ManagerStep)
  /\ \A s \in Streams : SF_vars(HandlerSend(s) /\ UNCHANGED managerSide)

FairSpec == Spec /\ Fairness

-----------------------------------------------------------------------------
(***************************************************************************)
(* Type invariant, with where a command, a call and a sender exist.        *)
(***************************************************************************)
Serving ==
  \/ pc \in {"local", "issue", "write", "await", "report"}
  \/ pc = "refresh" /\ after # "shutdown"

(* The command stands at a point, or will when it has refreshed. *)
At(point) ==
  \/ pc = point
  \/ pc = "refresh" /\ after = point

ManagerTypeOK ==
  /\ pc \in Points /\ after \in Continuations
  /\ cmd \in Command \cup {None}
  /\ call \in Ids \cup {None}
  /\ response \in Responses \cup {None}
  /\ asked \in [Streams -> SUBSET Ids]
  /\ calls \in [Ids -> Fates]
  /\ Serving <=> cmd # None
  /\ pc \in {"write", "await"} <=> call # None
  /\ At("report") => response # None
  /\ At("issue") \/ pc \in {"write", "await"} => Known(cmd.node)
  /\ pc \in {"write", "await"} => Sender # None
  /\ rxOpen <=> pc # "closed"

TypeOK == SessionTypeOK /\ ServiceTypeOK /\ ManagerTypeOK

-----------------------------------------------------------------------------
(* Sessions and the table of nodes *)

Queued(type, s) ==
  \E i \in 1..Len(events) : events[i].type = type /\ events[i].stream = s

(***************************************************************************)
(* Nothing is said of a node before the node is announced: set_rpc_sender, *)
(* mark_disconnected and the rest ignore silently a node that is not in    *)
(* the table, so an event that overtakes its Connected would be lost.      *)
(***************************************************************************)
KnownBeforeUse ==
  \A i \in 1..Len(events) :
    \/ Known(events[i].node)
    \/ \E j \in 1..i :
         events[j].type = "Connected" /\ events[j].node = events[i].node

(***************************************************************************)
(* A node never keeps the send half of an RPC stream that closed cleanly:  *)
(* the Disconnected that takes it away is on its way.                      *)
(***************************************************************************)
NoDanglingSender ==
  \A n \in NodeIds, s \in Streams :
    Known(n) /\ nodes[n].rpc_sender = s /\ handler[s] = "ended"
      => Queued("Disconnected", s)

(***************************************************************************)
(* A node that has an RPC stream, none of whose RPC streams has come to an *)
(* end, clean or not, and none lost its connection, can be called as soon  *)
(* as the channel is drained: what the node keeps is the send half of such *)
(* a stream of its own, on a connection that is up.  No interleaving with  *)
(* log streams, other nodes, second announcements and commands, whatever   *)
(* fails there, takes it away.  The end of another RPC stream may: the     *)
(* Disconnected of the old session clears the new sender, and a newer      *)
(* stream that fails leaves its dead send half in place of the live one.   *)
(***************************************************************************)
IsRpc(s) == hello[s] # None /\ hello[s].channel = "rpc"

Closes(s) == handler[s] = "ended" /\ IsRpc(s)

Lost(s) ==
  \/ handler[s] \in {"eof", "ended", "failed"}
  \/ conn[ConnOf[s]] = "down"

Callable(n) ==
  \E s \in Streams :
    /\ nodes[n].rpc_sender = s
    /\ IsRpc(s) /\ hello[s].node = n
    /\ handler[s] \in {"rpc", "incoming"}
    /\ conn[ConnOf[s]] = "up"

LiveStreamUsable ==
  \A s \in Streams :
    /\ handler[s] \in {"rpc", "incoming"}
    /\ pc \notin {"drop", "closed"}
    /\ ~\E t \in Streams : IsRpc(t) /\ hello[t].node = hello[s].node /\ Lost(t)
    => \/ Queued("RpcStreamReady", s)
       \/ Known(hello[s].node) /\ Callable(hello[s].node)

(***************************************************************************)
(* A node is listed as Disconnected only when an RPC stream of its own has *)
(* closed, or the program is closing: a failure of a log stream, of the    *)
(* connection or of a command never shows as a disconnection.              *)
(***************************************************************************)
DisconnectedMeansClosed ==
  \A n \in NodeIds :
    Known(n) /\ nodes[n].status = "Disconnected" /\ pc \notin {"drop", "closed"}
      => \E s \in Streams : Closes(s) /\ hello[s].node = n

(***************************************************************************)
(* A node, once known, stays known, and its dev mode survives whatever its *)
(* sessions do: only set_dev_mode changes it, before it asks the node, and *)
(* for the node that the command names.                                    *)
(***************************************************************************)
DevModeStep ==
  \A n \in NodeIds :
    Known(n) => /\ nodes'[n] # None
                /\ \/ nodes'[n].dev_mode = nodes[n].dev_mode
                   \/ /\ pc = "local" /\ cmd.op = "set_dev" /\ cmd.node = n
                      /\ nodes'[n].dev_mode = cmd.state

DevModeByCommand == [][DevModeStep]_vars

-----------------------------------------------------------------------------
(* RPCs *)

(***************************************************************************)
(* At most the call being made is open, its id waits in the table, and all *)
(* that the table holds besides are the ids of calls whose request could   *)
(* not be written (service.rs leaves their entries behind).                *)
(***************************************************************************)
PendingMatchesCalls ==
  /\ \A id \in Ids : calls[id] = "open" <=> id = call
  /\ call # None => call \in pending_rpc
  /\ \A id \in pending_rpc : calls[id] \in {"open", "write"}

(***************************************************************************)
(* No RPC ever returns an answer.  The answer of a peer reaches the table  *)
(* of pending RPCs only through refresh_events, which the manager does not *)
(* run while it awaits the call: every request that is written times out.  *)
(***************************************************************************)
NoCallAnswered == \A id \in Ids : calls[id] # "answer"

(***************************************************************************)
(* A request id is used for one call and a call ends once: late, repeated  *)
(* or reordered answers never end another call, and the sequence number    *)
(* stops at its last value and does not come round.                        *)
(***************************************************************************)
CallStep ==
  \A id \in Ids :
    calls'[id] # calls[id] =>
      \/ calls[id] = "unused" /\ calls'[id] = "open" /\ id = rpc_seq
      \/ calls[id] = "open" /\ calls'[id] \notin {"unused", "open"}

CallsEndOnce == [][CallStep]_vars

-----------------------------------------------------------------------------
(* The inductive invariant behind the theorems of NodeManagerProofs *)

(***************************************************************************)
(* Every event in the channel is what its stream's task last said or said  *)
(* before that: it names the node of the stream's hello, an end comes from *)
(* a task that has ended, and the send half of a task that has ended is    *)
(* followed by its end.                                                    *)
(***************************************************************************)
Announced == {"ready", "rpc", "incoming", "eof", "log", "ended", "failed"}
Opened == {"rpc", "incoming", "eof", "ended", "failed"}

Follows(i, type, s) ==
  \E j \in (i + 1)..Len(events) :
    events[j].type = type /\ events[j].stream = s

EventOK(i) ==
  LET e == events[i] IN
  /\ handler[e.stream] \in Announced
  /\ hello[e.stream] # None /\ hello[e.stream].node = e.node
  /\ e.type = "Disconnected" => Closes(e.stream)
  /\ e.type = "RpcStreamReady"
       => /\ hello[e.stream].channel = "rpc"
          /\ handler[e.stream] \in Opened
          /\ handler[e.stream] = "ended"
               => Follows(i, "Disconnected", e.stream)

EventsOK == \A i \in 1..Len(events) : EventOK(i)

ConnectedQueued(n) ==
  \E j \in 1..Len(events) : events[j].type = "Connected" /\ events[j].node = n

(* A task past its announcement serves a node that is, or will be, known. *)
Serves(s) == handler[s] \in {"ready", "rpc", "incoming", "eof", "log"}

ServedKnown ==
  \A s \in Streams :
    Serves(s) /\ rxOpen
      => Known(hello[s].node) \/ ConnectedQueued(hello[s].node)

(* Request ids from rpc_seq on are unused. *)
CallInv == \A id \in Ids : id >= rpc_seq => calls[id] = "unused"

(* The send half that a node keeps is one of its own streams'. *)
SenderInv ==
  \A n \in NodeIds, s \in Streams :
    Known(n) /\ nodes[n].rpc_sender = s
      => handler[s] \in Opened /\ IsRpc(s) /\ hello[s].node = n

(* While no RPC stream of a node closes, a sender that it got it has, be it *)
(* alive or dead.                                                           *)
KeepsSender ==
  \A s \in Streams :
    /\ handler[s] \in {"rpc", "incoming"}
    /\ pc \notin {"drop", "closed"}
    /\ ~\E t \in Streams : Closes(t) /\ hello[t].node = hello[s].node
    => \/ Queued("RpcStreamReady", s)
       \/ Known(hello[s].node) /\ nodes[hello[s].node].rpc_sender # None

(* After the service is shut down no node has a sender. *)
ShutInv ==
  pc \in {"drop", "closed"} =>
    \A n \in NodeIds : Known(n) => nodes[n].rpc_sender = None

IInv ==
  /\ TypeOK
  /\ KnownBeforeUse /\ NoDanglingSender
  /\ KeepsSender /\ DisconnectedMeansClosed
  /\ PendingMatchesCalls /\ NoCallAnswered
  /\ EventsOK /\ ServedKnown /\ SenderInv /\ CallInv /\ ShutInv

-----------------------------------------------------------------------------
(* Progress *)

PeerSpeaks(s) == HandlerRead(s) \/ \E m \in RpcMessage : ReadRpcLine(s, m)

(* A command is being served, or the program is closing. *)
Busy == pc \notin {"idle", "closed"}

(***************************************************************************)
(* Whatever the peers do, a command goes on from point to point and never  *)
(* back: it is not repeated when its call fails or times out.  That it     *)
(* goes on at all is not said here: a write of its request that hangs, or  *)
(* events of which there are ever more to take, hold it where it stands.   *)
(***************************************************************************)
Ahead(point) ==
  CASE point = "local" -> 8
    [] point = "issue" -> 6
    [] point = "write" -> 5
    [] point = "await" -> 4
    [] point \in {"report", "shutdown"} -> 2
    [] point = "drop" -> 1
    [] OTHER -> 0

PointsLeft == IF pc = "refresh" THEN Ahead(after) + 1 ELSE Ahead(pc)

PointStep == Busy => UNCHANGED managerVars \/ PointsLeft' < PointsLeft

CommandAdvances == [][PointStep]_vars

(***************************************************************************)
(* Once the peers fall silent, every command ends, and so does the program *)
(* after exit, unless a write hangs: no answer has to come for that, since *)
(* the timeout ends the wait.  While the peers keep talking, nothing of    *)
(* the kind holds: the loop of refresh_events goes on as long as it finds  *)
(* events, and a log stream can keep it supplied.                          *)
(***************************************************************************)
CommandCompletes ==
  /\ <>[][\A s \in Streams : ~PeerSpeaks(s)]_vars
  /\ []<>(pc # "write")
  => (Busy ~> ~Busy)

(***************************************************************************)
(* A stream task that waits for room in the channel is let through, if the *)
(* user goes on giving commands that refresh (dev, info), or leaves: full  *)
(* is never for ever, and the manager and its tasks never wait for each    *)
(* other.                                                                  *)
(***************************************************************************)
SendersProceed ==
  []<>(pc = "refresh" \/ ~rxOpen)
    => \A s \in Streams : handler[s] \in Sending ~> handler[s] \notin Sending

=============================================================================
