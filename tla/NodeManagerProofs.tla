------------------------- MODULE NodeManagerProofs -------------------------
(***************************************************************************)
(* Proofs about the node manager, for any number of nodes, connections and *)
(* streams, any capacity of the channel and any last sequence number.      *)
(***************************************************************************)
EXTENDS NodeManager, SessionProofs

(***************************************************************************)
(* The manager only takes from the channel, and only by try_recv or by     *)
(* going away: composed with it, the transport still behaves as specified. *)
(***************************************************************************)
LEMMA NextIsSessionStep == [Next]_vars => [SessionNext]_sessionVars
  <1> SUFFICES ASSUME [Next]_vars
               PROVE  [SessionNext]_sessionVars
    OBVIOUS
  <1>1. CASE TransportStep
    <2>1. CASE ListenerStep
      BY <2>1 DEF SessionNext
    <2>2. ASSUME NEW s \in Streams, Transport(s)
          PROVE  SessionNext
      BY <2>2 DEF Transport, PeerMessages, SessionNext
    <2> QED
      BY <1>1, <2>1, <2>2 DEF TransportStep
  <1>2. CASE ManagerStep
    BY <1>2 DEF ManagerStep, Refresh, RefreshDone, NotFound, Local, NoStream,
                Overflow, IssueNothing, Issue, AwaitFinish, EndCall, Report,
                Shutdown, Drop, SessionNext
  <1>3. CASE UserStep \/ WriteStep \/ Closed \/ UNCHANGED vars
    BY <1>3 DEF UserStep, List, Exit, Submit, WriteStep, WriteOk, WriteFail,
                EndCall, Closed, vars
  <1> QED
    BY <1>1, <1>2, <1>3 DEF Next

(* With the node manager, the transport still behaves as specified.         *)
THEOREM ManagerKeepsSession == Spec => SessionSpec
  <1>1. Init => SessionInit
    BY DEF Init
  <1> QED
    BY <1>1, NextIsSessionStep, PTL DEF Spec, SessionSpec

(***************************************************************************)
(* So the manager is fed as StreamFeed promises, with all that it does     *)
(* between two refreshes: of every stream it is told the announcement, the *)
(* send half, the messages and the end, once each and in this order, and   *)
(* it takes them up to its own end.                                        *)
(***************************************************************************)
THEOREM ManagerIsFed == Spec => FeedSpec
  BY ManagerKeepsSession, SessionFeedCorrect

-----------------------------------------------------------------------------
(***************************************************************************)
(* What each operation does to the table of nodes, entry by entry.         *)
(***************************************************************************)
NodeTable == [NodeIds -> Node \cup {None}]

(* The table changes at n alone, where its entry is in S. *)
ChangesOnly(n, S) ==
  /\ nodes' \in NodeTable
  /\ \A k \in NodeIds \ {n} : nodes'[k] = nodes[k]
  /\ nodes'[n] \in S

(* set_dev_mode_local writes the dev mode of one node and nothing else.     *)
LEMMA SetDevModeLocalEffect ==
  ASSUME nodes \in NodeTable, NEW n \in NodeIds, NEW state \in BOOLEAN,
         Known(n), SetDevModeLocal(n, state)
  PROVE  /\ ChangesOnly(n, Node)
         /\ nodes'[n].dev_mode = state
         /\ nodes'[n].status = nodes[n].status
         /\ nodes'[n].rpc_sender = nodes[n].rpc_sender
  BY DEF SetDevModeLocal, NodeTable, ChangesOnly, Known, Node

(* mark_failed writes the status of one node and nothing else.              *)
LEMMA MarkFailedEffect ==
  ASSUME nodes \in NodeTable, NEW n \in NodeIds, Known(n), MarkFailed(n)
  PROVE  /\ ChangesOnly(n, Node)
         /\ nodes'[n].status = "Failed"
         /\ nodes'[n].dev_mode = nodes[n].dev_mode
         /\ nodes'[n].rpc_sender = nodes[n].rpc_sender
  BY DEF MarkFailed, NodeTable, ChangesOnly, Known, Node, Statuses

(* set_rpc_sender writes the sender of one node and nothing else.           *)
LEMMA SetRpcSenderEffect ==
  ASSUME nodes \in NodeTable, NEW n \in NodeIds, NEW s \in Streams,
         Known(n), SetRpcSender(n, s)
  PROVE  /\ ChangesOnly(n, Node)
         /\ nodes'[n].status = nodes[n].status
         /\ nodes'[n].dev_mode = nodes[n].dev_mode
         /\ nodes'[n].rpc_sender = s
  BY DEF SetRpcSender, NodeTable, ChangesOnly, Known, Node

(* Disconnecting an entry keeps its dev mode.                               *)
LEMMA DisconnectEffect ==
  ASSUME NEW node \in Node
  PROVE  /\ Disconnect(node) \in Node
         /\ Disconnect(node).status = "Disconnected"
         /\ Disconnect(node).dev_mode = node.dev_mode
         /\ Disconnect(node).rpc_sender = None
  BY DEF Disconnect, Node, Statuses

(* mark_disconnected takes the sender of one node and keeps its dev mode.   *)
LEMMA MarkDisconnectedEffect ==
  ASSUME nodes \in NodeTable, NEW n \in NodeIds, Known(n), MarkDisconnected(n)
  PROVE  /\ ChangesOnly(n, Node)
         /\ nodes'[n].status = "Disconnected"
         /\ nodes'[n].dev_mode = nodes[n].dev_mode
         /\ nodes'[n].rpc_sender = None
  <1>1. nodes[n] \in Node
    BY DEF NodeTable, Known
  <1>2. nodes' = [nodes EXCEPT ![n] = Disconnect(nodes[n])]
    BY DEF MarkDisconnected
  <1> QED
    BY <1>1, <1>2, DisconnectEffect DEF NodeTable, ChangesOnly

(* mark_connected keeps the dev mode and the sender of a node it knows.     *)
LEMMA MarkConnectedEffect ==
  ASSUME nodes \in NodeTable, NEW n \in NodeIds, NEW c \in Conns,
         MarkConnected(n, c)
  PROVE  /\ ChangesOnly(n, Node)
         /\ nodes'[n].status = "Connected"
         /\ Known(n) => /\ nodes'[n].dev_mode = nodes[n].dev_mode
                        /\ nodes'[n].rpc_sender = nodes[n].rpc_sender
         /\ ~Known(n) => nodes'[n].rpc_sender = None
  <1> DEFINE node == IF Known(n) THEN nodes[n] ELSE NewNode
             new  == [node EXCEPT !.connection = c, !.status = "Connected"]
  <1>1. /\ node \in Node
        /\ Known(n) => node = nodes[n]
        /\ ~Known(n) => node.rpc_sender = None
    BY DEF NodeTable, Known, NewNode, Node, Statuses
  <1>2. nodes' = [nodes EXCEPT ![n] = new]
    BY DEF MarkConnected
  <1> HIDE DEF node
  <1>3. /\ new \in Node
        /\ new.status = "Connected"
        /\ new.dev_mode = node.dev_mode
        /\ new.rpc_sender = node.rpc_sender
    BY <1>1 DEF Node, Statuses
  <1> HIDE DEF new
  <1> QED
    BY <1>1, <1>2, <1>3 DEF NodeTable, ChangesOnly

(* The shutdown of the service keeps every node and takes every sender.     *)
LEMMA ServiceShutdownEffect ==
  ASSUME nodes \in NodeTable, ServiceShutdown
  PROVE  /\ nodes' \in NodeTable
         /\ \A n \in NodeIds :
              /\ Known(n) <=> nodes'[n] # None
              /\ Known(n) => /\ nodes'[n].dev_mode = nodes[n].dev_mode
                             /\ nodes'[n].rpc_sender = None
  <1>1. \A n \in NodeIds : Known(n) => nodes[n] \in Node
    BY DEF NodeTable, Known
  <1>2. \A n \in NodeIds :
          nodes'[n] = IF Known(n) THEN Disconnect(nodes[n]) ELSE None
    BY DEF ServiceShutdown
  <1>3. None \notin Node
    BY ServiceAssumptions
  <1>4. nodes' \in NodeTable
    <2>1. \A n \in NodeIds :
            (IF Known(n) THEN Disconnect(nodes[n]) ELSE None) \in Node \cup {None}
      BY <1>1, DisconnectEffect
    <2> QED
      BY <2>1 DEF NodeTable, ServiceShutdown
  <1> QED
    BY <1>1, <1>2, <1>3, <1>4, DisconnectEffect

(***************************************************************************)
(* What handling an event does to the tables.                              *)
(***************************************************************************)
LEMMA HandleEventEffect ==
  ASSUME nodes \in NodeTable, NEW e \in TransportEvent, HandleEvent(e)
  PROVE  /\ nodes' \in NodeTable
         /\ pending_rpc' \subseteq pending_rpc
         /\ \A n \in NodeIds \ {e.node} : nodes'[n] = nodes[n]
         /\ Known(e.node) => /\ nodes'[e.node] # None
                             /\ nodes'[e.node].dev_mode = nodes[e.node].dev_mode
         /\ e.type = "Connected" =>
              /\ nodes'[e.node] # None
              /\ nodes'[e.node].status = "Connected"
              /\ nodes'[e.node].rpc_sender = IF Known(e.node)
                   THEN nodes[e.node].rpc_sender ELSE None
         /\ e.type = "RpcStreamReady" /\ Known(e.node) =>
              /\ nodes'[e.node].rpc_sender = e.stream
              /\ nodes'[e.node].status = nodes[e.node].status
         /\ e.type = "Disconnected" /\ Known(e.node) =>
              /\ nodes'[e.node].rpc_sender = None
              /\ nodes'[e.node].status = "Disconnected"
         /\ e.type # "Connected" /\ ~Known(e.node) => nodes' = nodes
         /\ e.type \in {"RpcIncoming", "Log"} => nodes' = nodes
  <1>1. /\ e.node \in NodeIds /\ e.stream \in Streams
        /\ ConnOf[e.stream] \in Conns
    BY SessionAssumptions DEF TransportEvent
  <1>2. None \notin Node
    BY ServiceAssumptions
  <1>3. CASE e.type = "Connected"
    <2>1. MarkConnected(e.node, ConnOf[e.stream]) /\ pending_rpc' = pending_rpc
      BY <1>3 DEF HandleEvent
    <2> QED
      BY <1>1, <1>2, <1>3, <2>1, MarkConnectedEffect DEF ChangesOnly
  <1>4. CASE e.type = "RpcStreamReady"
    <2>1. SetRpcSender(e.node, e.stream) /\ pending_rpc' = pending_rpc
      BY <1>4 DEF HandleEvent
    <2>2. CASE Known(e.node)
      BY <1>1, <1>2, <1>4, <2>1, <2>2, SetRpcSenderEffect DEF ChangesOnly
    <2>3. CASE ~Known(e.node)
      BY <1>4, <2>1, <2>3 DEF SetRpcSender
    <2> QED
      BY <2>2, <2>3
  <1>5. CASE e.type = "RpcIncoming"
    BY <1>5 DEF HandleEvent, RouteIncomingRpc, Known
  <1>6. CASE e.type = "Log"
    BY <1>6 DEF HandleEvent, Known
  <1>7. CASE e.type = "Disconnected"
    <2>1. MarkDisconnected(e.node) /\ pending_rpc' = pending_rpc
      BY <1>7 DEF HandleEvent
    <2>2. CASE Known(e.node)
      BY <1>1, <1>2, <1>7, <2>1, <2>2, MarkDisconnectedEffect DEF ChangesOnly
    <2>3. CASE ~Known(e.node)
      BY <1>7, <2>1, <2>3 DEF MarkDisconnected
    <2> QED
      BY <2>2, <2>3
  <1> QED
    BY <1>3, <1>4, <1>5, <1>6, <1>7 DEF HandleEvent

-----------------------------------------------------------------------------
(* The type invariant *)

(* Every step of the composition keeps the type invariant.                  *)
LEMMA TypeStep == TypeOK /\ [Next]_vars => TypeOK'
  <1> SUFFICES ASSUME TypeOK, [Next]_vars
               PROVE  ServiceTypeOK' /\ ManagerTypeOK'
    BY NextIsSessionStep, SessionStepType DEF TypeOK
  <1> USE DEF TypeOK, ServiceTypeOK, ManagerTypeOK
  <1> USE DEF Serving, At, Known, Sender, Points, Continuations
  <1>1. CASE TransportStep \/ UNCHANGED vars
    <2>1. UNCHANGED <<managerSide, rxOpen>>
      BY <1>1 DEF TransportStep, ListenerStep, Connect, ConnectionLost,
                  AcceptStream, Transport, HandlerSend, SendConnected,
                  SendRpcStreamReady, SendRpcIncoming, SendDisconnected,
                  HandlerRead, ReadHello, ReadLogLine, ReadEof, ReadError,
                  ReadRpcLine, vars, sessionVars
    <2> QED
      BY <2>1 DEF managerSide, serviceVars, managerVars
  <1>2. CASE Refresh
    <2>1. Head(events) \in TransportEvent
      BY <1>2, TryRecvType DEF Refresh, SessionTypeOK
    <2>2. /\ nodes' \in NodeTable
          /\ pending_rpc' \subseteq pending_rpc
      BY <1>2, <2>1, HandleEventEffect DEF Refresh, NodeTable
    <2>3. after = "issue" => nodes'[cmd.node] # None
      <3>1. after = "issue" => cmd.node \in NodeIds /\ Known(cmd.node)
        BY <1>2 DEF Refresh, Command
      <3> QED
        BY <1>2, <2>1, <3>1, HandleEventEffect DEF Refresh, NodeTable
    <2> QED
      BY <1>2, <2>2, <2>3 DEF Refresh, TryRecv, managerVars, NodeTable
  <1>3. CASE RefreshDone
    BY <1>3 DEF RefreshDone, Goto, sessionVars, serviceVars
  <1>4. CASE NotFound
    BY <1>4 DEF NotFound, Goto, sessionVars, serviceVars
  <1>5. CASE Local
    <2>1. cmd \in Command /\ cmd.node \in NodeIds /\ cmd.state \in BOOLEAN
      BY <1>5 DEF Local, Command
    <2>2. nodes' \in NodeTable /\ nodes'[cmd.node] # None
      BY <1>5, <2>1, SetDevModeLocalEffect, ServiceAssumptions
         DEF Local, ChangesOnly, NodeTable
    <2> QED
      BY <1>5, <2>2 DEF Local, RefreshThen, sessionVars, NodeTable
  <1>6. CASE NoStream \/ Overflow
    BY <1>6, ManagerAssumptions
       DEF NoStream, Overflow, IssueNothing, RefreshThen, sessionVars,
                serviceVars, Responses, Errors
  <1>7. CASE Issue
    <2>1. rpc_seq \in Ids /\ rpc_seq + 1 \in 1..MaxSeq
      BY <1>7, ServiceAssumptions DEF Issue, SeqExhausted, Ids
    <2>2. rpc_seq # None
      BY <2>1, SessionAssumptions, ServiceAssumptions DEF Ids
    <2> QED
      BY <1>7, <2>1, <2>2, ServiceAssumptions
         DEF Issue, NextRpcRequestId, InsertPendingRpc, Goto, sessionVars, Fates
  <1>8. CASE AwaitFinish
    BY <1>8, ManagerAssumptions
       DEF AwaitFinish, EndCall, RefreshThen, RemovePendingRpc,
                sessionVars, Responses, Errors, Fates
  <1>9. CASE Report
    <2>1. cmd \in Command /\ cmd.node \in NodeIds
      BY <1>9 DEF Report, Command
    <2>2. nodes' \in NodeTable
      BY <1>9, <2>1, MarkFailedEffect
         DEF Report, ChangesOnly, NodeTable, MarkFailed
    <2> QED
      BY <1>9, <2>2 DEF Report, Goto, sessionVars, NodeTable
  <1>10. CASE Shutdown
    BY <1>10, ServiceShutdownEffect DEF Shutdown, Goto, sessionVars, NodeTable
  <1>11. CASE Drop
    BY <1>11 DEF Drop, CloseReceiver, Goto
  <1>12. CASE UserStep
    <2>1. \A c \in Command : c # None
      BY ManagerAssumptions
    <2> QED
      BY <1>12, <2>1 DEF UserStep, List, Exit, Submit, RefreshThen, vars,
                         managerSide, managerVars, sessionVars, serviceVars
  <1>13. CASE WriteStep
    <2>1. Sender \in Streams
      BY <1>13, ServiceAssumptions DEF WriteStep, WriteOk, WriteFail, Command, Node
    <2>2. Ask => asked' \in [Streams -> SUBSET Ids]
      BY <1>13, <2>1 DEF Ask, WriteStep, WriteOk, WriteFail
    <2>3. CASE WriteOk
      BY <2>2, <2>3 DEF WriteOk, Goto, sessionVars, serviceVars
    <2>4. CASE WriteFail
      BY <2>2, <2>4, ManagerAssumptions
         DEF WriteFail, EndCall, RefreshThen, sessionVars,
                        Responses, Errors, Fates
    <2> QED
      BY <1>13, <2>3, <2>4 DEF WriteStep
  <1>14. CASE Closed
    BY <1>14 DEF Closed, vars, managerSide, managerVars, sessionVars,
                 serviceVars
  <1> QED
    BY <1>1, <1>2, <1>3, <1>4, <1>5, <1>6, <1>7, <1>8, <1>9, <1>10, <1>11,
       <1>12, <1>13, <1>14 DEF Next, ManagerStep

(***************************************************************************)
(* The type invariant of the node manager and its transport.               *)
(***************************************************************************)
THEOREM TypeCorrect == Spec => []TypeOK
  <1>1. Init => TypeOK
    <2>1. Init => SessionTypeOK
      BY SessionAssumptions
         DEF Init, SessionInit, SessionTypeOK, TaskOK, HandlerStates, Sending
    <2>2. Init => ServiceTypeOK
      BY ServiceAssumptions DEF Init, ServiceInit, ServiceTypeOK
    <2>3. Init => ManagerTypeOK
      BY DEF Init, SessionInit, ManagerTypeOK, Points, Continuations, Serving,
             At, Fates
    <2> QED
      BY <2>1, <2>2, <2>3 DEF TypeOK
  <1> QED
    BY <1>1, TypeStep, PTL DEF Spec

-----------------------------------------------------------------------------
(* A command goes on *)

(* The measure, point by point. *)
LEMMA AheadOf ==
  /\ Ahead("local") = 8 /\ Ahead("issue") = 6 /\ Ahead("write") = 5
  /\ Ahead("await") = 4 /\ Ahead("report") = 2 /\ Ahead("shutdown") = 2
  /\ Ahead("drop") = 1 /\ Ahead("idle") = 0 /\ Ahead("closed") = 0
BY DEF Ahead

(* What RefreshThen and Goto make of the measure. *)
LEMMA LeftAfter ==
  ASSUME NEW point
  PROVE  /\ RefreshThen(point) => PointsLeft' = Ahead(point) + 1
         /\ Goto(point) /\ point # "refresh" => PointsLeft' = Ahead(point)
BY DEF RefreshThen, Goto, PointsLeft, Ahead

(* Where the command stands, the measure is what the point says. *)
LEMMA LeftAt ==
  ASSUME NEW point, pc = point, point # "refresh"
  PROVE  PointsLeft = Ahead(point)
BY DEF PointsLeft

(***************************************************************************)
(* A command, and the end of the program, pass each of their points once,  *)
(* whatever the nodes do, however many requests there are and however many *)
(* events the channel holds: a call that fails or times out is not made    *)
(* again.                                                                  *)
(***************************************************************************)
THEOREM CommandAdvancesCorrect == Spec => CommandAdvances
<1>1. ASSUME TypeOK, [Next]_vars
      PROVE  PointStep
  <2> SUFFICES ASSUME Busy, ~UNCHANGED managerVars
               PROVE  PointsLeft' < PointsLeft
    BY DEF PointStep
  <2> Next
    BY <1>1 DEF vars, managerSide
  <2>1. CASE TransportStep
    BY <2>1 DEF TransportStep, managerSide
  <2>2. CASE Refresh
    BY <2>2 DEF Refresh
  <2>3. CASE RefreshDone
    <3>1. after \in {"local", "issue", "report", "shutdown"}
      BY <1>1 DEF TypeOK, ManagerTypeOK, Continuations
    <3>2. PointsLeft = Ahead(after) + 1 /\ PointsLeft' = Ahead(after)
      BY <2>3, <3>1, LeftAfter DEF RefreshDone, PointsLeft
    <3> QED
      BY <3>1, <3>2, AheadOf
  <2>4. CASE NotFound
    BY <2>4, LeftAt, LeftAfter, AheadOf DEF NotFound
  <2>5. CASE Local
    BY <2>5, LeftAt, LeftAfter, AheadOf DEF Local
  <2>6. CASE NoStream \/ Overflow
    BY <2>6, LeftAt, LeftAfter, AheadOf DEF NoStream, Overflow, IssueNothing
  <2>7. CASE Issue
    BY <2>7, LeftAt, LeftAfter, AheadOf DEF Issue
  <2>8. CASE WriteOk
    BY <2>8, LeftAt, LeftAfter, AheadOf DEF WriteOk
  <2>9. CASE WriteFail
    BY <2>9, LeftAt, LeftAfter, AheadOf DEF WriteFail, EndCall
  <2>10. CASE AwaitFinish
    BY <2>10, LeftAt, LeftAfter, AheadOf DEF AwaitFinish, EndCall
  <2>11. CASE Report
    BY <2>11, LeftAt, LeftAfter, AheadOf DEF Report
  <2>12. CASE Shutdown
    BY <2>12, LeftAt, LeftAfter, AheadOf DEF Shutdown
  <2>13. CASE Drop
    BY <2>13, LeftAt, LeftAfter, AheadOf DEF Drop
  <2>14. CASE UserStep \/ Closed
    BY <2>14 DEF UserStep, List, Exit, Submit, Closed, Busy
  <2> QED
    BY <2>1, <2>2, <2>3, <2>4, <2>5, <2>6, <2>7, <2>8, <2>9, <2>10, <2>11,
       <2>12, <2>13, <2>14
       DEF Next, ManagerStep, WriteStep
<1> QED
  BY <1>1, TypeCorrect, PTL DEF Spec, CommandAdvances

-----------------------------------------------------------------------------
(* RPCs *)

CallsOK == PendingMatchesCalls /\ NoCallAnswered /\ CallInv

(***************************************************************************)
(* While a request is in flight its id stays in the table of pending RPCs, *)
(* because only refresh_events could route its answer and pc is not there: *)
(* so the wait ends by its timeout.  Ids from rpc_seq on are unused, so a  *)
(* new call never takes the id of an earlier one.                          *)
(***************************************************************************)
LEMMA CallsInductive ==
  ASSUME TypeOK, CallsOK, [Next]_vars
  PROVE  CallsOK' /\ CallStep
  <1> USE DEF CallsOK, PendingMatchesCalls, NoCallAnswered, CallInv, CallStep
  <1> USE DEF TypeOK, ServiceTypeOK, ManagerTypeOK
  <1>1. CASE UNCHANGED <<pending_rpc, rpc_seq, call, calls>>
    BY <1>1
  <1>2. CASE Refresh
    <2>1. Head(events) \in TransportEvent
      BY <1>2, TryRecvType DEF Refresh, SessionTypeOK
    <2>2. pending_rpc' \subseteq pending_rpc
      BY <1>2, <2>1, HandleEventEffect DEF Refresh, NodeTable
    <2>3. call = None /\ UNCHANGED <<rpc_seq, call, calls>>
      BY <1>2 DEF Refresh, managerVars
    <2> QED
      BY <2>2, <2>3
  <1>3. CASE Issue
    <2>1. rpc_seq \in Ids /\ call = None
      BY <1>3, ServiceAssumptions DEF Issue, SeqExhausted, Ids
    <2>2. \A id \in Ids : calls[id] # "open"
      BY <2>1, SessionAssumptions, ServiceAssumptions DEF Ids
    <2> QED
      BY <1>3, <2>1, <2>2
         DEF Issue, NextRpcRequestId, InsertPendingRpc, Ids
  <1>4. CASE WriteFail
    <2>1. call \in Ids /\ calls[call] = "open" /\ call < rpc_seq
      BY <1>4 DEF WriteFail, Ids
    <2>2. None \notin Ids
      BY SessionAssumptions, ServiceAssumptions DEF Ids
    <2> QED
      BY <1>4, <2>1, <2>2 DEF WriteFail, EndCall, Ids
  <1>5. CASE AwaitFinish
    <2>1. call \in Ids /\ calls[call] = "open" /\ call < rpc_seq
      BY <1>5 DEF AwaitFinish, Ids
    <2>2. None \notin Ids
      BY SessionAssumptions, ServiceAssumptions DEF Ids
    <2>3. EndCall("timeout") /\ pending_rpc' = pending_rpc \ {call}
      BY <1>5 DEF AwaitFinish, RemovePendingRpc
    <2> QED
      BY <2>1, <2>2, <2>3 DEF EndCall, Ids
  <1>6. CASE Drop
    BY <1>6 DEF Drop
  <1>7. CASE TransportStep \/ UserStep \/ WriteOk \/ Closed \/ UNCHANGED vars
    <2>1. UNCHANGED <<pending_rpc, rpc_seq, call, calls>>
      BY <1>7 DEF TransportStep, UserStep, List, Exit, Submit, WriteOk,
                  Closed, vars, managerSide, managerVars, serviceVars
    <2> QED
      BY <1>1, <2>1
  <1>8. CASE RefreshDone \/ NotFound \/ Local \/ NoStream \/ Overflow
             \/ Report \/ Shutdown
    <2>1. UNCHANGED <<pending_rpc, rpc_seq, call, calls>>
      BY <1>8 DEF RefreshDone, NotFound, Local, NoStream, Overflow,
                  IssueNothing, Report, Shutdown, serviceVars
    <2> QED
      BY <1>1, <2>1
  <1> QED
    BY <1>2, <1>3, <1>4, <1>5, <1>6, <1>7, <1>8
       DEF Next, ManagerStep, WriteStep

(* The facts about calls hold in every reachable state.                     *)
LEMMA CallsInvariant == Spec => [](TypeOK /\ CallsOK)
  <1>1. Init => CallsOK
    BY SessionAssumptions, ServiceAssumptions
       DEF Init, ServiceInit, CallsOK, PendingMatchesCalls, NoCallAnswered,
           CallInv, Ids
  <1>2. TypeOK /\ CallsOK /\ [Next]_vars => CallsOK'
    BY CallsInductive
  <1> QED
    BY <1>1, <1>2, TypeCorrect, PTL DEF Spec

(***************************************************************************)
(* The open call is the one being made, its id waits in the table, and all *)
(* other ids there are of requests that could not be written.              *)
(***************************************************************************)
THEOREM PendingCorrect == Spec => []PendingMatchesCalls
  <1>1. CallsOK => PendingMatchesCalls
    BY DEF CallsOK
  <1> QED
    BY <1>1, CallsInvariant, PTL

(***************************************************************************)
(* No RPC ever returns an answer, whatever the peers do.                   *)
(***************************************************************************)
THEOREM NoAnswer == Spec => []NoCallAnswered
  <1>1. CallsOK => NoCallAnswered
    BY DEF CallsOK
  <1> QED
    BY <1>1, CallsInvariant, PTL

(***************************************************************************)
(* A request id is used once, and a call ends once.                        *)
(***************************************************************************)
THEOREM CallsEndOnceCorrect == Spec => CallsEndOnce
  <1>1. TypeOK /\ CallsOK /\ [Next]_vars => [CallStep]_vars
    BY CallsInductive
  <1> QED
    BY <1>1, CallsInvariant, PTL DEF Spec, CallsEndOnce

-----------------------------------------------------------------------------
(* Sessions *)

(***************************************************************************)
(* What a step of the transport does to the channel and the tasks: either  *)
(* it says nothing and every task moves on by itself, or one task says     *)
(* something, which is added to the channel.                               *)
(***************************************************************************)
Silent(s) ==
  \/ handler'[s] = handler[s] /\ hello'[s] = hello[s]
  \/ /\ handler[s] \in {"none", "hello"}
     /\ handler'[s] \in {"hello", "connected", "ended", "failed"}
  \/ /\ handler[s] = "rpc" /\ hello'[s] = hello[s]
     /\ handler'[s] \in {"incoming", "eof", "failed"}
  \/ /\ handler[s] = "log" /\ hello'[s] = hello[s]
     /\ handler'[s] \in {"ended", "failed"}
  \/ ~rxOpen

Quiet == events' = events /\ \A s \in Streams : Silent(s)

Goes(s, type) ==
  \/ /\ type = "Connected" /\ handler[s] = "connected"
     /\ handler'[s] \in {"ready", "log", "failed"}
  \/ type = "RpcStreamReady" /\ handler[s] = "ready" /\ handler'[s] = "rpc"
  \/ type = "RpcIncoming" /\ handler[s] = "incoming" /\ handler'[s] = "rpc"
  \/ type = "Log" /\ handler[s] = "log" /\ handler'[s] = "log"
  \/ type = "Disconnected" /\ handler[s] = "eof" /\ handler'[s] = "ended"

Says(s, type) ==
  /\ events' = Append(events, Event(type, s))
  /\ hello' = hello
  /\ \A t \in Streams \ {s} : handler'[t] = handler[t]
  /\ Goes(s, type)
  /\ rxOpen

(* A step of the transport is quiet, or one task says one thing.            *)
LEMMA TransportEffect ==
  ASSUME SessionTypeOK, TransportStep
  PROVE  Quiet \/ \E s \in Streams, type \in EventTypes : Says(s, type)
  <1> USE DEF SessionTypeOK
  <1>1. ASSUME NEW s \in Streams, NEW type \in EventTypes,
               \/ Send(Event(type, s))
               \/ type = "Log" /\ TrySend(Event(type, s)),
               hello' = hello, Goes(s, type),
               \A t \in Streams \ {s} : handler'[t] = handler[t]
        PROVE  Says(s, type) \/ (UNCHANGED events /\ (~rxOpen \/ type = "Log"))
    BY <1>1 DEF Says, Send, TrySend, Goes
  <1>2. CASE ListenerStep
    BY <1>2 DEF ListenerStep, Connect, ConnectionLost, AcceptStream, Quiet,
                Silent
  <1>3. ASSUME NEW s \in Streams, HandlerSend(s)
        PROVE  Quiet \/ \E type \in EventTypes : Says(s, type)
    <2>1. \E type \in EventTypes : Send(Event(type, s)) /\ Goes(s, type)
      BY <1>3 DEF HandlerSend, SendConnected, SendRpcStreamReady,
                  SendRpcIncoming, SendDisconnected, Step, EventTypes, Goes,
                  Dispatch
    <2>2. hello' = hello /\ \A t \in Streams \ {s} : handler'[t] = handler[t]
      BY <1>3 DEF HandlerSend, SendConnected, SendRpcStreamReady,
                  SendRpcIncoming, SendDisconnected, Step
    <2>3. PICK type \in EventTypes : Send(Event(type, s)) /\ Goes(s, type)
      BY <2>1
    <2>4. type # "Log"
      BY <1>3, <2>3
         DEF Goes, HandlerSend, SendConnected, SendRpcStreamReady,
             SendRpcIncoming, SendDisconnected, Step
    <2> QED
      BY <1>1, <2>2, <2>3, <2>4 DEF Quiet, Silent
  <1>4. ASSUME NEW s \in Streams, HandlerRead(s)
        PROVE  Quiet \/ \E type \in EventTypes : Says(s, type)
    <2>1. CASE ReadLogLine(s)
      <3>1. Goes(s, "Log") /\ "Log" \in EventTypes
        BY <2>1 DEF ReadLogLine, Goes, EventTypes
      <3>2. hello' = hello /\ handler' = handler
        BY <2>1 DEF ReadLogLine
      <3> QED
        BY <1>1, <2>1, <3>1, <3>2 DEF ReadLogLine, Quiet, Silent
    <2>2. CASE \E h \in StreamHello : ReadHello(s, h)
      BY <2>2 DEF ReadHello, Step, Quiet, Silent
    <2>3. CASE ReadEof(s)
      BY <2>3 DEF ReadEof, AfterEof, Reading, Quiet, Silent
    <2>4. CASE ReadError(s)
      BY <2>4 DEF ReadError, Reading, Quiet, Silent
    <2> QED
      BY <1>4, <2>1, <2>2, <2>3, <2>4 DEF HandlerRead
  <1>5. ASSUME NEW s \in Streams, NEW m \in RpcMessage, ReadRpcLine(s, m)
        PROVE  Quiet
    BY <1>5 DEF ReadRpcLine, Step, Quiet, Silent
  <1> QED
    BY <1>2, <1>3, <1>4, <1>5 DEF TransportStep, Transport, PeerMessages

(* What is in the channel is an event.                                      *)
LEMMA QueuedEvent ==
  ASSUME SessionTypeOK, NEW i \in 1..Len(events)
  PROVE  /\ events[i] \in TransportEvent
         /\ events[i].stream \in Streams /\ events[i].node \in NodeIds
  <1>1. events[i] \in TransportEvent
    BY ElementOfSeq DEF SessionTypeOK
  <1> QED
    BY <1>1 DEF TransportEvent

(* What a task says is an event of its own stream and node.                 *)
LEMMA SaidEvent ==
  ASSUME SessionTypeOK, NEW s \in Streams, NEW type \in EventTypes,
         Says(s, type)
  PROVE  /\ hello[s] \in StreamHello
         /\ Event(type, s) \in TransportEvent
         /\ Event(type, s).type = type /\ Event(type, s).stream = s
         /\ Event(type, s).node = hello[s].node
  <1>1. hello[s] \in StreamHello /\ held[s] \in RpcMessage \cup {None}
    BY DEF SessionTypeOK, Says, Goes, TaskOK, Sending
  <1>2. Event(type, s) \in TransportEvent
    BY <1>1, EventType
  <1> QED
    BY <1>1, <1>2 DEF Event

(* Where the events of the channel are after an event is added or taken. *)
LEMMA AppendedEvents ==
  ASSUME SessionTypeOK, NEW e \in TransportEvent, events' = Append(events, e)
  PROVE  /\ Len(events) \in Nat /\ Len(events') = Len(events) + 1
         /\ \A i \in 1..Len(events) : events'[i] = events[i]
         /\ events'[Len(events) + 1] = e
  BY AppendProperties DEF SessionTypeOK

(* What try_recv takes is the first event; the others move up.              *)
LEMMA TakenEvents ==
  ASSUME SessionTypeOK, TryRecv
  PROVE  /\ Len(events) \in Nat \ {0} /\ Len(events') = Len(events) - 1
         /\ \A i \in 1..Len(events') : events'[i] = events[i + 1]
         /\ Head(events) = events[1] /\ events[1] \in TransportEvent
  <1>1. events # << >> /\ events' = Tail(events)
    BY DEF TryRecv
  <1>2. events \in Seq(TransportEvent)
    BY DEF SessionTypeOK
  <1> QED
    BY <1>1, <1>2, HeadTailProperties, LenProperties, EmptySeq

(* Only these steps touch the transport.                                    *)
LEMMA ChannelSteps ==
  ASSUME [Next]_vars
  PROVE  TransportStep \/ Refresh \/ Drop \/ UNCHANGED sessionVars
  BY DEF Next, ManagerStep, UserStep, WriteStep, RefreshDone, NotFound, Local,
         NoStream, Overflow, IssueNothing, Issue, AwaitFinish, EndCall, Report,
         Shutdown, List, Exit, Submit, WriteOk, WriteFail, Closed, vars

(***************************************************************************)
(* The channel tells the truth about the tasks, in order.                  *)
(***************************************************************************)
LEMMA EventsInductive ==
  ASSUME TypeOK, EventsOK, [Next]_vars
  PROVE  EventsOK'
  <1> USE DEF TypeOK
  <1>1. CASE UNCHANGED sessionVars
    BY <1>1 DEF sessionVars, EventsOK, EventOK, Follows, Closes, IsRpc
  <1>2. CASE Drop
    <2>1. events' = << >>
      BY <1>2 DEF Drop, CloseReceiver
    <2>2. Len(events') = 0
      BY <2>1
    <2> QED
      BY <2>2 DEF EventsOK
  <1>3. CASE Refresh
    <2>1. UNCHANGED <<handler, hello>> /\ TryRecv
      BY <1>3 DEF Refresh, TryRecv
    <2>2. ASSUME NEW i \in 1..Len(events')
          PROVE  EventOK(i)'
      <3>1. /\ Len(events) \in Nat \ {0} /\ Len(events') = Len(events) - 1
            /\ \A k \in 1..Len(events') : events'[k] = events[k + 1]
        BY <2>1, TakenEvents
      <3>2. i + 1 \in 1..Len(events) /\ EventOK(i + 1)
        BY <3>1 DEF EventsOK
      <3>3. events'[i] = events[i + 1]
        BY <3>1
      <3>4. ASSUME NEW s \in Streams, Follows(i + 1, "Disconnected", s)
            PROVE  Follows(i, "Disconnected", s)'
        <4>1. PICK j \in (i + 2)..Len(events) :
                events[j].type = "Disconnected" /\ events[j].stream = s
          BY <3>4 DEF Follows
        <4>2. j - 1 \in (i + 1)..Len(events') /\ events'[j - 1] = events[j]
          BY <3>1, <4>1
        <4> QED
          BY <4>1, <4>2 DEF Follows
      <3>5. events[i + 1].stream \in Streams
        BY <3>2, QueuedEvent
      <3> QED
        BY <2>1, <3>2, <3>3, <3>4, <3>5 DEF EventOK, Closes, IsRpc
    <2> QED
      BY <2>2 DEF EventsOK
  <1>4. CASE TransportStep /\ Quiet
    <2>1. ASSUME NEW i \in 1..Len(events)
          PROVE  EventOK(i)'
      <3>1. events' = events /\ EventOK(i) /\ rxOpen
        BY <1>4, <2>1, EmptySeq DEF Quiet, EventsOK, SessionTypeOK
      <3>2. events[i].stream \in Streams
        BY QueuedEvent
      <3>3. Silent(events[i].stream) /\ TaskOK(events[i].stream)
        BY <1>4, <3>2 DEF Quiet, SessionTypeOK
      <3> QED
        BY <3>1, <3>3
           DEF EventOK, Follows, Silent, Announced, Opened, Closes, IsRpc, TaskOK
    <2> QED
      BY <1>4, <2>1 DEF EventsOK, Quiet
  <1>5. ASSUME NEW s \in Streams, NEW type \in EventTypes, Says(s, type)
        PROVE  EventsOK'
    <2>0. PICK n \in Nat : n = Len(events)
      BY LenProperties DEF SessionTypeOK
    <2> DEFINE e == Event(type, s)
    <2>1. /\ e \in TransportEvent /\ hello[s] \in StreamHello
          /\ e.type = type /\ e.stream = s /\ e.node = hello[s].node
      BY <1>5, SaidEvent
    <2>2. /\ n \in Nat /\ Len(events') = n + 1
          /\ \A i \in 1..n : events'[i] = events[i]
          /\ events'[n + 1] = e
      BY <1>5, <2>0, <2>1, AppendedEvents DEF Says
    <2>3. TaskOK(s) /\ Goes(s, type) /\ hello' = hello /\ None \notin StreamHello
      BY <1>5, SessionAssumptions DEF SessionTypeOK, Says
    <2> HIDE DEF e
    <2>4. ASSUME NEW i \in 1..n
          PROVE  EventOK(i)'
      <3>1. EventOK(i) /\ events'[i] = events[i] /\ events[i].stream \in Streams
        BY <2>0, <2>2, QueuedEvent DEF EventsOK
      <3>2. ASSUME NEW t \in Streams, Follows(i, "Disconnected", t)
            PROVE  Follows(i, "Disconnected", t)'
        <4>1. PICK j \in (i + 1)..n :
                events[j].type = "Disconnected" /\ events[j].stream = t
          BY <2>0, <3>2 DEF Follows
        <4>2. j \in (i + 1)..Len(events') /\ events'[j] = events[j]
          BY <2>2, <4>1
        <4> QED
          BY <4>1, <4>2 DEF Follows
      <3>3. CASE events[i].stream # s
        <4>1. handler'[events[i].stream] = handler[events[i].stream]
          BY <1>5, <3>1, <3>3 DEF Says
        <4> QED
          BY <2>3, <3>1, <3>2, <4>1 DEF EventOK, Closes, IsRpc
      <3>4. CASE events[i].stream = s
        <4>1. type # "Connected" /\ handler'[s] \in Announced
              /\ handler[s] # "ended"
          BY <2>3, <3>1, <3>4 DEF EventOK, Announced, Goes
        <4>2. type = "Disconnected" => Follows(i, "Disconnected", s)'
          BY <2>1, <2>2 DEF Follows
        <4>3. handler'[s] = "ended" => type = "Disconnected"
          BY <2>3, <4>1 DEF Goes
        <4> QED
          BY <2>3, <3>1, <3>4, <4>1, <4>2, <4>3
             DEF EventOK, Goes, Opened, Closes, IsRpc
      <3> QED
        BY <3>3, <3>4
    <2>5. EventOK(n + 1)'
      BY <2>1, <2>2, <2>3
         DEF EventOK, Goes, TaskOK, Announced, Opened, Closes, IsRpc
    <2> QED
      BY <2>2, <2>4, <2>5 DEF EventsOK
  <1> QED
    BY <1>1, <1>2, <1>3, <1>4, <1>5, ChannelSteps, TransportEffect

(***************************************************************************)
(* Nodes stay known, and only set_dev_mode changes their dev mode.         *)
(***************************************************************************)
LEMMA DevModeInductive ==
  ASSUME TypeOK, [Next]_vars
  PROVE  DevModeStep
  <1> USE DEF TypeOK, ServiceTypeOK, DevModeStep
  <1>1. CASE UNCHANGED nodes
    BY <1>1, ServiceAssumptions DEF Known
  <1>2. CASE Refresh
    <2>1. Head(events) \in TransportEvent
      BY <1>2, TryRecvType DEF Refresh, SessionTypeOK
    <2> QED
      BY <1>2, <2>1, HandleEventEffect DEF Refresh, NodeTable, Known
  <1>3. CASE Local
    <2>1. cmd \in Command /\ cmd.node \in NodeIds /\ cmd.state \in BOOLEAN
      BY <1>3 DEF Local, Command, ManagerTypeOK, Serving
    <2>2. CASE cmd.op = "set_dev"
      BY <1>3, <2>1, <2>2, SetDevModeLocalEffect, ServiceAssumptions
         DEF Local, ChangesOnly, NodeTable, Known
    <2>3. CASE cmd.op # "set_dev"
      BY <1>1, <1>3, <2>3 DEF Local
    <2> QED
      BY <2>2, <2>3
  <1>4. CASE Report
    <2>1. cmd \in Command /\ cmd.node \in NodeIds
      BY <1>4 DEF Report, Command, ManagerTypeOK, Serving
    <2>2. CASE MarkFailed(cmd.node) /\ Known(cmd.node)
      BY <2>1, <2>2, MarkFailedEffect, ServiceAssumptions
         DEF ChangesOnly, NodeTable, Known
    <2>3. CASE UNCHANGED nodes
      BY <1>1, <2>3
    <2> QED
      BY <1>4, <2>2, <2>3 DEF Report, MarkFailed
  <1>5. CASE Shutdown
    BY <1>5, ServiceShutdownEffect DEF Shutdown, NodeTable
  <1>6. CASE TransportStep \/ UserStep \/ WriteStep \/ Closed
             \/ UNCHANGED vars
    <2>1. UNCHANGED nodes
      BY <1>6 DEF TransportStep, UserStep, List, Exit, Submit, WriteStep,
                  WriteOk, WriteFail, EndCall, Closed, vars, managerSide,
                  serviceVars
    <2> QED
      BY <1>1, <2>1
  <1>7. CASE RefreshDone \/ NotFound \/ NoStream \/ Overflow \/ Issue
             \/ AwaitFinish \/ Drop
    <2>1. UNCHANGED nodes
      BY <1>7 DEF RefreshDone, NotFound, NoStream, Overflow, IssueNothing,
                  Issue, AwaitFinish, EndCall, Drop, serviceVars
    <2> QED
      BY <1>1, <2>1
  <1> QED
    BY <1>2, <1>3, <1>4, <1>5, <1>6, <1>7 DEF Next, ManagerStep

(***************************************************************************)
(* The dev mode of a node is what the last command set it to, and survives *)
(* every disconnection, reconnection and failure.                          *)
(***************************************************************************)
THEOREM DevModeCorrect == Spec => DevModeByCommand
  <1>1. TypeOK /\ [Next]_vars => [DevModeStep]_vars
    BY DevModeInductive
  <1> QED
    BY <1>1, TypeCorrect, PTL DEF Spec, DevModeByCommand

KnownInv == KnownBeforeUse /\ ServedKnown

(***************************************************************************)
(* A node is announced before anything else is said of it.                 *)
(***************************************************************************)
LEMMA KnownInductive ==
  ASSUME TypeOK, EventsOK, KnownInv, [Next]_vars
  PROVE  KnownInv'
  <1> USE DEF TypeOK, KnownInv
  <1>0. /\ \A n \in NodeIds : Known(n) => nodes'[n] # None
        /\ SessionTypeOK'
    BY DevModeInductive, TypeStep DEF DevModeStep, Known
  <1>s. \A s \in Streams : Serves(s) => hello[s].node \in NodeIds
    BY DEF SessionTypeOK, Serves, TaskOK, Sending, StreamHello
  <1>1. CASE UNCHANGED sessionVars
    <2>1. KnownBeforeUse'
      BY <1>0, <1>1, QueuedEvent DEF sessionVars, KnownBeforeUse, Known
    <2>2. ServedKnown'
      BY <1>0, <1>1, <1>s
         DEF sessionVars, ServedKnown, Serves, ConnectedQueued, Known
    <2> QED
      BY <2>1, <2>2
  <1>2. CASE Drop
    <2>1. Len(events') = 0 /\ ~rxOpen'
      BY <1>2 DEF Drop, CloseReceiver
    <2> QED
      BY <2>1 DEF KnownBeforeUse, ServedKnown
  <1>3. CASE Refresh
    <2>1. UNCHANGED <<handler, hello, rxOpen>> /\ TryRecv
      BY <1>3 DEF Refresh, TryRecv
    <2>2. PICK n \in Nat \ {0} : n = Len(events)
      BY <2>1, TakenEvents
    <2>3. /\ Len(events') = n - 1
          /\ \A i \in 1..(n - 1) : events'[i] = events[i + 1]
          /\ Head(events) = events[1] /\ events[1] \in TransportEvent
      BY <2>1, <2>2, TakenEvents
    <2>4. events[1].type = "Connected" => nodes'[events[1].node] # None
      BY <1>3, <2>3, HandleEventEffect
         DEF Refresh, ServiceTypeOK, NodeTable
    <2>5. ASSUME NEW i \in 1..(n - 1)
          PROVE  \/ nodes'[events'[i].node] # None
                 \/ \E j \in 1..i : /\ events'[j].type = "Connected"
                                    /\ events'[j].node = events'[i].node
      <3>1. i + 1 \in 1..n /\ events'[i] = events[i + 1]
            /\ events[i + 1].node \in NodeIds
        BY <2>2, <2>3, QueuedEvent
      <3>2. CASE Known(events[i + 1].node)
        BY <1>0, <3>1, <3>2
      <3>3. CASE \E j \in 1..(i + 1) :
                   /\ events[j].type = "Connected"
                   /\ events[j].node = events[i + 1].node
        <4>1. PICK j \in 1..(i + 1) : /\ events[j].type = "Connected"
                                      /\ events[j].node = events[i + 1].node
          BY <3>3
        <4>2. CASE j = 1
          BY <2>4, <3>1, <4>1, <4>2
        <4>3. CASE j # 1
          <5>1. j - 1 \in 1..i /\ events'[j - 1] = events[j]
            BY <2>3, <4>3
          <5> QED
            BY <3>1, <4>1, <5>1
        <4> QED
          BY <4>2, <4>3
      <3> QED
        BY <2>2, <3>1, <3>2, <3>3 DEF KnownBeforeUse
    <2>6. ASSUME NEW s \in Streams, Serves(s), rxOpen
          PROVE  \/ nodes'[hello[s].node] # None
                 \/ \E j \in 1..(n - 1) : /\ events'[j].type = "Connected"
                                          /\ events'[j].node = hello[s].node
      <3>1. hello[s].node \in NodeIds
        BY <2>6, <1>s
      <3>2. CASE Known(hello[s].node)
        BY <1>0, <3>1, <3>2
      <3>3. CASE ConnectedQueued(hello[s].node)
        <4>1. PICK j \in 1..n : /\ events[j].type = "Connected"
                                /\ events[j].node = hello[s].node
          BY <2>2, <3>3 DEF ConnectedQueued
        <4>2. CASE j = 1
          BY <2>4, <4>1, <4>2
        <4>3. CASE j # 1
          <5>1. j - 1 \in 1..(n - 1) /\ events'[j - 1] = events[j]
            BY <2>3, <4>3
          <5> QED
            BY <4>1, <5>1
        <4> QED
          BY <4>2, <4>3
      <3> QED
        BY <2>6, <3>2, <3>3 DEF ServedKnown
    <2>7. KnownBeforeUse'
      BY <2>3, <2>5 DEF KnownBeforeUse, Known
    <2>8. ServedKnown'
      BY <2>1, <2>3, <2>6 DEF ServedKnown, ConnectedQueued, Serves, Known
    <2> QED
      BY <2>7, <2>8
  <1>4. CASE TransportStep
    <2>0. UNCHANGED <<nodes, rxOpen>>
      <3>1. UNCHANGED <<nodes, pc>>
        BY <1>4 DEF TransportStep, managerSide, managerVars, serviceVars
      <3>2. /\ rxOpen \in BOOLEAN /\ rxOpen' \in BOOLEAN
            /\ rxOpen <=> pc # "closed"
            /\ rxOpen' <=> pc' # "closed"
        BY TypeStep DEF ManagerTypeOK, SessionTypeOK
      <3> QED
        BY <3>1, <3>2
    <2>1. CASE Quiet
      <3>1. events' = events
        BY <2>1 DEF Quiet
      <3>2. KnownBeforeUse'
        BY <2>0, <3>1 DEF KnownBeforeUse, Known
      <3>3. \A s \in Streams : Serves(s)' /\ rxOpen
                                => Serves(s) /\ hello'[s] = hello[s]
        BY <2>1 DEF Quiet, Silent, Serves
      <3> QED
        BY <2>0, <3>1, <3>2, <3>3 DEF ServedKnown, ConnectedQueued, Known
    <2>2. ASSUME NEW s \in Streams, NEW type \in EventTypes, Says(s, type)
          PROVE  KnownInv'
      <3>0. PICK n \in Nat : n = Len(events)
        BY LenProperties DEF SessionTypeOK
      <3>1. PICK e \in TransportEvent :
              /\ e = Event(type, s)
              /\ e.type = type /\ e.stream = s /\ e.node = hello[s].node
        BY <2>2, SaidEvent
      <3>2. /\ Len(events') = n + 1
            /\ \A i \in 1..n : events'[i] = events[i]
            /\ events'[n + 1] = e
        BY <2>2, <3>0, <3>1, AppendedEvents DEF Says
      <3>3. hello' = hello /\ Goes(s, type)
            /\ \A t \in Streams \ {s} : handler'[t] = handler[t]
        BY <2>2 DEF Says
      <3>4. \A k \in NodeIds : ConnectedQueued(k) =>
              \E j \in 1..n : /\ events'[j].type = "Connected"
                             /\ events'[j].node = k
        BY <3>0, <3>2 DEF ConnectedQueued
      <3>5. ASSUME NEW t \in Streams, Serves(t)', rxOpen
            PROVE  \/ nodes[hello[t].node] # None
                   \/ \E j \in 1..(n + 1) : /\ events'[j].type = "Connected"
                                            /\ events'[j].node = hello[t].node
        <4>1. CASE Serves(t)
          BY <3>4, <3>5, <4>1, <1>s DEF ServedKnown, Known
        <4>2. CASE ~Serves(t)
          <5>1. t = s /\ type = "Connected"
            BY <3>3, <3>5, <4>2 DEF Serves, Goes
          <5> QED
            BY <3>1, <3>2, <5>1
        <4> QED
          BY <4>1, <4>2
      <3>6. ServedKnown'
        BY <2>0, <3>2, <3>3, <3>5 DEF ServedKnown, ConnectedQueued, Known
      <3>7. ASSUME NEW i \in 1..(n + 1)
            PROVE  \/ nodes[events'[i].node] # None
                   \/ \E j \in 1..i : /\ events'[j].type = "Connected"
                                      /\ events'[j].node = events'[i].node
        <4>1. CASE i \in 1..n
          BY <3>0, <3>2, <4>1 DEF KnownBeforeUse, Known
        <4>2. CASE i = n + 1 /\ type = "Connected"
          BY <3>1, <3>2, <4>2
        <4>3. CASE i = n + 1 /\ Serves(s)
          BY <3>1, <3>2, <3>4, <4>3, <1>s, <2>2
             DEF ServedKnown, Known, Says
        <4> QED
          BY <3>3, <4>1, <4>2, <4>3 DEF Goes, Serves
      <3>8. KnownBeforeUse'
        BY <2>0, <3>2, <3>7 DEF KnownBeforeUse, Known
      <3> QED
        BY <3>6, <3>8
    <2> QED
      BY <1>4, <2>1, <2>2, TransportEffect
  <1> QED
    BY <1>1, <1>2, <1>3, <1>4, ChannelSteps

(* The facts about events and known nodes hold in every reachable state.    *)
LEMMA SessionsInvariant == Spec => [](TypeOK /\ EventsOK /\ KnownInv)
  <1>1. Init => EventsOK /\ KnownInv
    <2>1. Init => Len(events) = 0
      BY DEF Init, SessionInit
    <2> QED
      BY <2>1 DEF Init, SessionInit, EventsOK, KnownInv, KnownBeforeUse,
                  ServedKnown, Serves
  <1>2. TypeOK /\ EventsOK /\ KnownInv /\ [Next]_vars
          => EventsOK' /\ KnownInv'
    BY EventsInductive, KnownInductive
  <1> QED
    BY <1>1, <1>2, TypeCorrect, PTL DEF Spec

(***************************************************************************)
(* set_rpc_sender, mark_disconnected and the rest never meet a node that   *)
(* is not in the table.                                                    *)
(***************************************************************************)
THEOREM KnownBeforeUseCorrect == Spec => []KnownBeforeUse
  <1>1. KnownInv => KnownBeforeUse
    BY DEF KnownInv
  <1> QED
    BY <1>1, SessionsInvariant, PTL

-----------------------------------------------------------------------------
(* Senders *)

Over(point) == point \in {"drop", "closed"}

(* The commands leave the sessions of the nodes alone. *)
KeepsSessions ==
  /\ UNCHANGED sessionVars
  /\ Over(pc') <=> Over(pc)
  /\ \A n \in NodeIds :
       /\ nodes'[n] # None <=> Known(n)
       /\ Known(n) => /\ nodes'[n].rpc_sender = nodes[n].rpc_sender
                      /\ \/ nodes'[n].status = nodes[n].status
                         \/ nodes'[n].status = "Failed"

(* All other steps keep the sessions of the nodes.                          *)
LEMMA SessionSteps ==
  ASSUME TypeOK, [Next]_vars
  PROVE  TransportStep \/ Refresh \/ Shutdown \/ Drop \/ KeepsSessions
  <1> USE DEF TypeOK, ServiceTypeOK
  <1> SUFFICES ASSUME ~(TransportStep \/ Refresh \/ Shutdown \/ Drop)
               PROVE  KeepsSessions
    OBVIOUS
  <1>1. UNCHANGED sessionVars
    BY ChannelSteps
  <1>2. Over(pc') <=> Over(pc)
    BY DEF Next, ManagerStep, UserStep, WriteStep, RefreshDone, NotFound, Local,
           NoStream, Overflow, IssueNothing, Issue, AwaitFinish, EndCall,
           Report, List, Exit, Submit, WriteOk, WriteFail, Closed, vars, Goto,
           RefreshThen, Over, ManagerTypeOK, Continuations, managerSide,
           managerVars
  <1>3. CASE Local
    <2>1. cmd \in Command /\ cmd.node \in NodeIds /\ cmd.state \in BOOLEAN
      BY <1>3 DEF Local, Command, ManagerTypeOK, Serving
    <2>2. CASE cmd.op = "set_dev"
      BY <1>1, <1>2, <1>3, <2>1, <2>2, SetDevModeLocalEffect,
         ServiceAssumptions
         DEF Local, ChangesOnly, NodeTable, Known, KeepsSessions
    <2>3. CASE cmd.op # "set_dev"
      BY <1>1, <1>2, <1>3, <2>3 DEF Local, KeepsSessions, Known
    <2> QED
      BY <2>2, <2>3
  <1>4. CASE Report
    <2>1. cmd \in Command /\ cmd.node \in NodeIds
      BY <1>4 DEF Report, Command, ManagerTypeOK, Serving
    <2>2. CASE MarkFailed(cmd.node) /\ Known(cmd.node)
      BY <1>1, <1>2, <2>1, <2>2, MarkFailedEffect, ServiceAssumptions
         DEF ChangesOnly, NodeTable, Known, KeepsSessions
    <2>3. CASE UNCHANGED nodes
      BY <1>1, <1>2, <2>3 DEF KeepsSessions, Known
    <2> QED
      BY <1>4, <2>2, <2>3 DEF Report, MarkFailed
  <1>5. CASE ~Local /\ ~Report
    <2>1. UNCHANGED nodes
      BY <1>5 DEF Next, ManagerStep, UserStep, WriteStep, RefreshDone, NotFound,
                  NoStream, Overflow, IssueNothing, Issue, AwaitFinish,
                  EndCall, List, Exit, Submit, WriteOk, WriteFail, Closed,
                  vars, managerSide, serviceVars
    <2> QED
      BY <1>1, <1>2, <2>1 DEF KeepsSessions, Known
  <1> QED
    BY <1>3, <1>4, <1>5

SenderOK == SenderInv /\ NoDanglingSender /\ ShutInv

(***************************************************************************)
(* The send half that a node keeps came with an event of its own stream,   *)
(* and the end of that stream is behind it in the channel.                 *)
(***************************************************************************)
LEMMA SenderInductive ==
  ASSUME TypeOK, EventsOK, KnownInv, SenderOK, [Next]_vars
  PROVE  SenderOK'
  <1> USE DEF TypeOK, SenderOK
  <1>0. None \notin Streams /\ None \notin Node /\ None \notin StreamHello
    BY SessionAssumptions, ServiceAssumptions
  <1>1. CASE KeepsSessions
    <2>1. UNCHANGED <<handler, hello, events>>
      BY <1>1 DEF KeepsSessions, sessionVars
    <2> QED
      BY <1>1, <2>1
         DEF KeepsSessions, Over, SenderInv, NoDanglingSender, ShutInv, IsRpc,
             Known, Queued
  <1>2. CASE Shutdown
    BY <1>0, <1>2, ServiceShutdownEffect
       DEF Shutdown, SenderInv, NoDanglingSender, ShutInv, NodeTable, Known,
           ServiceTypeOK
  <1>3. CASE Drop
    <2>1. pc = "drop" /\ UNCHANGED nodes
      BY <1>3 DEF Drop
    <2> QED
      BY <1>0, <2>1 DEF SenderInv, NoDanglingSender, ShutInv, Known
  <1>4. CASE TransportStep
    <2>0. UNCHANGED <<nodes, pc>>
      BY <1>4 DEF TransportStep, managerSide, managerVars, serviceVars
    <2>1. ShutInv'
      BY <2>0 DEF ShutInv, Known
    <2> SUFFICES ASSUME NEW n \in NodeIds, NEW s \in Streams,
                        nodes[n] # None, nodes[n].rpc_sender = s
                 PROVE  /\ handler'[s] \in Opened
                        /\ hello'[s] = hello[s]
                        /\ handler'[s] = "ended" => Queued("Disconnected", s)'
      BY <2>0, <2>1 DEF SenderInv, NoDanglingSender, IsRpc, Known
    <2>2. /\ handler[s] \in Opened
          /\ hello[s] # None /\ hello[s].node = n /\ hello[s].channel = "rpc"
          /\ handler[s] = "ended" => Queued("Disconnected", s)
      BY DEF SenderInv, NoDanglingSender, IsRpc, Known
    <2>3. rxOpen
      BY <1>0 DEF ShutInv, Known, ManagerTypeOK
    <2>4. TaskOK(s)
      BY DEF SessionTypeOK
    <2>5. CASE Quiet
      BY <2>2, <2>3, <2>4, <2>5 DEF Quiet, Silent, Opened, TaskOK, Queued
    <2>6. ASSUME NEW t \in Streams, NEW type \in EventTypes, Says(t, type)
          PROVE  /\ handler'[s] \in Opened
                 /\ hello'[s] = hello[s]
                 /\ handler'[s] = "ended" => Queued("Disconnected", s)'
      <3>1. PICK e \in TransportEvent :
              e = Event(type, t) /\ e.type = type /\ e.stream = t
        BY <2>6, SaidEvent
      <3>2. /\ Len(events) \in Nat /\ Len(events') = Len(events) + 1
            /\ \A i \in 1..Len(events) : events'[i] = events[i]
            /\ events'[Len(events) + 1] = e
        BY <2>6, <3>1, AppendedEvents DEF Says
      <3>3. hello' = hello /\ Goes(t, type)
            /\ \A u \in Streams \ {t} : handler'[u] = handler[u]
        BY <2>6 DEF Says
      <3>4. Queued("Disconnected", s) => Queued("Disconnected", s)'
        BY <3>2 DEF Queued
      <3>5. t = s /\ type = "Disconnected" => Queued("Disconnected", s)'
        BY <3>1, <3>2 DEF Queued
      <3> QED
        BY <2>2, <3>3, <3>4, <3>5 DEF Goes, Opened
    <2> QED
      BY <1>4, <2>5, <2>6, TransportEffect
  <1>5. CASE Refresh
    <2>1. UNCHANGED <<handler, hello, pc>> /\ TryRecv /\ pc = "refresh"
      BY <1>5 DEF Refresh, TryRecv, managerVars
    <2>2. PICK n \in Nat \ {0} : n = Len(events)
      BY <2>1, TakenEvents
    <2>3. PICK e \in TransportEvent :
            e = events[1] /\ e = Head(events)
      BY <2>1, TakenEvents
    <2>4. /\ Len(events') = n - 1
          /\ \A i \in 1..(n - 1) : events'[i] = events[i + 1]
      BY <2>1, <2>2, TakenEvents
    <2>5. HandleEvent(e)
      BY <1>5, <2>3 DEF Refresh
    <2>6. /\ hello[e.stream] # None /\ hello[e.stream].node = e.node
          /\ e.type = "RpcStreamReady"
               => /\ handler[e.stream] \in Opened
                  /\ hello[e.stream].channel = "rpc"
                  /\ handler[e.stream] = "ended"
                       => Follows(1, "Disconnected", e.stream)
      BY <2>2, <2>3 DEF EventsOK, EventOK
    <2>7. ShutInv'
      BY <2>1 DEF ShutInv
    <2> SUFFICES ASSUME NEW k \in NodeIds, NEW s \in Streams,
                        nodes'[k] # None, nodes'[k].rpc_sender = s
                 PROVE  /\ handler[s] \in Opened
                        /\ hello[s] # None /\ hello[s].node = k
                        /\ hello[s].channel = "rpc"
                        /\ handler[s] = "ended" => Queued("Disconnected", s)'
      BY <2>1, <2>7 DEF SenderInv, NoDanglingSender, IsRpc, Known
    <2>8. e.node \in NodeIds /\ e.stream \in Streams
      BY DEF TransportEvent
    <2>9. \A i \in 2..n : /\ events[i].type = "Disconnected"
                          /\ events[i].stream = s
            => Queued("Disconnected", s)'
      <3>1. ASSUME NEW i \in 2..n, events[i].type = "Disconnected",
                   events[i].stream = s
            PROVE  Queued("Disconnected", s)'
        <4>1. i - 1 \in 1..Len(events') /\ events'[i - 1] = events[i]
          BY <2>4
        <4> QED
          BY <3>1, <4>1 DEF Queued
      <3> QED
        BY <3>1
    <2>10. CASE Known(k) /\ nodes[k].rpc_sender = s
                  /\ ~(e.type = "Disconnected" /\ e.stream = s)
      <3>1. Queued("Disconnected", s) => Queued("Disconnected", s)'
        BY <2>2, <2>3, <2>9, <2>10 DEF Queued
      <3> QED
        BY <2>10, <3>1 DEF SenderInv, NoDanglingSender, IsRpc
    <2>11. CASE e.type = "RpcStreamReady" /\ Known(e.node) /\ k = e.node
      <3>1. s = e.stream
        BY <2>5, <2>11, HandleEventEffect DEF ServiceTypeOK, NodeTable
      <3>2. Follows(1, "Disconnected", s) => Queued("Disconnected", s)'
        BY <2>2, <2>9 DEF Follows
      <3> QED
        BY <2>6, <2>11, <3>1, <3>2
    <2>12. CASE ~(Known(k) /\ nodes[k].rpc_sender = s)
      <3>1. nodes'[k] # nodes[k]
        BY <2>12 DEF Known
      <3>2. k = e.node
        BY <2>5, <3>1, HandleEventEffect DEF ServiceTypeOK, NodeTable
      <3>3. e.type \in EventTypes
        BY DEF TransportEvent
      <3>4. CASE e.type \in {"Connected", "Disconnected"}
        BY <1>0, <2>5, <2>8, <2>12, <3>1, <3>2, <3>4, HandleEventEffect
           DEF ServiceTypeOK, NodeTable
      <3>5. CASE e.type \in {"RpcIncoming", "Log"}
        BY <2>5, <3>1, <3>5, HandleEventEffect DEF ServiceTypeOK, NodeTable
      <3>6. CASE e.type = "RpcStreamReady"
        <4>1. Known(e.node)
          BY <2>5, <3>1, <3>6, HandleEventEffect DEF ServiceTypeOK, NodeTable
        <4> QED
          BY <2>11, <3>2, <3>6, <4>1
      <3> QED
        BY <3>3, <3>4, <3>5, <3>6 DEF EventTypes
    <2>13. CASE Known(k) /\ nodes[k].rpc_sender = s
                  /\ e.type = "Disconnected" /\ e.stream = s
      <3>1. e.node = k
        BY <2>6, <2>13 DEF SenderInv, IsRpc
      <3> QED
        BY <1>0, <2>5, <2>13, <3>1, HandleEventEffect
           DEF ServiceTypeOK, NodeTable
    <2> QED
      BY <2>10, <2>12, <2>13
  <1> QED
    BY <1>1, <1>2, <1>3, <1>4, <1>5, SessionSteps

LiveOK == KeepsSender /\ DisconnectedMeansClosed

(* Only the end of an RPC stream takes a sender away or disconnects.       *)
LEMMA LiveInductive ==
  ASSUME TypeOK, EventsOK, KnownInv, SenderOK, LiveOK, [Next]_vars
  PROVE  LiveOK'
  <1> USE DEF TypeOK, LiveOK
  <1>0. None \notin Streams /\ None \notin Node /\ None \notin StreamHello
    BY SessionAssumptions, ServiceAssumptions
  <1>n. \A s \in Streams : /\ handler[s] \in {"rpc", "incoming"}
                              => hello[s].node \in NodeIds
    BY DEF SessionTypeOK, TaskOK, Sending, StreamHello
  <1>1. CASE KeepsSessions
    <2>1. UNCHANGED <<handler, hello, events>>
      BY <1>1 DEF KeepsSessions, sessionVars
    <2>2. KeepsSender'
      BY <1>1, <1>n, <2>1
         DEF KeepsSessions, Over, KeepsSender, Known, Queued, Closes, IsRpc
    <2>3. DisconnectedMeansClosed'
      BY <1>1, <2>1
         DEF KeepsSessions, Over, DisconnectedMeansClosed, Known, Closes, IsRpc
    <2> QED
      BY <2>2, <2>3
  <1>2. CASE Shutdown \/ Drop
    <2>1. pc' \in {"drop", "closed"}
      BY <1>2 DEF Shutdown, Drop, Goto
    <2> QED
      BY <2>1 DEF KeepsSender, DisconnectedMeansClosed
  <1>3. CASE TransportStep
    <2>0. UNCHANGED <<nodes, pc>>
      BY <1>3 DEF TransportStep, managerSide, managerVars, serviceVars
    <2>1. CASE pc = "closed"
      BY <2>0, <2>1 DEF KeepsSender, DisconnectedMeansClosed
    <2>2. CASE pc # "closed" /\ Quiet
      <3>1. rxOpen /\ events' = events /\ \A s \in Streams : Silent(s)
        BY <2>2 DEF Quiet, ManagerTypeOK
      <3>2. \A s \in Streams : Closes(s) => Closes(s)' /\ hello'[s] = hello[s]
        BY <3>1 DEF Closes, IsRpc, Silent
      <3>3. \A s \in Streams : handler'[s] \in {"rpc", "incoming"} =>
              /\ handler[s] \in {"rpc", "incoming"}
              /\ hello'[s] = hello[s]
        BY <3>1 DEF Silent
      <3>4. DisconnectedMeansClosed'
        BY <2>0, <3>2 DEF DisconnectedMeansClosed, Known
      <3>5. KeepsSender'
        BY <2>0, <3>1, <3>2, <3>3 DEF KeepsSender, Known, Queued
      <3> QED
        BY <3>4, <3>5
    <2>3. ASSUME NEW t \in Streams, NEW type \in EventTypes, Says(t, type)
          PROVE  LiveOK'
      <3>1. PICK e \in TransportEvent :
              e = Event(type, t) /\ e.type = type /\ e.stream = t
        BY <2>3, SaidEvent
      <3>2. /\ Len(events) \in Nat /\ Len(events') = Len(events) + 1
            /\ \A i \in 1..Len(events) : events'[i] = events[i]
            /\ events'[Len(events) + 1] = e
        BY <2>3, <3>1, AppendedEvents DEF Says
      <3>3. hello' = hello /\ Goes(t, type)
            /\ \A u \in Streams \ {t} : handler'[u] = handler[u]
        BY <2>3 DEF Says
      <3>4. \A s \in Streams : Queued("RpcStreamReady", s)
                                => Queued("RpcStreamReady", s)'
        BY <3>2 DEF Queued
      <3>5. type = "RpcStreamReady" => Queued("RpcStreamReady", t)'
        BY <3>1, <3>2 DEF Queued
      <3>6. \A s \in Streams : Closes(s) => Closes(s)'
        BY <3>3 DEF Closes, IsRpc, Goes
      <3>7. \A s \in Streams : handler'[s] \in {"rpc", "incoming"} =>
              \/ handler[s] \in {"rpc", "incoming"}
              \/ s = t /\ type = "RpcStreamReady"
        BY <3>3 DEF Goes
      <3>8. DisconnectedMeansClosed'
        BY <2>0, <3>3, <3>6 DEF DisconnectedMeansClosed, Known
      <3>9. KeepsSender'
        BY <2>0, <3>3, <3>4, <3>5, <3>6, <3>7 DEF KeepsSender, Known
      <3> QED
        BY <3>8, <3>9
    <2> QED
      BY <1>3, <2>1, <2>2, <2>3, TransportEffect
  <1>4. CASE Refresh
    <2>1. UNCHANGED <<handler, hello, pc>> /\ TryRecv /\ pc = "refresh"
      BY <1>4 DEF Refresh, TryRecv, managerVars
    <2>2. PICK n \in Nat \ {0} : n = Len(events)
      BY <2>1, TakenEvents
    <2>3. PICK e \in TransportEvent : e = events[1] /\ e = Head(events)
      BY <2>1, TakenEvents
    <2>4. /\ Len(events') = n - 1
          /\ \A i \in 1..(n - 1) : events'[i] = events[i + 1]
      BY <2>1, <2>2, TakenEvents
    <2>5. HandleEvent(e)
      BY <1>4, <2>3 DEF Refresh
    <2>6. /\ hello[e.stream] # None /\ hello[e.stream].node = e.node
          /\ e.type = "Disconnected" => Closes(e.stream)
      BY <2>2, <2>3 DEF EventsOK, EventOK
    <2>7. Known(e.node) \/ e.type = "Connected"
      BY <2>2, <2>3 DEF KnownInv, KnownBeforeUse
    <2>8. /\ e.node \in NodeIds /\ e.stream \in Streams
          /\ e.type \in EventTypes
      BY DEF TransportEvent
    <2>9. DisconnectedMeansClosed'
      <3> SUFFICES ASSUME NEW k \in NodeIds, nodes'[k] # None,
                          nodes'[k].status = "Disconnected"
                   PROVE  \E s \in Streams : Closes(s) /\ hello[s].node = k
        BY <2>1 DEF DisconnectedMeansClosed, Known, Closes, IsRpc
      <3>1. CASE nodes'[k] = nodes[k] \/ k # e.node
        <4>1. nodes'[k] = nodes[k]
          BY <2>5, <3>1, HandleEventEffect DEF ServiceTypeOK, NodeTable
        <4> QED
          BY <2>1, <4>1 DEF DisconnectedMeansClosed, Known
      <3>2. CASE k = e.node /\ e.type = "Disconnected"
        BY <2>6, <2>8, <3>2
      <3>3. CASE k = e.node /\ e.type = "Connected"
        BY <2>5, <3>3, HandleEventEffect DEF ServiceTypeOK, NodeTable
      <3>4. CASE k = e.node /\ e.type = "RpcStreamReady"
        <4>1. Known(k) /\ nodes[k].status = "Disconnected"
          BY <2>5, <2>7, <3>4, HandleEventEffect DEF ServiceTypeOK, NodeTable
        <4> QED
          BY <2>1, <4>1 DEF DisconnectedMeansClosed
      <3>5. CASE e.type \in {"RpcIncoming", "Log"}
        BY <2>5, <3>1, <3>5, HandleEventEffect DEF ServiceTypeOK, NodeTable
      <3> QED
        BY <2>8, <3>1, <3>2, <3>3, <3>4, <3>5 DEF EventTypes
    <2>10. KeepsSender'
      <3> SUFFICES ASSUME NEW s \in Streams,
                          handler[s] \in {"rpc", "incoming"},
                          ~\E t \in Streams : /\ Closes(t)
                                             /\ hello[t].node = hello[s].node,
                          ~Queued("RpcStreamReady", s)'
                   PROVE  /\ nodes'[hello[s].node] # None
                          /\ nodes'[hello[s].node].rpc_sender # None
        BY <2>1 DEF KeepsSender, Known, Closes, IsRpc
      <3>1. \/ Queued("RpcStreamReady", s)
            \/ /\ Known(hello[s].node)
               /\ nodes[hello[s].node].rpc_sender # None
        BY <2>1 DEF KeepsSender
      <3>2. hello[s].node \in NodeIds
        BY <1>n
      <3>3. e.type = "Disconnected" => e.node # hello[s].node
        BY <2>6, <2>8
      <3>4. CASE /\ Known(hello[s].node)
                 /\ nodes[hello[s].node].rpc_sender # None
        <4>1. CASE e.node # hello[s].node
          BY <2>5, <3>2, <3>4, <4>1, HandleEventEffect
             DEF ServiceTypeOK, NodeTable, Known
        <4>2. CASE e.node = hello[s].node /\ e.type = "Connected"
          BY <2>5, <3>4, <4>2, HandleEventEffect DEF ServiceTypeOK, NodeTable
        <4>3. CASE e.node = hello[s].node /\ e.type = "RpcStreamReady"
          BY <1>0, <2>5, <2>8, <3>4, <4>3, HandleEventEffect
             DEF ServiceTypeOK, NodeTable
        <4>4. CASE e.type \in {"RpcIncoming", "Log"}
          BY <2>5, <3>4, <4>4, HandleEventEffect
             DEF ServiceTypeOK, NodeTable, Known
        <4> QED
          BY <2>8, <3>3, <4>1, <4>2, <4>3, <4>4 DEF EventTypes
      <3>5. CASE Queued("RpcStreamReady", s)
        <4>1. PICK j \in 1..n : /\ events[j].type = "RpcStreamReady"
                                /\ events[j].stream = s
          BY <2>2, <3>5 DEF Queued
        <4>2. j = 1
          <5>1. SUFFICES ASSUME j # 1
                         PROVE  FALSE
            OBVIOUS
          <5>2. j - 1 \in 1..Len(events') /\ events'[j - 1] = events[j]
            BY <2>4, <5>1
          <5> QED
            BY <4>1, <5>2 DEF Queued
        <4>3. e.type = "RpcStreamReady" /\ e.stream = s /\ Known(e.node)
          BY <2>3, <2>7, <4>1, <4>2
        <4>4. /\ nodes'[e.node] # None
              /\ nodes'[e.node].rpc_sender = s
          BY <2>5, <4>3, HandleEventEffect DEF ServiceTypeOK, NodeTable
        <4> QED
          BY <1>0, <2>6, <4>3, <4>4
      <3> QED
        BY <3>1, <3>4, <3>5
    <2> QED
      BY <2>9, <2>10
  <1> QED
    BY <1>1, <1>2, <1>3, <1>4, SessionSteps

-----------------------------------------------------------------------------
(* The inductive invariant *)

(***************************************************************************)
(* All of it together: the formula that the runs check is an invariant.    *)
(***************************************************************************)
THEOREM Invariance == Spec => []IInv
  <1>1. IInv <=> TypeOK /\ CallsOK /\ EventsOK /\ KnownInv /\ SenderOK /\ LiveOK
    BY DEF IInv, CallsOK, KnownInv, SenderOK, LiveOK
  <1>2. Init => SenderOK /\ LiveOK
    BY DEF Init, SessionInit, ServiceInit, SenderOK, LiveOK, SenderInv,
           NoDanglingSender, ShutInv, KeepsSender,
           DisconnectedMeansClosed, Known
  <1>3. /\ TypeOK /\ CallsOK /\ EventsOK /\ KnownInv /\ SenderOK /\ LiveOK
        /\ [Next]_vars
        => SenderOK' /\ LiveOK'
    BY SenderInductive, LiveInductive
  <1> QED
    BY <1>1, <1>2, <1>3, CallsInvariant, SessionsInvariant, PTL DEF Spec

(***************************************************************************)
(* A node never keeps the send half of a stream that closed cleanly unless *)
(* the Disconnected that takes it away is in the channel.                  *)
(***************************************************************************)
THEOREM NoDanglingSenderCorrect == Spec => []NoDanglingSender
  <1>1. IInv => NoDanglingSender
    BY DEF IInv
  <1> QED
    BY <1>1, Invariance, PTL

(* A sender that is kept is that of a stream of the node; if none of these  *)
(* is lost, it is alive.                                                    *)
LEMMA KeptIsUsable == IInv => LiveStreamUsable
  <1> SUFFICES ASSUME IInv,
                      NEW s \in Streams,
                      handler[s] \in {"rpc", "incoming"},
                      pc \notin {"drop", "closed"},
                      ~\E t \in Streams : /\ IsRpc(t) /\ Lost(t)
                                         /\ hello[t].node = hello[s].node,
                      ~Queued("RpcStreamReady", s)
               PROVE  Known(hello[s].node) /\ Callable(hello[s].node)
    BY DEF LiveStreamUsable
  <1> DEFINE n == hello[s].node
  <1>1. TypeOK /\ KeepsSender /\ SenderInv
    BY DEF IInv
  <1>2. n \in NodeIds
    BY <1>1 DEF TypeOK, SessionTypeOK, TaskOK, Sending, StreamHello
  <1>3. ~\E t \in Streams : Closes(t) /\ hello[t].node = n
    BY DEF Closes, IsRpc, Lost
  <1>4. Known(n) /\ nodes[n].rpc_sender # None
    BY <1>1, <1>3 DEF KeepsSender
  <1>5. PICK t \in Streams : nodes[n].rpc_sender = t
    BY <1>1, <1>2, <1>4 DEF TypeOK, ServiceTypeOK, Known, Node
  <1>6. handler[t] \in Opened /\ IsRpc(t) /\ hello[t].node = n
    BY <1>1, <1>2, <1>4, <1>5 DEF SenderInv
  <1>7. ~Lost(t)
    BY <1>6
  <1>8. handler[t] \in {"rpc", "incoming"} /\ conn[ConnOf[t]] # "down"
    BY <1>6, <1>7 DEF Lost, Opened
  <1>9. conn[ConnOf[t]] = "up"
    BY <1>1, <1>8, SessionAssumptions DEF TypeOK, SessionTypeOK, TaskOK
  <1> QED
    BY <1>4, <1>5, <1>6, <1>8, <1>9 DEF Callable

(***************************************************************************)
(* A node with an RPC stream, none of whose RPC streams is lost, keeps the *)
(* send half of one of them that is served and whose connection is up.     *)
(***************************************************************************)
THEOREM LiveStreamUsableCorrect == Spec => []LiveStreamUsable
  BY KeptIsUsable, Invariance, PTL

(***************************************************************************)
(* A node is disconnected only by the end of an RPC stream of its own.     *)
(***************************************************************************)
THEOREM DisconnectedCorrect == Spec => []DisconnectedMeansClosed
  <1>1. IInv => DisconnectedMeansClosed
    BY DEF IInv
  <1> QED
    BY <1>1, Invariance, PTL

=============================================================================
