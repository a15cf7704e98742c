------------------------------ MODULE Session ------------------------------
(***************************************************************************)
(* The transport half of the node subsystem: the QUIC listener             *)
(* (node/session/listener.rs), the task that serves each bidirectional     *)
(* stream (node/session/handlers.rs) and the bounded channel of            *)
(* TransportEvents through which those tasks reach the NodeManager         *)
(* (node/mod.rs).  The peers (the nodes) are external: what they put on a  *)
(* stream is an input.                                                     *)
(*                                                                         *)
(* A handler task is a small program; handler[s] is its program counter:   *)
(*   "none"      the stream has not been accepted                          *)
(*   "hello"     waiting for the first line                                *)
(*   "connected" about to send Connected       (blocks on a full channel)  *)
(*   "ready"     about to send RpcStreamReady  (blocks on a full channel)  *)
(*   "rpc"       waiting for an RPC line                                   *)
(*   "incoming"  about to send RpcIncoming     (blocks on a full channel)  *)
(*   "eof"       about to send Disconnected    (blocks on a full channel)  *)
(*   "log"       waiting for a log line                                    *)
(*   "ended"     the task returned Ok                                      *)
(*   "failed"    the task returned Err                                     *)
(***************************************************************************)
EXTENDS Naturals, Sequences

CONSTANTS
  NodeIds,     \* the node ids that peers announce
  Conns,       \* QUIC connections that may come in
  Streams,     \* bidirectional streams that may be opened on them
  ConnOf,      \* the connection that carries each stream
  RequestIds,  \* the values of request_id that messages carry
  ChanCap,     \* capacity of the event channel (1024 in the code)
  None         \* the absent value (Option::None)

VARIABLES
  conn,      \* state of each connection
  handler,   \* program counter of the task serving each stream
  hello,     \* the StreamHello read from each stream
  held,      \* the RpcMessage a task has decoded and not yet sent on
  events,    \* the mpsc channel of TransportEvents, oldest first
  rxOpen     \* the receiving half of the channel exists

sessionVars == <<conn, handler, hello, held, events, rxOpen>>

-----------------------------------------------------------------------------
(* Data *)

Channels == {"rpc", "log", "other"}
StreamHello == [node : NodeIds, channel : Channels]

(* An RpcMessage: whether it names a method, and its request_id. *)
RpcMessage == [method : BOOLEAN, id : RequestIds \cup {None}]

ASSUME SessionAssumptions ==
  /\ ConnOf \in [Streams -> Conns]
  /\ ChanCap \in Nat \ {0}
  /\ None \notin Streams \cup StreamHello \cup RequestIds \cup RpcMessage

EventTypes ==
  {"Connected", "RpcStreamReady", "RpcIncoming", "Log", "Disconnected"}

(***************************************************************************)
(* "stream" is the handle that Connected (its connection) and              *)
(* RpcStreamReady (its send half) carry; in the other events it is         *)
(* provenance that the properties use and no consumer reads.               *)
(***************************************************************************)
TransportEvent ==
  [type : EventTypes, node : NodeIds, stream : Streams,
   msg : RpcMessage \cup {None}]

HandlerStates ==
  {"none", "hello", "connected", "ready", "rpc", "incoming", "eof", "log",
   "ended", "failed"}

(* The states in which a task waits for its peer, and for the channel. *)
Reading == {"hello", "rpc", "log"}
Sending == {"connected", "ready", "incoming", "eof"}

Event(type, s) ==
  [type |-> type, node |-> hello[s].node, stream |-> s, msg |-> held[s]]

-----------------------------------------------------------------------------
(* The event channel *)

(* Mutants: the channel is unbounded; or a task waits for one place more. *)
SendUnbounded(e) ==
  events' = IF rxOpen THEN Append(events, e) ELSE events

SendOneShort(e) ==
  IF rxOpen
  THEN /\ Len(events) + 1 < ChanCap
       /\ events' = Append(events, e)
  ELSE UNCHANGED events

(* event_tx.send(e).await.ok(): waits for room; no effect once closed. *)
Send(e) ==
  IF rxOpen
  THEN /\ Len(events) < ChanCap
       /\ events' = Append(events, e)
  ELSE UNCHANGED events

(* event_tx.try_send(e): the event is dropped when there is no room. *)
TrySend(e) ==
  events' = IF rxOpen /\ Len(events) < ChanCap
            THEN Append(events, e) ELSE events

(* transport_rx.try_recv() returning an event. *)
TryRecv ==
  /\ rxOpen
  /\ events # << >>
  /\ events' = Tail(events)
  /\ UNCHANGED <<conn, handler, hello, held, rxOpen>>

(* The receiver is dropped, with what the channel holds. *)
CloseReceiver ==
  /\ rxOpen
  /\ rxOpen' = FALSE
  /\ events' = << >>
  /\ UNCHANGED <<conn, handler, hello, held>>

-----------------------------------------------------------------------------
(* The listener *)

SessionInit ==
  /\ conn = [c \in Conns |-> "none"]
  /\ handler = [s \in Streams |-> "none"]
  /\ hello = [s \in Streams |-> None]
  /\ held = [s \in Streams |-> None]
  /\ events = << >>
  /\ rxOpen = TRUE

(* An incoming connection is established, or fails to be. *)
Connect(c) ==
  /\ conn[c] = "none"
  /\ conn' \in {[conn EXCEPT ![c] = "up"], [conn EXCEPT ![c] = "down"]}
  /\ UNCHANGED <<handler, hello, held, events, rxOpen>>

(* The connection closes; accept_bi fails and its accept loop ends. *)
ConnectionLost(c) ==
  /\ conn[c] = "up"
  /\ conn' = [conn EXCEPT ![c] = "down"]
  /\ UNCHANGED <<handler, hello, held, events, rxOpen>>

(* accept_bi returns a stream and a task is spawned for it. *)
AcceptStream(s) ==
  /\ handler[s] = "none"
  /\ conn[ConnOf[s]] = "up"
  /\ handler' = [handler EXCEPT ![s] = "hello"]
  /\ UNCHANGED <<conn, hello, held, events, rxOpen>>

-----------------------------------------------------------------------------
(* The stream tasks.  What a peer has sent can be read from the buffers of  *)
(* the stream after its connection is gone, so reads do not look at conn.   *)

Step(s, from, to) ==
  /\ handler[s] = from
  /\ handler' = [handler EXCEPT ![s] = to]

(* The first line decodes as a StreamHello. *)
ReadHello(s, h) ==
  /\ Step(s, "hello", "connected")
  /\ hello' = [hello EXCEPT ![s] = h]
  /\ UNCHANGED <<conn, held, events, rxOpen>>

(* Where handle_stream goes once the node is announced. *)
Dispatch(channel) ==
  CASE channel = "rpc" -> "ready"
    [] channel = "log" -> "log"
    [] OTHER           -> "failed"

(* Mutant: the node is announced only if there is room. *)
SendConnectedLossy(s) ==
  /\ Step(s, "connected", Dispatch(hello[s].channel))
  /\ TrySend(Event("Connected", s))
  /\ UNCHANGED <<conn, hello, held, rxOpen>>

SendConnected(s) ==
  /\ Step(s, "connected", Dispatch(hello[s].channel))
  /\ Send(Event("Connected", s))
  /\ UNCHANGED <<conn, hello, held, rxOpen>>

SendRpcStreamReady(s) ==
  /\ Step(s, "ready", "rpc")
  /\ Send(Event("RpcStreamReady", s))
  /\ UNCHANGED <<conn, hello, held, rxOpen>>

(* A line of the RPC stream that decodes as m is kept until it is sent on.  *)
(* A line that does not decode is skipped: the loop only comes round again. *)
ReadRpcLine(s, m) ==
  /\ Step(s, "rpc", "incoming")
  /\ held' = [held EXCEPT ![s] = m]
  /\ UNCHANGED <<conn, hello, events, rxOpen>>

(* Mutant: a message is forwarded only if there is room. *)
SendRpcIncomingLossy(s) ==
  /\ Step(s, "incoming", "rpc")
  /\ TrySend(Event("RpcIncoming", s))
  /\ held' = [held EXCEPT ![s] = None]
  /\ UNCHANGED <<conn, hello, rxOpen>>

SendRpcIncoming(s) ==
  /\ Step(s, "incoming", "rpc")
  /\ Send(Event("RpcIncoming", s))
  /\ held' = [held EXCEPT ![s] = None]
  /\ UNCHANGED <<conn, hello, rxOpen>>

(* Every line of a log stream becomes a Log event, or is dropped. *)
ReadLogLine(s) ==
  /\ handler[s] = "log"
  /\ TrySend(Event("Log", s))
  /\ UNCHANGED <<conn, handler, hello, held, rxOpen>>

(* Mutant: the end of a log stream is reported too. *)
AfterEofAlways(state) == IF state = "hello" THEN "ended" ELSE "eof"

(* read_line returns 0: only the RPC stream has something left to do. *)
AfterEof(state) == IF state = "rpc" THEN "eof" ELSE "ended"

ReadEof(s) ==
  /\ handler[s] \in Reading
  /\ handler' = [handler EXCEPT ![s] = AfterEof(@)]
  /\ UNCHANGED <<conn, hello, held, events, rxOpen>>

(* A reset or lost stream, or a hello that does not decode: `?` returns. *)
ReadError(s) ==
  /\ handler[s] \in Reading
  /\ handler' = [handler EXCEPT ![s] = "failed"]
  /\ UNCHANGED <<conn, hello, held, events, rxOpen>>

SendDisconnected(s) ==
  /\ Step(s, "eof", "ended")
  /\ Send(Event("Disconnected", s))
  /\ UNCHANGED <<conn, hello, held, rxOpen>>

-----------------------------------------------------------------------------
(* Composition *)

ListenerStep ==
  \/ \E c \in Conns : Connect(c) \/ ConnectionLost(c)
  \/ \E s \in Streams : AcceptStream(s)

(* What the task of stream s does on its own: it waits for the channel only. *)
HandlerSend(s) ==
  \/ SendConnected(s)
  \/ SendRpcStreamReady(s)
  \/ SendRpcIncoming(s)
  \/ SendDisconnected(s)

(* What the task of stream s does when its peer moves, but RPC lines. *)
HandlerRead(s) ==
  \/ \E h \in StreamHello : ReadHello(s, h)
  \/ ReadLogLine(s)
  \/ ReadEof(s)
  \/ ReadError(s)

SessionNext ==
  \/ ListenerStep
  \/ \E s \in Streams : HandlerSend(s) \/ HandlerRead(s)
  \/ \E s \in Streams, m \in RpcMessage : ReadRpcLine(s, m)
  \/ TryRecv
  \/ CloseReceiver

SessionSpec == SessionInit /\ [][SessionNext]_sessionVars

-----------------------------------------------------------------------------
(***************************************************************************)
(* Type invariant: a task serves a stream of a connection that came up;    *)
(* past its hello it knows the node it serves; it holds a message exactly  *)
(* while it forwards one; and the channel never exceeds its capacity, nor  *)
(* holds anything once its receiver is gone.                               *)
(***************************************************************************)
TaskOK(s) ==
  /\ handler[s] # "none" => conn[ConnOf[s]] # "none"
  /\ handler[s] \in Sending \cup {"rpc", "log"} => hello[s] \in StreamHello
  /\ handler[s] \in {"ready", "rpc", "incoming", "eof"}
       => hello[s].channel = "rpc"
  /\ handler[s] = "log" => hello[s].channel = "log"
  /\ handler[s] \in {"none", "hello"} => hello[s] = None
  /\ handler[s] = "incoming" <=> held[s] # None

SessionTypeOK ==
  /\ conn \in [Conns -> {"none", "up", "down"}]
  /\ handler \in [Streams -> HandlerStates]
  /\ hello \in [Streams -> StreamHello \cup {None}]
  /\ held \in [Streams -> RpcMessage \cup {None}]
  /\ events \in Seq(TransportEvent)
  /\ Len(events) <= ChanCap
  /\ rxOpen \in BOOLEAN
  /\ rxOpen \/ events = << >>
  /\ \A s \in Streams : TaskOK(s)

=============================================================================
