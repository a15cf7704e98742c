--------------------------- MODULE SessionProofs ---------------------------
(***************************************************************************)
(* Proofs about the transport, for any number of connections, streams and  *)
(* nodes and any capacity of the channel: its type invariant, and that it  *)
(* feeds the manager as StreamFeed promises.                               *)
(***************************************************************************)
EXTENDS SessionFeed, FilterProofs

(* The channel stays a sequence of events within its capacity. *)
LEMMA EventType ==
  ASSUME NEW s \in Streams, NEW type \in EventTypes,
         hello[s] \in StreamHello, held[s] \in RpcMessage \cup {None}
  PROVE  Event(type, s) \in TransportEvent
  BY DEF Event, TransportEvent, StreamHello

(* Sending an event keeps the channel within its capacity.                  *)
LEMMA SendType ==
  ASSUME NEW e \in TransportEvent,
         events \in Seq(TransportEvent), Len(events) <= ChanCap,
         Send(e) \/ TrySend(e)
  PROVE  /\ events' \in Seq(TransportEvent) /\ Len(events') <= ChanCap
         /\ ~rxOpen => events' = events
  <1> USE SessionAssumptions
  <1>1. CASE events' = events
    BY <1>1
  <1>2. CASE events' = Append(events, e) /\ Len(events) < ChanCap /\ rxOpen
    BY <1>2
  <1> QED
    BY <1>1, <1>2 DEF Send, TrySend

(* What try_recv returns is an event, and the rest a channel.               *)
LEMMA TryRecvType ==
  ASSUME events \in Seq(TransportEvent), Len(events) <= ChanCap, TryRecv
  PROVE  /\ events' \in Seq(TransportEvent) /\ Len(events') <= ChanCap
         /\ Head(events) \in TransportEvent
  <1>1. events # << >> /\ events' = Tail(events)
    BY DEF TryRecv
  <1>2. Tail(events) \in Seq(TransportEvent) /\ Head(events) \in TransportEvent
        /\ Len(Tail(events)) = Len(events) - 1 /\ Len(events) \in Nat
    BY <1>1, HeadTailProperties, LenProperties
  <1> QED
    BY <1>1, <1>2, SessionAssumptions

-----------------------------------------------------------------------------
(***************************************************************************)
(* Every step of the transport keeps the types: a task that announces a    *)
(* node has read which one it is, only RPC streams come to be ready, and   *)
(* the channel never holds more than its capacity.                         *)
(***************************************************************************)
LEMMA SessionStepType == SessionTypeOK /\ [SessionNext]_sessionVars => SessionTypeOK'
  <1> SUFFICES ASSUME SessionTypeOK, [SessionNext]_sessionVars
               PROVE  SessionTypeOK'
    OBVIOUS
  <1> USE SessionAssumptions DEF SessionTypeOK
  <1>1. CASE UNCHANGED sessionVars
    BY <1>1 DEF sessionVars, TaskOK
  <1>2. ASSUME NEW c \in Conns, Connect(c) \/ ConnectionLost(c)
        PROVE  SessionTypeOK'
    BY <1>2 DEF Connect, ConnectionLost, TaskOK
  <1>3. ASSUME NEW s \in Streams, AcceptStream(s)
        PROVE  SessionTypeOK'
    BY <1>3 DEF AcceptStream, TaskOK, Sending, HandlerStates
  <1>4. ASSUME NEW s \in Streams, HandlerSend(s)
        PROVE  SessionTypeOK'
    <2>1. TaskOK(s) /\ handler[s] \in Sending
      BY <1>4 DEF HandlerSend, SendConnected, SendRpcStreamReady,
                  SendRpcIncoming, SendDisconnected, Step, Sending
    <2>2. hello[s] \in StreamHello
      BY <2>1 DEF TaskOK
    <2>3. \A type \in EventTypes : Event(type, s) \in TransportEvent
      BY <2>2, EventType
    <2>4. \A type \in EventTypes :
            Send(Event(type, s))
              => /\ events' \in Seq(TransportEvent) /\ Len(events') <= ChanCap
                 /\ ~rxOpen => events' = events
      BY <2>3, SendType
    <2>5. CASE SendConnected(s)
      <3>1. /\ events' \in Seq(TransportEvent) /\ Len(events') <= ChanCap
            /\ ~rxOpen => events' = events
        BY <2>4, <2>5 DEF SendConnected, EventTypes
      <3>2. /\ Dispatch(hello[s].channel) \in {"ready", "log", "failed"}
            /\ Dispatch(hello[s].channel) = "ready" => hello[s].channel = "rpc"
            /\ Dispatch(hello[s].channel) = "log" => hello[s].channel = "log"
        BY DEF Dispatch
      <3> QED
        BY <2>1, <2>2, <2>5, <3>1, <3>2
           DEF SendConnected, Step, TaskOK, Sending, HandlerStates
    <2>6. CASE SendRpcStreamReady(s)
      <3>1. /\ events' \in Seq(TransportEvent) /\ Len(events') <= ChanCap
            /\ ~rxOpen => events' = events
        BY <2>4, <2>6 DEF SendRpcStreamReady, EventTypes
      <3> QED
        BY <2>1, <2>2, <2>6, <3>1
           DEF SendRpcStreamReady, Step, TaskOK, Sending, HandlerStates
    <2>7. CASE SendRpcIncoming(s)
      <3>1. /\ events' \in Seq(TransportEvent) /\ Len(events') <= ChanCap
            /\ ~rxOpen => events' = events
        BY <2>4, <2>7 DEF SendRpcIncoming, EventTypes
      <3> QED
        BY <2>1, <2>2, <2>7, <3>1
           DEF SendRpcIncoming, Step, TaskOK, Sending, HandlerStates
    <2>8. CASE SendDisconnected(s)
      <3>1. /\ events' \in Seq(TransportEvent) /\ Len(events') <= ChanCap
            /\ ~rxOpen => events' = events
        BY <2>4, <2>8 DEF SendDisconnected, EventTypes
      <3> QED
        BY <2>1, <2>2, <2>8, <3>1
           DEF SendDisconnected, Step, TaskOK, Sending, HandlerStates
    <2> QED
      BY <1>4, <2>5, <2>6, <2>7, <2>8 DEF HandlerSend
  <1>5. ASSUME NEW s \in Streams, HandlerRead(s)
        PROVE  SessionTypeOK'
    <2>1. ASSUME NEW h \in StreamHello, ReadHello(s, h)
          PROVE  SessionTypeOK'
      BY <2>1 DEF ReadHello, Step, TaskOK, Sending, HandlerStates
    <2>2. CASE ReadLogLine(s)
      <3>1. Event("Log", s) \in TransportEvent
        BY <2>2, EventType DEF ReadLogLine, TaskOK, EventTypes
      <3>2. /\ events' \in Seq(TransportEvent) /\ Len(events') <= ChanCap
            /\ ~rxOpen => events' = events
        BY <2>2, <3>1, SendType DEF ReadLogLine
      <3> QED
        BY <2>2, <3>2 DEF ReadLogLine, TaskOK
    <2>3. CASE ReadEof(s)
      BY <2>3 DEF ReadEof, AfterEof, Reading, TaskOK, Sending, HandlerStates
    <2>4. CASE ReadError(s)
      BY <2>4 DEF ReadError, Reading, TaskOK, Sending, HandlerStates
    <2> QED
      BY <1>5, <2>1, <2>2, <2>3, <2>4 DEF HandlerRead
  <1>6. ASSUME NEW s \in Streams, NEW m \in RpcMessage, ReadRpcLine(s, m)
        PROVE  SessionTypeOK'
    BY <1>6 DEF ReadRpcLine, Step, TaskOK, Sending, HandlerStates
  <1>7. CASE TryRecv
    <2>1. events' \in Seq(TransportEvent) /\ Len(events') <= ChanCap
      BY <1>7, TryRecvType
    <2> QED
      BY <1>7, <2>1 DEF TryRecv, TaskOK
  <1>8. CASE CloseReceiver
    <2>1. events' \in Seq(TransportEvent) /\ Len(events') <= ChanCap
      BY <1>8, EmptySeq DEF CloseReceiver
    <2> QED
      BY <1>8, <2>1 DEF CloseReceiver, TaskOK
  <1> QED
    BY <1>1, <1>2, <1>3, <1>4, <1>5, <1>6, <1>7, <1>8
       DEF SessionNext, ListenerStep

(***************************************************************************)
(* The type invariant of the transport.                                    *)
(***************************************************************************)
THEOREM SessionTypeCorrect == SessionSpec => []SessionTypeOK
  <1>1. SessionInit => SessionTypeOK
    BY SessionAssumptions
       DEF SessionInit, SessionTypeOK, TaskOK, HandlerStates, Sending
  <1> QED
    BY <1>1, SessionStepType, PTL DEF SessionSpec

-----------------------------------------------------------------------------
(* What the manager is told *)

FeedItem == {Item(e) : e \in TransportEvent}

(* The items of a sequence of events, as it grows at its end and shrinks at *)
(* its front.                                                               *)
LEMMA ItemsType ==
  ASSUME NEW q \in Seq(TransportEvent)
  PROVE  Items(q) \in Seq(FeedItem) /\ Len(Items(q)) = Len(q)
  <1>1. \A i \in 1..Len(q) : Item(q[i]) \in FeedItem
    BY ElementOfSeq DEF FeedItem
  <1> DEFINE n == Len(q)
  <1>2. n \in Nat
    OBVIOUS
  <1> HIDE DEF n
  <1> QED
    BY <1>1, <1>2 DEF Items, n

(* What is sent last is told last, *)
LEMMA ItemsAppend ==
  ASSUME NEW q \in Seq(TransportEvent), NEW e \in TransportEvent
  PROVE  Items(Append(q, e)) = Append(Items(q), Item(e))
  <1> DEFINE r == Append(q, e)
             n == Len(q)
  <1>1. /\ r \in Seq(TransportEvent) /\ Len(r) = n + 1 /\ n \in Nat
        /\ r[n + 1] = e /\ \A i \in 1..n : r[i] = q[i]
    OBVIOUS
  <1>2. Items(q) \in Seq(FeedItem) /\ Len(Items(q)) = n /\ Item(e) \in FeedItem
    BY ItemsType DEF FeedItem
  <1>3. Items(r) \in Seq(FeedItem) /\ Len(Items(r)) = n + 1
    BY <1>1, ItemsType
  <1>4. \A i \in 1..n : Items(q)[i] = Item(q[i])
    BY DEF Items
  <1> HIDE DEF r
  <1>5. \A i \in 1..n + 1 : Items(r)[i] = Item(r[i])
    BY <1>1 DEF Items
  <1> DEFINE I == Items(q)
             J == Items(r)
             k == Item(e)
  <1>6. I \in Seq(FeedItem) /\ J \in Seq(FeedItem) /\ k \in FeedItem
        /\ Len(I) = n /\ Len(J) = n + 1 /\ J[n + 1] = k
        /\ \A i \in 1..n : J[i] = I[i]
    BY <1>1, <1>2, <1>3, <1>4, <1>5
  <1> HIDE DEF I, J, k, n
  <1>7. J = Append(I, k)
    BY <1>1, <1>6
  <1> QED
    BY <1>7 DEF I, J, k, r

(* what is taken first was told first, *)
LEMMA ItemsTail ==
  ASSUME NEW q \in Seq(TransportEvent), q # << >>
  PROVE  Items(q) # << >> /\ Items(Tail(q)) = Tail(Items(q))
  <1> DEFINE r == Tail(q)
             n == Len(q)
  <1>1. /\ r \in Seq(TransportEvent) /\ Len(r) = n - 1 /\ n \in Nat \ {0}
        /\ \A i \in 1..n - 1 : r[i] = q[i + 1]
    OBVIOUS
  <1>2. Items(q) \in Seq(FeedItem) /\ Len(Items(q)) = n
    BY ItemsType
  <1>3. Items(r) \in Seq(FeedItem) /\ Len(Items(r)) = n - 1
    BY <1>1, ItemsType
  <1>4. \A i \in 1..n : Items(q)[i] = Item(q[i])
    BY DEF Items
  <1> HIDE DEF r
  <1>5. \A i \in 1..n - 1 : Items(r)[i] = Item(r[i])
    BY <1>1 DEF Items
  <1> DEFINE I == Items(q)
             J == Items(r)
  <1>6. I \in Seq(FeedItem) /\ J \in Seq(FeedItem)
        /\ Len(I) = n /\ Len(J) = n - 1
        /\ \A i \in 1..n - 1 : J[i] = I[i + 1]
    BY <1>1, <1>2, <1>3, <1>4, <1>5
  <1> HIDE DEF I, J, n
  <1>7. I # << >> /\ J = Tail(I)
    BY <1>1, <1>6
  <1> QED
    BY <1>7 DEF I, J, r

(* and an empty channel tells nothing. *)
LEMMA ItemsEmpty == Items(<< >>) = << >>
  BY DEF Items

(* What the channel holds of a stream is of the kind told.                  *)
LEMMA BacklogType ==
  ASSUME NEW s \in Streams, events \in Seq(TransportEvent)
  PROVE  Backlog(s) \in Seq(FeedItem)
  BY ItemsType, RetainSub DEF Backlog

(* An event that is sent joins the backlog of its stream alone, and log     *)
(* records that of none.                                                    *)
LEMMA BacklogSend ==
  ASSUME NEW s \in Streams, NEW e \in TransportEvent,
         events \in Seq(TransportEvent), events' = Append(events, e)
  PROVE  Backlog(s)' = IF e \in Told(s) THEN Append(Backlog(s), Item(e))
                       ELSE Backlog(s)
  <1> DEFINE q == Retain(events, Told(s))
  <1>1. q \in Seq(TransportEvent)
    BY RetainSub
  <1>2. Retain(Append(events, e), Told(s))
          = IF e \in Told(s) THEN Append(q, e) ELSE q
    BY RetainAppend
  <1>3. Backlog(s)' = Items(Retain(Append(events, e), Told(s)))
    BY DEF Backlog, Told
  <1> HIDE DEF q
  <1>4. Items(Append(q, e)) = Append(Items(q), Item(e))
    BY <1>1, ItemsAppend
  <1>5. Backlog(s) = Items(q)
    BY DEF Backlog, q
  <1> QED
    BY <1>2, <1>3, <1>4, <1>5, Zenon

(* What is received was the first of the backlog of its stream.             *)
LEMMA BacklogReceive ==
  ASSUME NEW s \in Streams,
         events \in Seq(TransportEvent), events # << >>, events' = Tail(events)
  PROVE  IF Head(events) \in Told(s)
         THEN Backlog(s) # << >> /\ Backlog(s)' = Tail(Backlog(s))
         ELSE Backlog(s)' = Backlog(s)
  <1> DEFINE q == Retain(events, Told(s))
  <1>1. q \in Seq(TransportEvent)
    BY RetainSub
  <1>2. IF Head(events) \in Told(s)
        THEN q # << >> /\ Tail(q) = Retain(Tail(events), Told(s))
        ELSE q = Retain(Tail(events), Told(s))
    BY RetainTail
  <1>3. Backlog(s)' = Items(Retain(Tail(events), Told(s)))
    BY DEF Backlog, Told
  <1> HIDE DEF q
  <1>4. q # << >> => Items(q) # << >> /\ Items(Tail(q)) = Tail(Items(q))
    BY <1>1, ItemsTail
  <1>5. Backlog(s) = Items(q)
    BY DEF Backlog, q
  <1> QED
    BY <1>2, <1>3, <1>4, <1>5, Zenon

-----------------------------------------------------------------------------
(* The steps of the feed *)

(* The phases, state by state.                                              *)
LEMMA Phases ==
  ASSUME NEW h
  PROVE  /\ \A state \in {"none", "hello", "connected"} :
              PhaseOf(state, h) = "silent"
         /\ \A state \in {"ready", "log"} : PhaseOf(state, h) = "announced"
         /\ \A state \in {"rpc", "incoming", "eof"} :
              PhaseOf(state, h) = "live"
         /\ PhaseOf("ended", h) = IF h # None /\ h.channel = "rpc"
                                  THEN "over" ELSE "quit"
         /\ PhaseOf("failed", h) = IF h # None /\ h.channel = "other"
                                   THEN "announced" ELSE "quit"
  BY DEF PhaseOf

(* A step moves the phase of one stream, or none.                           *)
Moves(s, to) ==
  \A t \in Streams : Phase(t)' = IF t = s THEN to ELSE Phase(t)

Rests == \A t \in Streams : Phase(t)' = Phase(t)

(* A step tells the manager of one stream, or of none.                      *)
Tells(s, item) ==
  \A t \in Streams :
    Inbox(t)' = IF t = s /\ rxOpen THEN Append(Inbox(t), item) ELSE Inbox(t)

Hushes == \A t \in Streams : Inbox(t)' = Inbox(t)

(* What changes neither the channel nor what is held tells nothing.         *)
LEMMA SameInbox ==
  ASSUME UNCHANGED <<events, held, rxOpen>>
  PROVE  Hushes
  BY DEF Hushes, Inbox, Backlog, Kept, Told

(* A task that goes on moves the phase of its stream, if the phases differ. *)
LEMMA TaskMoves ==
  ASSUME SessionTypeOK, NEW s \in Streams, NEW to,
         handler' = [handler EXCEPT ![s] = to], hello' = hello
  PROVE  /\ Moves(s, PhaseOf(to, hello[s]))
         /\ PhaseOf(to, hello[s]) = Phase(s) => Rests
  <1>1. \A t \in Streams :
          /\ handler'[t] = IF t = s THEN to ELSE handler[t]
          /\ hello'[t] = hello[t]
    BY DEF SessionTypeOK
  <1> QED
    BY <1>1 DEF Moves, Rests, Phase

(* A step that tells nothing and moves nothing is none of the feed.         *)
LEMMA Stutters ==
  ASSUME Rests, Hushes, UNCHANGED rxOpen
  PROVE  UNCHANGED Feed!feedVars
  BY DEF Rests, Hushes, Feed!feedVars

(* A log record that is sent tells nothing.                                 *)
LEMMA LogTells ==
  ASSUME SessionTypeOK, NEW e \in TransportEvent, e.type = "Log",
         TrySend(e), UNCHANGED <<held, rxOpen>>
  PROVE  Hushes
  <1>1. CASE events' = events
    BY <1>1, SameInbox
  <1>2. CASE events' = Append(events, e)
    <2>1. \A t \in Streams : Backlog(t)' = Backlog(t)
      BY <1>2, BacklogSend DEF Told, SessionTypeOK
    <2> QED
      BY <2>1 DEF Hushes, Inbox, Kept
  <1> QED
    BY <1>1, <1>2 DEF TrySend

(* A signal that is sent is told once its task holds no message.            *)
LEMMA SignalTells ==
  ASSUME SessionTypeOK, NEW s \in Streams, NEW type \in EventTypes \ {"Log"},
         type # "RpcIncoming", hello[s] \in StreamHello,
         held[s] = None, Send(Event(type, s)), UNCHANGED <<held, rxOpen>>
  PROVE  Tells(s, [type |-> type])
  <1> DEFINE e == Event(type, s)
  <1>1. /\ e \in TransportEvent /\ e.stream = s /\ e.type = type
        /\ Item(e) = [type |-> type]
    <2>1. e \in TransportEvent
      BY EventType DEF SessionTypeOK
    <2> QED
      BY <2>1 DEF Event, Item
  <1> HIDE DEF e
  <1>2. CASE ~rxOpen
    <2>1. events' = events
      BY <1>2 DEF Send
    <2> QED
      BY <1>2, <2>1, SameInbox DEF Tells, Hushes
  <1>3. CASE rxOpen
    <2>1. events' = Append(events, e)
      BY <1>3 DEF Send, e
    <2>2. \A t \in Streams :
            Backlog(t)' = IF t = s THEN Append(Backlog(t), [type |-> type])
                          ELSE Backlog(t)
      BY <1>1, <2>1, BacklogSend DEF Told, SessionTypeOK
    <2>3. \A t \in Streams : Backlog(t) \in Seq(FeedItem)
      BY BacklogType DEF SessionTypeOK
    <2>4. /\ Kept(s) = << >> /\ \A t \in Streams : Kept(t)' = Kept(t)
          /\ rxOpen'
      BY <1>3 DEF Kept
    <2>5. ASSUME NEW t \in Streams
          PROVE  Inbox(t)' = IF t = s /\ rxOpen THEN Append(Inbox(t), [type |-> type])
                             ELSE Inbox(t)
      <3>1. Inbox(t) = Backlog(t) \o Kept(t) /\ Inbox(t)' = Backlog(t)' \o Kept(t)'
        BY <1>3, <2>4 DEF Inbox
      <3>2. CASE t # s
        BY <2>2, <2>4, <3>1, <3>2, Zenon
      <3>3. CASE t = s
        <4>1. Backlog(s) \o << >> = Backlog(s)
          BY <2>3
        <4>2. Item(e) \in FeedItem
          BY <1>1 DEF FeedItem
        <4>3. Append(Backlog(s), [type |-> type]) \o << >>
                = Append(Backlog(s), [type |-> type])
          BY <1>1, <2>3, <4>2
        <4> QED
          BY <1>3, <2>2, <2>4, <3>1, <3>3, <4>1, <4>3, Zenon
      <3> QED
        BY <3>2, <3>3
    <2> QED
      BY <2>5 DEF Tells
  <1> QED
    BY <1>2, <1>3

(* A message is told as soon as it is read.                                 *)
LEMMA ReadTells ==
  ASSUME SessionTypeOK, NEW s \in Streams, NEW m \in RpcMessage,
         held[s] = None, held' = [held EXCEPT ![s] = m],
         UNCHANGED <<events, rxOpen>>
  PROVE  Tells(s, [type |-> "RpcIncoming", msg |-> m])
  <1> DEFINE item == [type |-> "RpcIncoming", msg |-> m]
  <1>1. \A t \in Streams : Backlog(t)' = Backlog(t)
    BY DEF Backlog, Told
  <1>2. Kept(s) = << >> /\ Kept(s)' = << item >>
    BY SessionAssumptions DEF Kept, SessionTypeOK
  <1>3. \A t \in Streams : t # s => Kept(t)' = Kept(t)
    BY DEF Kept, SessionTypeOK
  <1>4. Backlog(s) \in Seq(FeedItem)
    BY BacklogType DEF SessionTypeOK
  <1>5. Backlog(s) \o << item >> = Append(Backlog(s) \o << >>, item)
    <2> DEFINE b == Backlog(s)
    <2> HIDE DEF b, item
    <2>1. b \in Seq(FeedItem \cup {item})
      <3>1. FeedItem \subseteq FeedItem \cup {item}
        OBVIOUS
      <3> QED
        BY <1>4, <3>1, SeqMonotonic DEF b
    <2>2. b \o << item >> = Append(b \o << >>, item)
      BY <2>1
    <2> QED
      BY <2>2 DEF b
  <1> HIDE DEF item
  <1>6. ASSUME NEW t \in Streams
        PROVE  Inbox(t)' = IF t = s /\ rxOpen THEN Append(Inbox(t), item)
                           ELSE Inbox(t)
    <2>1. CASE t = s
      BY <1>1, <1>2, <1>5, <2>1, Zenon DEF Inbox
    <2>2. CASE t # s
      BY <1>1, <1>3, <2>2, Zenon DEF Inbox
    <2> QED
      BY <2>1, <2>2
  <1> QED
    BY <1>6 DEF Tells, item

(* That it is sent on later tells nothing new: it changes places.           *)
LEMMA ForwardTells ==
  ASSUME SessionTypeOK, NEW s \in Streams, hello[s] \in StreamHello,
         held[s] # None, held' = [held EXCEPT ![s] = None],
         Send(Event("RpcIncoming", s)), UNCHANGED rxOpen
  PROVE  Hushes
  <1> DEFINE e == Event("RpcIncoming", s)
             item == [type |-> "RpcIncoming", msg |-> held[s]]
  <1>1. /\ e \in TransportEvent /\ e.stream = s /\ e.type = "RpcIncoming"
        /\ Item(e) = item
    <2>1. e \in TransportEvent
      BY EventType DEF SessionTypeOK, EventTypes
    <2> QED
      BY <2>1 DEF Event, Item
  <1>2. Kept(s) = << item >> /\ Kept(s)' = << >>
    BY DEF Kept, SessionTypeOK
  <1>3. \A t \in Streams : t # s => Kept(t)' = Kept(t)
    BY DEF Kept, SessionTypeOK
  <1>4. Backlog(s) \in Seq(FeedItem) /\ item \in FeedItem
    BY <1>1, BacklogType DEF SessionTypeOK, FeedItem
  <1> HIDE DEF e, item
  <1>5. CASE ~rxOpen
    BY <1>5 DEF Hushes, Inbox
  <1>6. CASE rxOpen
    <2>1. events' = Append(events, e)
      BY <1>6 DEF Send, e
    <2>2. \A t \in Streams :
            Backlog(t)' = IF t = s THEN Append(Backlog(t), item) ELSE Backlog(t)
      BY <1>1, <2>1, BacklogSend DEF Told, SessionTypeOK
    <2>3. Append(Backlog(s), item) \o << >> = Backlog(s) \o << item >>
      BY <1>4
    <2>4. ASSUME NEW t \in Streams
          PROVE  Inbox(t)' = Inbox(t)
      <3>1. CASE t = s
        BY <1>2, <2>2, <2>3, <3>1, Zenon DEF Inbox
      <3>2. CASE t # s
        BY <1>3, <2>2, <3>2, Zenon DEF Inbox
      <3> QED
        BY <3>1, <3>2
    <2> QED
      BY <2>4 DEF Hushes
  <1> QED
    BY <1>5, <1>6

(* What a step of the feed comes to, for the stream that takes it.          *)
LEMMA FeedMoves ==
  ASSUME NEW s \in Streams, NEW to, Moves(s, to)
  PROVE  [t \in Streams |-> Phase(t)]'
           = [[t \in Streams |-> Phase(t)] EXCEPT ![s] = to]
  BY DEF Moves

(* A step that tells something of a stream adds it to the inbox of that    *)
(* stream, while there is a receiver, and to no other.                     *)
LEMMA FeedTells ==
  ASSUME NEW s \in Streams, NEW item, Tells(s, item)
  PROVE  [t \in Streams |-> Inbox(t)]'
           = IF rxOpen
             THEN [[t \in Streams |-> Inbox(t)]
                     EXCEPT ![s] = Append([t \in Streams |-> Inbox(t)][s], item)]
             ELSE [t \in Streams |-> Inbox(t)]
  BY DEF Tells

(* A step that tells nothing leaves all inboxes alone. *)
LEMMA FeedHushes ==
  ASSUME Hushes
  PROVE  [t \in Streams |-> Inbox(t)]' = [t \in Streams |-> Inbox(t)]
  BY DEF Hushes

(***************************************************************************)
(* Every step of the transport is a step of the feed of one stream, its    *)
(* end, or none: sending an announcement, a send half or an end is when    *)
(* it is told, and a message is told when its task has read it, so that    *)
(* waiting for room in the channel, and the moves of other streams, do not *)
(* show.                                                                   *)
(***************************************************************************)
LEMMA FeedStep ==
  ASSUME SessionTypeOK, [SessionNext]_sessionVars
  PROVE  [Feed!Next]_(Feed!feedVars)
  <1> USE DEF SessionTypeOK
  <1>1. ASSUME UNCHANGED <<handler, hello, held, events, rxOpen>>
        PROVE  UNCHANGED Feed!feedVars
    BY <1>1, SameInbox, Stutters DEF Rests, Phase
  <1>2. ASSUME NEW s \in Streams, AcceptStream(s)
        PROVE  UNCHANGED Feed!feedVars
    <2>1. PhaseOf("hello", hello[s]) = Phase(s)
      BY <1>2, Phases DEF AcceptStream, Phase
    <2>2. Rests
      BY <1>2, <2>1, TaskMoves DEF AcceptStream
    <2> QED
      BY <1>2, <2>2, SameInbox, Stutters DEF AcceptStream
  <1>3. ASSUME NEW s \in Streams, NEW h \in StreamHello, ReadHello(s, h)
        PROVE  UNCHANGED Feed!feedVars
    <2>1. \A t \in Streams :
            /\ t # s => handler'[t] = handler[t] /\ hello'[t] = hello[t]
            /\ t = s => handler[t] = "hello" /\ handler'[t] = "connected"
      BY <1>3 DEF ReadHello, Step
    <2>2. Rests
      BY <2>1, Phases DEF Rests, Phase
    <2> QED
      BY <1>3, <2>2, SameInbox, Stutters DEF ReadHello
  <1>4. ASSUME NEW s \in Streams, SendConnected(s)
        PROVE  Feed!Announce(s)
    <2>1. /\ hello[s] \in StreamHello /\ held[s] = None
          /\ UNCHANGED <<hello, held, rxOpen>>
      BY <1>4 DEF SendConnected, Step, TaskOK, Sending
    <2>2. Tells(s, [type |-> "Connected"])
      BY <1>4, <2>1, SignalTells DEF SendConnected, EventTypes
    <2>3. Phase(s) = "silent" /\ Moves(s, "announced")
      <3>1. hello[s].channel \in Channels /\ hello[s] # None
        BY <2>1, SessionAssumptions DEF StreamHello
      <3>2. /\ Dispatch(hello[s].channel) \in {"ready", "log", "failed"}
            /\ Dispatch(hello[s].channel) = "failed"
                 => hello[s].channel = "other"
        BY <3>1 DEF Dispatch, Channels
      <3>3. /\ handler[s] = "connected"
            /\ handler' = [handler EXCEPT ![s] = Dispatch(hello[s].channel)]
        BY <1>4 DEF SendConnected, Step
      <3> QED
        BY <2>1, <3>1, <3>2, <3>3, TaskMoves, Phases DEF Phase
    <2> QED
      BY <2>1, <2>2, <2>3, FeedMoves, FeedTells
         DEF Feed!Announce, Feed!Go, Feed!Tell, Feed!Signal
  <1>5. ASSUME NEW s \in Streams, SendRpcStreamReady(s)
        PROVE  Feed!GoLive(s)
    <2>1. /\ hello[s] \in StreamHello /\ held[s] = None
          /\ UNCHANGED <<hello, held, rxOpen>>
      BY <1>5 DEF SendRpcStreamReady, Step, TaskOK, Sending
    <2>2. Tells(s, [type |-> "RpcStreamReady"])
      BY <1>5, <2>1, SignalTells DEF SendRpcStreamReady, EventTypes
    <2>3. Phase(s) = "announced" /\ Moves(s, "live")
      BY <1>5, <2>1, TaskMoves, Phases DEF SendRpcStreamReady, Step, Phase
    <2> QED
      BY <2>1, <2>2, <2>3, FeedMoves, FeedTells
         DEF Feed!GoLive, Feed!Go, Feed!Tell, Feed!Signal
  <1>6. ASSUME NEW s \in Streams, SendDisconnected(s)
        PROVE  Feed!Finish(s)
    <2>1. /\ hello[s] \in StreamHello /\ held[s] = None
          /\ hello[s].channel = "rpc" /\ hello[s] # None
          /\ UNCHANGED <<hello, held, rxOpen>>
      BY <1>6, SessionAssumptions DEF SendDisconnected, Step, TaskOK, Sending
    <2>2. Tells(s, [type |-> "Disconnected"])
      BY <1>6, <2>1, SignalTells DEF SendDisconnected, EventTypes
    <2>3. Phase(s) = "live" /\ Moves(s, "over")
      BY <1>6, <2>1, TaskMoves, Phases DEF SendDisconnected, Step, Phase
    <2> QED
      BY <2>1, <2>2, <2>3, FeedMoves, FeedTells
         DEF Feed!Finish, Feed!Go, Feed!Tell, Feed!Signal
  <1>7. ASSUME NEW s \in Streams, SendRpcIncoming(s)
        PROVE  UNCHANGED Feed!feedVars
    <2>1. Rests
      <3>1. PhaseOf("rpc", hello[s]) = Phase(s)
        BY <1>7, Phases DEF SendRpcIncoming, Step, Phase
      <3> QED
        BY <1>7, <3>1, TaskMoves DEF SendRpcIncoming, Step
    <2>2. hello[s] \in StreamHello /\ held[s] # None
      BY <1>7 DEF SendRpcIncoming, Step, TaskOK, Sending
    <2> QED
      BY <1>7, <2>1, <2>2, ForwardTells, Stutters DEF SendRpcIncoming
  <1>8. ASSUME NEW s \in Streams, ReadLogLine(s)
        PROVE  UNCHANGED Feed!feedVars
    <2>1. Rests
      BY <1>8 DEF ReadLogLine, Rests, Phase
    <2>2. /\ Event("Log", s) \in TransportEvent
          /\ Event("Log", s).type = "Log"
      BY <1>8, EventType DEF ReadLogLine, TaskOK, EventTypes, Event
    <2> QED
      BY <1>8, <2>1, <2>2, LogTells, Stutters DEF ReadLogLine
  <1>9. ASSUME NEW s \in Streams, ReadEof(s) \/ ReadError(s)
        PROVE  Feed!Quit(s) \/ UNCHANGED Feed!feedVars
    <2>1. Hushes /\ rxOpen' = rxOpen
      BY <1>9, SameInbox DEF ReadEof, ReadError
    <2>2. CASE handler[s] = "rpc" /\ ReadEof(s)
      <3>1. PhaseOf("eof", hello[s]) = Phase(s)
        BY <2>2, Phases DEF Phase
      <3>2. Rests
        BY <2>2, <3>1, TaskMoves DEF ReadEof, AfterEof
      <3> QED
        BY <2>1, <3>2, Stutters
    <2>3. CASE ~(handler[s] = "rpc" /\ ReadEof(s))
      <3>1. /\ handler[s] \in {"hello", "rpc", "log"} /\ hello' = hello
            /\ \/ handler' = [handler EXCEPT ![s] = "failed"]
               \/ /\ handler' = [handler EXCEPT ![s] = "ended"]
                  /\ handler[s] # "rpc"
        BY <1>9, <2>3 DEF ReadEof, ReadError, AfterEof, Reading
      <3>2. hello[s] # None => hello[s].channel \in {"rpc", "log"}
        BY <3>1 DEF TaskOK
      <3>3. handler[s] # "rpc" /\ hello[s] # None => hello[s].channel = "log"
        BY <3>1 DEF TaskOK
      <3>4. /\ Phase(s) \in {"silent", "announced", "live"}
            /\ Moves(s, "quit")
        BY <3>1, <3>2, <3>3, TaskMoves, Phases DEF Phase
      <3> QED
        BY <2>1, <3>4, FeedMoves, FeedHushes DEF Feed!Quit, Feed!Go
    <2> QED
      BY <2>2, <2>3
  <1>10. ASSUME NEW s \in Streams, NEW m \in RpcMessage, ReadRpcLine(s, m)
         PROVE  Feed!Speak(s, m)
    <2>1. held[s] = None
      BY <1>10 DEF ReadRpcLine, Step, TaskOK
    <2>2. Tells(s, [type |-> "RpcIncoming", msg |-> m])
      BY <1>10, <2>1, ReadTells DEF ReadRpcLine
    <2>3. Phase(s) = "live" /\ Moves(s, "live")
      BY <1>10, TaskMoves, Phases DEF ReadRpcLine, Step, Phase
    <2> QED
      BY <1>10, <2>2, <2>3, FeedMoves, FeedTells
         DEF ReadRpcLine, Feed!Speak, Feed!Go, Feed!Tell, Feed!Message
  <1>11. CASE TryRecv
    <2>1. /\ events # << >> /\ events' = Tail(events) /\ rxOpen
          /\ UNCHANGED <<handler, hello, held, rxOpen>>
      BY <1>11 DEF TryRecv
    <2>2. PICK e \in TransportEvent : e = Head(events)
      BY <2>1, HeadTailProperties
    <2>3. PICK s \in Streams : s = e.stream
      BY DEF TransportEvent
    <2>4. \A t \in Streams :
            IF e \in Told(t)
            THEN Backlog(t) # << >> /\ Backlog(t)' = Tail(Backlog(t))
            ELSE Backlog(t)' = Backlog(t)
      BY <2>1, <2>2, BacklogReceive
    <2>5. \A t \in Streams : Kept(t)' = Kept(t)
      BY <2>1 DEF Kept
    <2>6. Rests
      BY <2>1 DEF Rests, Phase
    <2>7. CASE e.type = "Log"
      <3>1. \A t \in Streams : e \notin Told(t)
        BY <2>7 DEF Told
      <3>2. Hushes
        BY <2>1, <2>4, <2>5, <3>1 DEF Hushes, Inbox
      <3> QED
        BY <2>1, <2>6, <3>2, Stutters
    <2>8. CASE e.type # "Log"
      <3>1. e \in Told(s) /\ \A t \in Streams : t # s => e \notin Told(t)
        BY <2>3, <2>8 DEF Told
      <3>2. /\ Inbox(s) = Backlog(s) \o Kept(s)
            /\ Inbox(s)' = Tail(Backlog(s)) \o Kept(s)
        <4>1. /\ Backlog(s)' = Tail(Backlog(s)) /\ Kept(s)' = Kept(s)
              /\ rxOpen /\ rxOpen'
          BY <2>1, <2>4, <2>5, <3>1
        <4> QED
          BY <4>1, Zenon DEF Inbox
      <3>3. Inbox(s) # << >> /\ Inbox(s)' = Tail(Inbox(s))
        <4> DEFINE b == Backlog(s)
                   k == Kept(s)
                   S == FeedItem \cup {[type |-> "RpcIncoming", msg |-> held[s]]}
        <4>1. b \in Seq(S)
          <5>1. b \in Seq(FeedItem) /\ FeedItem \subseteq S
            BY BacklogType
          <5> HIDE DEF b, S
          <5> QED
            BY <5>1, SeqMonotonic
        <4>2. k \in Seq(S)
          <5> DEFINE i == [type |-> "RpcIncoming", msg |-> held[s]]
          <5>1. i \in S /\ (k = << >> \/ k = << i >>)
            BY DEF Kept
          <5>2. i \in S => << >> \in Seq(S) /\ << i >> \in Seq(S)
            <6> HIDE DEF i, S
            <6> QED
              OBVIOUS
          <5> HIDE DEF i, k, S
          <5> QED
            BY <5>1, <5>2, Zenon
        <4>3. b # << >>
          BY <2>4, <3>1
        <4> HIDE DEF b, k, S
        <4>4. b \o k # << >> /\ Tail(b \o k) = Tail(b) \o k
          BY <4>1, <4>2, <4>3
        <4> QED
          BY <3>2, <4>4 DEF b, k
      <3>4. \A t \in Streams : t # s => Inbox(t)' = Inbox(t)
        BY <2>1, <2>4, <2>5, <3>1 DEF Inbox
      <3>5. Feed!Deliver(s)
        <4>1. [t \in Streams |-> Inbox(t)]'
                = [[t \in Streams |-> Inbox(t)] EXCEPT ![s] = Tail(Inbox(s))]
          BY <3>3, <3>4
        <4>2. [t \in Streams |-> Phase(t)]' = [t \in Streams |-> Phase(t)]
          BY <2>6 DEF Rests
        <4> QED
          BY <2>1, <3>3, <4>1, <4>2 DEF Feed!Deliver
      <3> QED
        BY <3>5 DEF Feed!Next
    <2> QED
      BY <2>7, <2>8
  <1>12. ASSUME CloseReceiver
         PROVE  Feed!Stop
    <2>1. [t \in Streams |-> Phase(t)]' = [t \in Streams |-> Phase(t)]
      BY <1>12 DEF CloseReceiver, Phase
    <2>2. [t \in Streams |-> Inbox(t)]' = [t \in Streams |-> << >>]
      BY <1>12 DEF CloseReceiver, Inbox
    <2> QED
      BY <1>12, <2>1, <2>2 DEF CloseReceiver, Feed!Stop
  <1>13. CASE UNCHANGED sessionVars
    BY <1>13, <1>1 DEF sessionVars
  <1>14. ASSUME NEW c \in Conns, Connect(c) \/ ConnectionLost(c)
         PROVE  UNCHANGED Feed!feedVars
    BY <1>14, <1>1 DEF Connect, ConnectionLost
  <1> QED
    BY <1>2, <1>3, <1>4, <1>5, <1>6, <1>7, <1>8, <1>9, <1>10, <1>11, <1>12,
       <1>13, <1>14
       DEF SessionNext, ListenerStep, HandlerSend, HandlerRead, Feed!Next

(***************************************************************************)
(* The transport implements StreamFeed: each stream's announcement, send   *)
(* half, messages and end reach the manager once each and in order, for    *)
(* any number of streams and nodes and any capacity of the channel.        *)
(***************************************************************************)
THEOREM SessionFeedCorrect == SessionSpec => FeedSpec
  <1>1. SessionInit => Feed!Init
    <2> SUFFICES ASSUME SessionInit PROVE Feed!Init
      OBVIOUS
    <2>1. \A s \in Streams : Phase(s) = "silent" /\ Inbox(s) = << >>
      <3>1. \A s \in Streams : Backlog(s) = << >> /\ Kept(s) = << >>
        BY RetainEmpty, ItemsEmpty DEF SessionInit, Backlog, Kept
      <3>2. << >> \o << >> = << >>
        OBVIOUS
      <3>3. \A s \in Streams : Phase(s) = "silent"
        BY Phases DEF SessionInit, Phase
      <3> QED
        BY <3>1, <3>2, <3>3 DEF SessionInit, Inbox
    <2> QED
      BY <2>1 DEF SessionInit, Feed!Init
  <1>2. SessionTypeOK /\ [SessionNext]_sessionVars
          => [Feed!Next]_(Feed!feedVars)
    BY FeedStep
  <1> QED
    BY <1>1, <1>2, SessionTypeCorrect, PTL DEF SessionSpec, FeedSpec, Feed!Spec

=============================================================================
