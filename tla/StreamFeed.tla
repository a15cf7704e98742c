----------------------------- MODULE StreamFeed -----------------------------
(***************************************************************************)
(* What the transport promises the NodeManager about each stream: the      *)
(* announcement of the node, then the send half of the RPC stream, then    *)
(* its messages in the order the peer wrote them, then its end, each       *)
(* exactly once and none of them lost, until the manager goes away.  There *)
(* is no channel here, no capacity and no other stream: whatever tasks do  *)
(* to each other over the shared channel must not show.  Log records are   *)
(* not part of the promise (they are dropped when the channel is full).    *)
(***************************************************************************)
EXTENDS Sequences

CONSTANTS
  Streams,   \* the streams
  Messages   \* what a peer may write on an RPC stream

VARIABLES
  phase,     \* how far each stream has come
  inbox,     \* what the manager has still to be told of each stream
  open       \* the manager is there to be told

feedVars == <<phase, inbox, open>>

Phases == {"silent", "announced", "live", "over", "quit"}

(* What the manager is told: a signal, or a message of the peer. *)
Signal(type) == [type |-> type]
Message(m) == [type |-> "RpcIncoming", msg |-> m]

Init ==
  /\ phase = [s \in Streams |-> "silent"]
  /\ inbox = [s \in Streams |-> << >>]
  /\ open = TRUE

Go(s, from, to) ==
  /\ phase[s] = from
  /\ phase' = [phase EXCEPT ![s] = to]

Tell(s, item) ==
  /\ inbox' = IF open THEN [inbox EXCEPT ![s] = Append(@, item)] ELSE inbox
  /\ UNCHANGED open

Announce(s) == Go(s, "silent", "announced") /\ Tell(s, Signal("Connected"))

GoLive(s) == Go(s, "announced", "live") /\ Tell(s, Signal("RpcStreamReady"))

Speak(s, m) == Go(s, "live", "live") /\ Tell(s, Message(m))

Finish(s) == Go(s, "live", "over") /\ Tell(s, Signal("Disconnected"))

(* A stream that breaks off, or has nothing to finish, ends unannounced. *)
Quit(s) ==
  /\ \E from \in {"silent", "announced", "live"} : Go(s, from, "quit")
  /\ UNCHANGED <<inbox, open>>

Deliver(s) ==
  /\ inbox[s] # << >>
  /\ inbox' = [inbox EXCEPT ![s] = Tail(@)]
  /\ UNCHANGED <<phase, open>>

Stop ==
  /\ open
  /\ open' = FALSE
  /\ inbox' = [s \in Streams |-> << >>]
  /\ UNCHANGED phase

Next ==
  \/ \E s \in Streams :
       Announce(s) \/ GoLive(s) \/ Finish(s) \/ Quit(s) \/ Deliver(s)
  \/ \E s \in Streams, m \in Messages : Speak(s, m)
  \/ Stop

Spec == Init /\ [][Next]_feedVars

=============================================================================
