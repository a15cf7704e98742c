---------------------------- MODULE SessionFeed ----------------------------
(***************************************************************************)
(* The transport implements StreamFeed: the refinement mapping reads the   *)
(* phase of a stream off its task, and its inbox off the shared channel    *)
(* and the message that its task has decoded and not yet sent on.          *)
(***************************************************************************)
EXTENDS Session, Filters

(* How far a stream has come whose task is in a state, after a hello.       *)
PhaseOf(state, h) ==
  CASE state \in {"none", "hello", "connected"} -> "silent"
    [] state \in {"ready", "log"} -> "announced"
    [] state \in {"rpc", "incoming", "eof"} -> "live"
    [] state = "ended" ->
         IF h # None /\ h.channel = "rpc" THEN "over" ELSE "quit"
    [] state = "failed" ->
         IF h # None /\ h.channel = "other" THEN "announced" ELSE "quit"

Phase(s) == PhaseOf(handler[s], hello[s])

(* What an event tells of its stream. *)
Item(e) ==
  IF e.type = "RpcIncoming" THEN [type |-> e.type, msg |-> e.msg]
  ELSE [type |-> e.type]

Items(seq) == [i \in 1..Len(seq) |-> Item(seq[i])]

(* Log records are no part of the promise.                                 *)
Told(s) == {e \in TransportEvent : e.stream = s /\ e.type # "Log"}

(* What the channel holds of a stream, and what its task holds.             *)
Backlog(s) == Items(Retain(events, Told(s)))

Kept(s) ==
  IF held[s] = None THEN << >>
  ELSE << [type |-> "RpcIncoming", msg |-> held[s]] >>

Inbox(s) == IF rxOpen THEN Backlog(s) \o Kept(s) ELSE << >>

Feed == INSTANCE StreamFeed WITH
  Messages <- RpcMessage,
  phase    <- [s \in Streams |-> Phase(s)],
  inbox    <- [s \in Streams |-> Inbox(s)],
  open     <- rxOpen

(***************************************************************************)
(* Every stream is fed to the manager as StreamFeed promises: whatever the *)
(* tasks of other streams do to the shared channel, and however often it   *)
(* is full, no announcement, send half, message or end of an RPC stream is *)
(* lost, repeated or overtaken (handlers.rs awaits the channel for each of *)
(* them, and goes on only afterwards).                                     *)
(***************************************************************************)
FeedSpec == Feed!Spec

=============================================================================
