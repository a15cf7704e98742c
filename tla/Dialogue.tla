------------------------------ MODULE Dialogue ------------------------------
(***************************************************************************)
(* What the command line and the core promise each other: the user's       *)
(* commands are served one at a time, each exactly once, each answered     *)
(* before the next one is taken, and none is left over at the end.  There  *)
(* is no channel, no task and no oneshot here.                             *)
(***************************************************************************)
CONSTANTS
  Commands,   \* what a user may ask for
  None        \* no command

VARIABLES
  turn,      \* "user", "program", "answer" (given, not taken yet), "over"
  command    \* the command being served

dialogueVars == <<turn, command>>

Init == turn = "user" /\ command = None

Move(from, to) == turn = from /\ turn' = to

Ask(c) == Move("user", "program") /\ command' = c

Answer == Move("program", "answer") /\ command' = None

TakeAnswer == Move("answer", "user") /\ UNCHANGED command

Finish == Move("user", "over") /\ UNCHANGED command

Next == (\E c \in Commands : Ask(c)) \/ Answer \/ TakeAnswer \/ Finish

Spec == Init /\ [][Next]_dialogueVars

=============================================================================
