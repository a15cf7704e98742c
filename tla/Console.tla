------------------------------ MODULE Console ------------------------------
(***************************************************************************)
(* The interactive program, from the moment it listens to nodes to its     *)
(* end: the command line (cli.rs) on the main thread, which blocks it in   *)
(* read_line, the core task (core/mod.rs), the request channel and the     *)
(* oneshot between them, and main.rs, which joins them.  What a command    *)
(* does is NodeManager's subject; here it prints and comes to a result.    *)
(* The tasks of the listener and of the streams are further printers.      *)
(*                                                                         *)
(* cli: "say"     printing `left` lines before the next prompt             *)
(*      "prompt"  about to print the prompt                                *)
(*      "read"    in read_line                                             *)
(*      "clear"   read_line has returned, the prompt flag is still set     *)
(*      "parse"   about to act on the input                                *)
(*      "wait"    has sent a request and awaits its completion             *)
(*      "join"    run_loop has returned and dropped the sender             *)
(*      "done"    main has returned                                        *)
(* core: "recv", "serve" (a command), "shutdown", "over"                   *)
(***************************************************************************)
EXTENDS Ui, Naturals, Sequences

CONSTANTS
  Tasks,      \* the tasks of the listener and the streams
  Commands,   \* the commands that parse_input knows
  QueueCap,   \* capacity of the request channel (100 in the code)
  MaxAhead,   \* bound: lines that the user may type ahead
  None        \* no command, no result

VARIABLES
  cli, core,    \* see above
  left,         \* lines still to print in "say"
  got,          \* what the last read_line returned
  outcome,      \* what run_loop returned
  input, eof,   \* stdin: the lines entered and not read; no more will come
  queue,        \* the request channel
  serving,      \* the command that the core executes
  completion,   \* the result in the oneshot of the request in flight
  stray         \* history: prompts written again since the user was last
                \* asked, by a print (not counted beyond two)

loopVars ==
  <<cli, core, left, got, outcome, input, eof, queue, serving, completion>>
vars == <<uiVars, loopVars, stray>>

(* What a line may be to the command line, besides a command. *)
OtherLines == {"exit", "help", "blank", "bad"}
Lines == OtherLines \cup Commands
Results == {"ok", "err"}
Outcomes == {"ok", "read", "output"}   \* of run_loop
HelpLines == 3

ASSUME ConsoleAssumptions ==
  /\ Printers = Tasks \cup {"cli", "core"}
  /\ Tasks \cap {"cli", "core"} = {}
  /\ Commands \cap (OtherLines \cup {"eof"}) = {}
  /\ None \notin Lines \cup Results \cup Outcomes \cup {"eof"}
  /\ QueueCap \in Nat \ {0}

(* main spawns the core and runs the command line, which starts with help. *)
Init ==
  /\ visible = FALSE /\ line = "blank" /\ broken = FALSE
  /\ printing = [p \in Printers |-> IF p = "cli" THEN "wants" ELSE "none"]
  /\ cli = "say" /\ left = HelpLines
  /\ core = "recv"
  /\ got = None /\ outcome = None
  /\ input = << >> /\ eof = FALSE
  /\ queue = << >> /\ serving = None /\ completion = None
  /\ stray = 0

-----------------------------------------------------------------------------
(* The command line: run_loop *)

Go(from, to) == cli = from /\ cli' = to

cliRest == <<core, input, eof, queue, serving, stray>>

Say(n) == cli' = "say" /\ left' = n /\ Call("cli")

(* run_loop returns, and its sender is dropped with it. *)
Leave(result) ==
  /\ cli' = "join"
  /\ outcome' = result
  /\ left' = 0

(* Mutant: one line more than there is. *)
SayOneMore ==
  /\ cli = "say" /\ printing["cli"] = "none" /\ left >= 1
  /\ ~broken \/ left = HelpLines
  /\ Say(left - 1)
  /\ UNCHANGED <<cliRest, got, outcome, completion>>

(* The error of the help text itself is ignored, those of the rest end the *)
(* loop; as stdout stays broken, it does not matter which one is met first. *)
SayNext ==
  /\ cli = "say" /\ printing["cli"] = "none" /\ left > 1
  /\ ~broken \/ left = HelpLines
  /\ Say(left - 1)
  /\ UNCHANGED <<cliRest, got, outcome, completion>>

SayDone ==
  /\ printing["cli"] = "none" /\ left = 1
  /\ ~broken
  /\ Go("say", "prompt")
  /\ left' = 0
  /\ UNCHANGED <<uiVars, cliRest, got, outcome, completion>>

SayFailed ==
  /\ cli = "say" /\ printing["cli"] = "none" /\ left < HelpLines
  /\ broken
  /\ Leave("output")
  /\ UNCHANGED <<uiVars, cliRest, got, completion>>

PrintPrompt ==
  /\ Go("prompt", "read")
  /\ Prompt
  /\ stray' = 0
  /\ UNCHANGED <<core, left, got, outcome, input, eof, queue, serving,
                 completion>>

PrintPromptFailed ==
  /\ cli = "prompt"
  /\ PromptFails
  /\ Leave("output")
  /\ UNCHANGED <<cliRest, got, completion>>

ReadLine ==
  /\ input # << >>
  /\ Go("read", "clear")
  /\ got' = Head(input) /\ input' = Tail(input)
  /\ UNCHANGED <<uiVars, core, left, outcome, eof, queue, serving, completion,
                 stray>>

ReadEof ==
  /\ input = << >> /\ eof
  /\ Go("read", "clear")
  /\ got' = "eof"
  /\ UNCHANGED <<uiVars, cliRest, left, outcome, completion>>

(* Not UTF-8, or an error of the terminal: `?` leaves the flag set. *)
ReadError ==
  /\ cli = "read"
  /\ Leave("read")
  /\ UNCHANGED <<uiVars, cliRest, got, completion>>

(* Mutant: the flag is cleared after the test for the end of input. *)
ClearUnlessEof ==
  /\ Go("clear", "parse")
  /\ IF got = "eof" THEN UNCHANGED uiVars ELSE Hide
  /\ UNCHANGED <<cliRest, left, got, outcome, completion>>

Clear ==
  /\ Go("clear", "parse")
  /\ Hide
  /\ UNCHANGED <<cliRest, left, got, outcome, completion>>

Blank ==
  /\ got = "blank"
  /\ Go("parse", "prompt")
  /\ UNCHANGED <<uiVars, cliRest, left, got, outcome, completion>>

Exit ==
  /\ cli = "parse" /\ got \in {"exit", "eof"}
  /\ Leave("ok")
  /\ UNCHANGED <<uiVars, cliRest, got, completion>>

Help ==
  /\ cli = "parse" /\ got = "help"
  /\ Say(HelpLines)
  /\ UNCHANGED <<cliRest, got, outcome, completion>>

(* clap rejects the line; its message is printed. *)
Reject ==
  /\ cli = "parse" /\ got = "bad"
  /\ Say(1)
  /\ UNCHANGED <<cliRest, got, outcome, completion>>

(* Mutant: the command line does not await the completion. *)
SendNoWait ==
  /\ got \in Commands
  /\ Go("parse", "prompt")
  /\ Len(queue) < QueueCap
  /\ queue' = Append(queue, got)
  /\ UNCHANGED <<uiVars, core, left, got, outcome, input, eof, serving,
                 completion, stray>>

(* dispatch_command; that the core is there is one of the invariants. *)
Send ==
  /\ got \in Commands
  /\ Go("parse", "wait")
  /\ Len(queue) < QueueCap
  /\ queue' = Append(queue, got)
  /\ UNCHANGED <<uiVars, core, left, got, outcome, input, eof, serving,
                 completion, stray>>

Completed ==
  /\ completion = "ok"
  /\ Go("wait", "prompt")
  /\ completion' = None
  /\ UNCHANGED <<uiVars, cliRest, left, got, outcome>>

CompletedErr ==
  /\ cli = "wait" /\ completion = "err"
  /\ Say(1)
  /\ completion' = None
  /\ UNCHANGED <<cliRest, got, outcome>>

CliStep ==
  \/ SayNext \/ SayDone \/ SayFailed \/ PrintPrompt \/ PrintPromptFailed
  \/ ReadLine \/ ReadEof \/ Clear
  \/ Blank \/ Exit \/ Help \/ Reject \/ Send \/ Completed \/ CompletedErr

-----------------------------------------------------------------------------
(* The core: Core::run *)

coreRest == <<cli, left, got, outcome, input, eof, stray>>

Recv ==
  /\ core = "recv" /\ queue # << >>
  /\ core' = "serve"
  /\ serving' = Head(queue) /\ queue' = Tail(queue)
  /\ UNCHANGED <<uiVars, coreRest, completion>>

(* The command being served prints a line; so may the last refresh. *)
CorePrints ==
  /\ core \in {"serve", "shutdown"}
  /\ Call("core")
  /\ UNCHANGED <<loopVars, stray>>

(* Mutant: an error of a command ends the loop of the core. *)
CompleteOrFail(result) ==
  /\ core = "serve" /\ printing["core"] = "none"
  /\ core' = IF result = "err" THEN "shutdown" ELSE "recv"
  /\ serving' = None
  /\ completion' = result
  /\ UNCHANGED <<uiVars, coreRest, queue>>

Complete(result) ==
  /\ core = "serve" /\ printing["core"] = "none"
  /\ core' = "recv"
  /\ serving' = None
  /\ completion' = result
  /\ UNCHANGED <<uiVars, coreRest, queue>>

(* Mutant: main keeps a sender of its own until it has joined the core. *)
SenderKept == cli = "done"

SenderDropped == cli \in {"join", "done"}

RecvNone ==
  /\ core = "recv" /\ queue = << >> /\ SenderDropped
  /\ core' = "shutdown"
  /\ UNCHANGED <<uiVars, coreRest, queue, serving, completion>>

CoreEnds ==
  /\ core = "shutdown" /\ printing["core"] = "none"
  /\ core' = "over"
  /\ UNCHANGED <<uiVars, coreRest, queue, serving, completion>>

CoreStep ==
  \/ Recv \/ RecvNone \/ CoreEnds \/ CorePrints
  \/ \E result \in Results : Complete(result)

(* main returns the error of the command line first, if there is one. *)
Join ==
  /\ core = "over"
  /\ Go("join", "done")
  /\ UNCHANGED <<uiVars, cliRest, left, got, outcome, completion>>

-----------------------------------------------------------------------------
(* The rest of the program, the user and the terminal *)

TaskPrints(t) ==
  /\ cli # "done"
  /\ Call(t)
  /\ UNCHANGED <<loopVars, stray>>

Asking == cli \in {"read", "clear"}

PrintStep(p) ==
  /\ Prints(p)
  /\ stray' = IF printing[p] = "again" /\ ~broken /\ ~Asking /\ stray < 2
              THEN stray + 1 ELSE stray
  /\ UNCHANGED loopVars

userRest ==
  <<cli, core, left, got, outcome, queue, serving, completion, stray>>

Enter(l) ==
  /\ ~eof /\ cli # "done" /\ Len(input) < MaxAhead
  /\ input' = Append(input, l)
  /\ EchoEnter
  /\ UNCHANGED <<userRest, eof>>

CloseInput ==
  /\ ~eof /\ cli # "done"
  /\ eof' = TRUE
  /\ UNCHANGED <<uiVars, userRest, input>>

BreakOutput == Break /\ UNCHANGED <<loopVars, stray>>

UserStep == (\E l \in Lines : Enter(l)) \/ CloseInput \/ BreakOutput \/ ReadError

Ended == cli = "done" /\ UNCHANGED vars

Next ==
  \/ CliStep \/ CoreStep \/ Join \/ UserStep \/ Ended
  \/ \E t \in Tasks : TaskPrints(t)
  \/ \E p \in Printers : PrintStep(p)

Spec == Init /\ [][Next]_vars

(***************************************************************************)
(* Fairness: the runtime schedules every task, and the output lock is      *)
(* given to a thread that waits for it if nobody else takes it (the Mutex  *)
(* is not fair, so no more is assumed).  Nothing makes a command or the    *)
(* shutdown come to its end: a request may hang in its write, and the loop *)
(* of refresh_events may be fed for ever.                                  *)
(***************************************************************************)
Fairness ==
  /\ WF_vars(CliStep) /\ WF_vars(Join)
  /\ WF_vars(Recv) /\ WF_vars(RecvNone)
  /\ \A p \in Printers : WF_vars(PrintStep(p))

FairSpec == Spec /\ Fairness

-----------------------------------------------------------------------------
(* Properties *)

(***************************************************************************)
(* Type invariant: lines are left to print, a result is there, a command   *)
(* is served and a print is under way just where the two loops say so.     *)
(***************************************************************************)
ConsoleTypeOK ==
  /\ UiTypeOK
  /\ cli \in {"say", "prompt", "read", "clear", "parse", "wait", "join", "done"}
  /\ core \in {"recv", "serve", "shutdown", "over"}
  /\ left \in 0..HelpLines
  /\ got \in Lines \cup {"eof", None}
  /\ outcome \in Outcomes \cup {None}
  /\ input \in Seq(Lines) /\ eof \in BOOLEAN
  /\ queue \in Seq(Commands)
  /\ serving \in Commands \cup {None}
  /\ completion \in Results \cup {None}
  /\ stray \in 0..2
  /\ cli = "say" <=> left > 0
  /\ SenderDropped <=> outcome # None
  /\ core = "serve" <=> serving # None
  /\ got \in Lines \cup {"eof"} \/ cli \notin {"clear", "parse", "wait"}
  /\ printing["cli"] # "none" => cli = "say"
  /\ printing["core"] # "none" => core \in {"serve", "shutdown"}

(***************************************************************************)
(* The user who is asked sees the prompt: whenever the program waits for   *)
(* input and no thread is in the middle of a print, the terminal shows the *)
(* prompt, whoever printed last and whenever it looked at the flag.        *)
(***************************************************************************)
PromptShown ==
  cli = "read" /\ input = << >> /\ LockFree /\ ~broken => line = "prompt"

(***************************************************************************)
(* A prompt that nobody reads at is written at most once per input: only   *)
(* the print that was under way when the flag was cleared can do it, no    *)
(* later one, also when the program is ending.  The flag stays set only if *)
(* the read itself failed.                                                 *)
(***************************************************************************)
StrayPrompts == outcome # "read" => stray <= 1

(***************************************************************************)
(* At most one request is in flight, at one place, and only while the      *)
(* command line waits for it; as long as it does, or may send, the core is *)
(* there.  So neither "Failed to deliver command" nor "Failed to receive   *)
(* command completion" is ever returned, the request channel never fills,  *)
(* and nothing is executed after the end of the command line.              *)
(***************************************************************************)
InFlight ==
  /\ cli = "wait" <=> queue # << >> \/ core = "serve" \/ completion # None
  /\ Len(queue) <= 1
  /\ queue # << >> => core = "recv" /\ completion = None
  /\ core = "serve" => completion = None
  /\ core \in {"shutdown", "over"} => SenderDropped

(***************************************************************************)
(* Command line, channel, core and oneshot together are the dialogue of    *)
(* module Dialogue: the mapping looks at the core's side only.             *)
(***************************************************************************)
Turn ==
  CASE queue # << >> \/ core = "serve" -> "program"
    [] completion # None -> "answer"
    [] core = "over" -> "over"
    [] OTHER -> "user"

Serving == IF queue # << >> THEN Head(queue) ELSE serving

D == INSTANCE Dialogue WITH turn <- Turn, command <- Serving

DialogueSpec == D!Spec

-----------------------------------------------------------------------------
(* The inductive invariant behind the theorems of ConsoleProofs *)

(* The flag is set while the user is asked, or if the read has failed. *)
VisibleInv == visible <=> Asking \/ outcome = "read"

(* Nobody who read the flag before the prompt came writes after it. *)
PromptInv ==
  cli = "read" =>
    /\ \A p \in Printers : printing[p] # "plain"
    /\ input = << >> /\ ~broken
         => line = "prompt" \/ \E p \in Printers : printing[p] = "again"

StrayInv ==
  /\ Asking => stray = 0
  /\ outcome # "read" /\ ~Asking /\ stray # 0
       => stray = 1 /\ \A p \in Printers : printing[p] \notin {"over", "again"}

ConsoleInv ==
  ConsoleTypeOK /\ OneHolder /\ InFlight /\ VisibleInv /\ PromptInv /\ StrayInv

-----------------------------------------------------------------------------
(***************************************************************************)
(* If every command that is begun, and the shutdown, come to their ends,   *)
(* and the other tasks fall silent, every input is served to its end: the  *)
(* user is asked again or the program ends; and the end of input then ends *)
(* the program, core included.  Neither the channel nor the oneshot nor    *)
(* the dropped sender nor the output lock keeps one side waiting for the   *)
(* other.  The first premise is needed: a command whose write hangs holds  *)
(* the command line, and through it the end of the program, for ever.      *)
(***************************************************************************)
CoreFinishes == []<>(core \notin {"serve", "shutdown"})

TasksFallSilent == <>[][\A t \in Tasks : ~TaskPrints(t)]_vars

InputServed ==
  CoreFinishes /\ TasksFallSilent
    => /\ cli # "read" ~> cli \in {"read", "done"}
       /\ eof ~> cli = "done"

=============================================================================
