---------------------------- MODULE ConsoleProofs ----------------------------
(***************************************************************************)
(* Proofs about the command line, the core and the terminal, for any set   *)
(* of printing tasks and of commands and any capacities.                   *)
(***************************************************************************)
EXTENDS Console, SequenceTheorems, TLAPS

(* The first entry of a queue is one of its values, and so are the others.  *)
LEMMA TakeType ==
  ASSUME NEW S, NEW q \in Seq(S), q # << >>
  PROVE  Head(q) \in S /\ Tail(q) \in Seq(S) /\ Len(Tail(q)) = Len(q) - 1
  BY HeadTailProperties, LenProperties

(* The command line and the core are printers like any other.               *)
LEMMA TwoPrinters ==
  /\ "cli" \in Printers /\ "core" \in Printers
  /\ \A t \in Tasks : t \in Printers /\ t # "cli" /\ t # "core"
  BY ConsoleAssumptions

-----------------------------------------------------------------------------
(* Types, and the requests in flight *)

(* A step of the command line keeps the types.                              *)
LEMMA CliType ==
  ASSUME ConsoleTypeOK, InFlight, CliStep \/ Join \/ UserStep
  PROVE  ConsoleTypeOK'
  <1> USE ConsoleAssumptions, TwoPrinters
      DEF ConsoleTypeOK, UiTypeOK, cliRest, userRest, uiVars, loopVars, vars,
          Go, SenderDropped, HelpLines, Lines, Results,
          Outcomes
  <1>1. CASE SayNext \/ Help \/ Reject \/ CompletedErr
    BY <1>1 DEF SayNext, Help, Reject, CompletedErr, Say, Call, At
  <1>2. CASE SayDone \/ SayFailed \/ PrintPromptFailed \/ ReadError \/ Exit
    BY <1>2 DEF SayDone, SayFailed, PrintPromptFailed, ReadError, Exit, Leave,
                PromptFails
  <1>3. CASE PrintPrompt \/ Clear
    <2>1. visible' \in BOOLEAN /\ broken' \in BOOLEAN /\ eof' \in BOOLEAN
      BY <1>3, Zenon DEF PrintPrompt, Prompt, Clear, Hide
    <2> QED
      BY <1>3, <2>1 DEF PrintPrompt, Prompt, Clear, Hide
  <1>4. CASE ReadLine
    BY <1>4, TakeType DEF ReadLine
  <1>5. CASE ReadEof \/ Blank \/ Completed \/ Join
    BY <1>5 DEF ReadEof, Blank, Completed, Join
  <1>6. CASE Send
    BY <1>6, AppendProperties DEF Send
  <1>7. CASE \E l \in Lines : Enter(l)
    BY <1>7, AppendProperties DEF Enter, EchoEnter
  <1>8. CASE CloseInput \/ BreakOutput
    <2>1. visible' \in BOOLEAN /\ broken' \in BOOLEAN /\ eof' \in BOOLEAN
      BY <1>8, Zenon DEF CloseInput, BreakOutput, Break
    <2> QED
      BY <1>8, <2>1 DEF CloseInput, BreakOutput, Break
  <1> QED
    BY <1>1, <1>2, <1>3, <1>4, <1>5, <1>6, <1>7, <1>8 DEF CliStep, UserStep

(* A step of the core or of a printer keeps the types.                      *)
LEMMA CoreType ==
  ASSUME ConsoleTypeOK, InFlight,
         \/ CoreStep \/ UNCHANGED vars
         \/ \E t \in Tasks : TaskPrints(t)
         \/ \E p \in Printers : PrintStep(p)
  PROVE  ConsoleTypeOK'
  <1> USE ConsoleAssumptions, TwoPrinters
      DEF ConsoleTypeOK, UiTypeOK, coreRest, uiVars, loopVars, vars,
          SenderDropped, HelpLines, Lines, Results,
          Outcomes
  <1>1. CASE Recv
    BY <1>1, TakeType DEF Recv
  <1>2. CASE RecvNone \/ CoreEnds \/ \E result \in Results : Complete(result)
    BY <1>2 DEF RecvNone, CoreEnds, Complete
  <1>3. CASE CorePrints
    BY <1>3 DEF CorePrints, Call, At
  <1>4. CASE \E t \in Tasks : TaskPrints(t)
    BY <1>4 DEF TaskPrints, Call, At
  <1>5. ASSUME NEW p \in Printers, PrintStep(p)
        PROVE  ConsoleTypeOK'
    <2>1. /\ visible' \in BOOLEAN /\ line' \in {"blank", "prompt"}
          /\ broken' \in BOOLEAN /\ stray' \in 0..2
          /\ \E s \in {"none"} \cup Holding :
               printing[p] # "none" /\ At(p, s)
      BY <1>5 DEF PrintStep, Prints, Lock, WriteMessage, WriteAgain, WriteFails,
                  Holding
    <2> QED
      BY <1>5, <2>1 DEF PrintStep, At
  <1>6. CASE UNCHANGED vars
    BY <1>6
  <1> QED
    BY <1>1, <1>2, <1>3, <1>4, <1>5, <1>6 DEF CoreStep

(* Every step keeps the request in flight at one place.                     *)
LEMMA FlightStep ==
  ASSUME ConsoleTypeOK, InFlight, [Next]_vars
  PROVE  InFlight'
  <1> USE ConsoleAssumptions
      DEF ConsoleTypeOK, InFlight, cliRest, userRest, coreRest, uiVars,
          loopVars, vars, Go, SenderDropped, Results
  <1>1. CASE SayNext \/ Help \/ Reject \/ CompletedErr
    BY <1>1 DEF SayNext, Help, Reject, CompletedErr, Say
  <1>2. CASE SayDone \/ SayFailed \/ PrintPromptFailed \/ ReadError \/ Exit
    BY <1>2 DEF SayDone, SayFailed, PrintPromptFailed, ReadError, Exit, Leave
  <1>3. CASE PrintPrompt \/ Clear \/ ReadLine \/ ReadEof \/ Blank \/ Completed
    BY <1>3 DEF PrintPrompt, Clear, ReadLine, ReadEof, Blank, Completed
  <1>4. CASE Send
    <2>1. queue = << >> /\ core = "recv" /\ completion = None
      BY <1>4 DEF Send
    <2>2. Len(queue') = 1 /\ queue' # << >>
      BY <1>4, <2>1 DEF Send
    <2> QED
      BY <1>4, <2>1, <2>2 DEF Send
  <1>5. CASE Recv
    <2>1. Len(queue') = Len(queue) - 1
      BY <1>5, TakeType DEF Recv
    <2>2. queue' = << >>
      BY <1>5, <2>1, TakeType, EmptySeq DEF Recv
    <2> QED
      BY <1>5, <2>2 DEF Recv
  <1>6. CASE RecvNone \/ CoreEnds \/ \E result \in Results : Complete(result)
    BY <1>6 DEF RecvNone, CoreEnds, Complete
  <1>7. CASE Join \/ UNCHANGED vars
    BY <1>7 DEF Join
  <1>8. CASE \/ CorePrints \/ CloseInput \/ BreakOutput
             \/ \E t \in Tasks : TaskPrints(t)
             \/ \E p \in Printers : PrintStep(p)
             \/ \E l \in Lines : Enter(l)
    BY <1>8 DEF CorePrints, TaskPrints, PrintStep, Enter, CloseInput, BreakOutput
  <1> QED
    BY <1>1, <1>2, <1>3, <1>4, <1>5, <1>6, <1>7, <1>8
       DEF Next, CliStep, CoreStep, UserStep, Ended

(* Every step keeps the type invariant and the place of the request. *)
LEMMA TypeStep ==
  ConsoleTypeOK /\ InFlight /\ [Next]_vars => ConsoleTypeOK' /\ InFlight'
  BY CliType, CoreType, FlightStep DEF Next, Ended

(* Both hold at the start. *)
LEMMA TypeInit == Init => ConsoleTypeOK /\ InFlight
  <1> SUFFICES ASSUME Init
               PROVE  ConsoleTypeOK /\ InFlight
    OBVIOUS
  <1> USE ConsoleAssumptions, TwoPrinters DEF Init, HelpLines, SenderDropped
  <1>1. visible \in BOOLEAN /\ broken \in BOOLEAN /\ eof \in BOOLEAN
    BY Zenon
  <1>2. ConsoleTypeOK
    BY <1>1 DEF ConsoleTypeOK, UiTypeOK
  <1>3. InFlight
    BY DEF InFlight
  <1> QED
    BY <1>2, <1>3

(***************************************************************************)
(* The two loops keep their types, whatever is typed and printed.          *)
(***************************************************************************)
THEOREM ConsoleTypeCorrect == Spec => []ConsoleTypeOK
  BY TypeInit, TypeStep, PTL DEF Spec

(***************************************************************************)
(* At most one request is in flight and the core outlives the command      *)
(* line, so that neither error of dispatch_command is ever returned.       *)
(***************************************************************************)
THEOREM InFlightCorrect == Spec => []InFlight
  BY TypeInit, TypeStep, PTL DEF Spec

-----------------------------------------------------------------------------
(* The prompt *)

(* A print moves one printer, which has the lock or finds it free.          *)
LEMMA PrintMoves ==
  ASSUME NEW p \in Printers, ConsoleTypeOK, PrintStep(p)
  PROVE  /\ \A q \in Printers : q # p => printing'[q] = printing[q]
         /\ printing'[p] \in {"none", "plain", "over", "again"}
         /\ printing[p] # "none"
         /\ printing[p] = "wants" => LockFree
  BY DEF PrintStep, Prints, Lock, WriteMessage, WriteAgain, WriteFails, At,
         Holding, ConsoleTypeOK, UiTypeOK

(* Two prints never overlap.                                                *)
LEMMA HolderStep ==
  ASSUME ConsoleTypeOK, OneHolder, [Next]_vars
  PROVE  OneHolder'
  <1> USE DEF ConsoleTypeOK, UiTypeOK, Holding, OneHolder
  <1>1. ASSUME NEW p \in Printers, PrintStep(p)
        PROVE  OneHolder'
    BY <1>1, PrintMoves DEF LockFree
  <1>2. ASSUME NEW p \in Printers, Call(p)
        PROVE  OneHolder'
    BY <1>2 DEF Call, At
  <1>3. CASE UNCHANGED printing
    BY <1>3
  <1>4. \/ UNCHANGED printing
        \/ \E p \in Printers : Call(p) \/ PrintStep(p)
    BY TwoPrinters
       DEF Next, CliStep, CoreStep, UserStep, Ended, vars, uiVars, SayNext,
           SayDone, SayFailed, PrintPrompt, Prompt, PrintPromptFailed,
           PromptFails, ReadLine, ReadEof, ReadError, Clear, Hide, Blank, Exit,
           Help, Reject, Send, Completed, CompletedErr, Say, Recv, RecvNone,
           CorePrints, Complete, CoreEnds, Join, TaskPrints, Enter, EchoEnter,
           CloseInput, BreakOutput, Break
  <1> QED
    BY <1>1, <1>2, <1>3, <1>4

(* A step that neither prints, nor asks, nor reads, nor comes from the user *)
(* or the terminal: a print may be called, a loop moves on.                 *)
Quiet ==
  /\ UNCHANGED <<visible, line, broken, input, stray>>
  /\ UNCHANGED cli \/ (~Asking /\ cli' \notin {"read", "clear"})
  /\ UNCHANGED outcome \/ (outcome = None /\ outcome' # "read")
  /\ UNCHANGED printing \/ \E p \in Printers : Call(p)

(* The steps that matter to the prompt, and the rest.                       *)
LEMMA StepKinds ==
  ASSUME ConsoleTypeOK, [Next]_vars
  PROVE  \/ PrintPrompt \/ ReadLine \/ ReadEof \/ ReadError \/ Clear
         \/ BreakOutput
         \/ \E l \in Lines : Enter(l)
         \/ \E p \in Printers : PrintStep(p)
         \/ Quiet
  <1> USE TwoPrinters, ConsoleAssumptions
      DEF Quiet, Asking, uiVars, loopVars, vars, cliRest, coreRest, userRest, Go
  <1>1. CASE SayNext \/ Help \/ Reject \/ CompletedErr
    BY <1>1 DEF SayNext, Help, Reject, CompletedErr, Say, Call
  <1>2. CASE SayDone \/ SayFailed \/ PrintPromptFailed \/ Exit
    BY <1>2 DEF SayDone, SayFailed, PrintPromptFailed, Exit, Leave, PromptFails,
                ConsoleTypeOK, SenderDropped, Outcomes
  <1>3. CASE Blank \/ Send \/ Completed \/ Join
    BY <1>3 DEF Blank, Send, Completed, Join
  <1>4. CASE CoreStep
    BY <1>4 DEF CoreStep, Recv, RecvNone, CorePrints, Complete, CoreEnds, Call
  <1>5. CASE CloseInput \/ UNCHANGED vars \/ \E t \in Tasks : TaskPrints(t)
    BY <1>5 DEF CloseInput, TaskPrints, Call
  <1> QED
    BY <1>1, <1>2, <1>3, <1>4, <1>5 DEF Next, CliStep, UserStep, Ended

(* The flag is what the command line makes it.                              *)
LEMMA VisibleStep ==
  ASSUME ConsoleTypeOK, VisibleInv, [Next]_vars
  PROVE  VisibleInv'
  <1> USE ConsoleAssumptions
      DEF ConsoleTypeOK, VisibleInv, Asking, SenderDropped, Outcomes, loopVars,
          cliRest, Go
  <1>1. CASE PrintPrompt \/ Clear
    BY <1>1 DEF PrintPrompt, Prompt, Clear, Hide
  <1>2. CASE ReadLine \/ ReadEof \/ ReadError
    BY <1>2 DEF ReadLine, ReadEof, ReadError, Leave, uiVars
  <1>3. CASE BreakOutput \/ \E l \in Lines : Enter(l)
    BY <1>3 DEF BreakOutput, Break, Enter, EchoEnter, userRest
  <1>4. CASE \E p \in Printers : PrintStep(p)
    BY <1>4 DEF PrintStep, Prints, Lock, WriteMessage, WriteAgain, WriteFails
  <1>5. CASE Quiet
    BY <1>5 DEF Quiet
  <1> QED
    BY <1>1, <1>2, <1>3, <1>4, <1>5, StepKinds

(* The prompt is on the screen or is being written again.                   *)
LEMMA PromptStep ==
  ASSUME ConsoleTypeOK, VisibleInv, PromptInv, [Next]_vars
  PROVE  PromptInv'
  <1> USE DEF PromptInv, loopVars, cliRest, Go
  <1>1. CASE PrintPrompt
    BY <1>1 DEF PrintPrompt, Prompt, LockFree, Holding
  <1>2. CASE ReadLine \/ ReadEof \/ ReadError \/ Clear
    BY <1>2 DEF ReadLine, ReadEof, ReadError, Clear, Leave
  <1>3. CASE BreakOutput
    BY <1>3 DEF BreakOutput, Break
  <1>4. ASSUME NEW l \in Lines, Enter(l)
        PROVE  PromptInv'
    <2>1. input' # << >>
      BY <1>4, AppendProperties DEF Enter, ConsoleTypeOK
    <2> QED
      BY <1>4, <2>1 DEF Enter, EchoEnter, userRest
  <1>5. ASSUME NEW p \in Printers, PrintStep(p)
        PROVE  PromptInv'
    BY <1>5, PrintMoves
       DEF PrintStep, Prints, Lock, WriteMessage, WriteAgain, WriteFails, At,
           ConsoleTypeOK, UiTypeOK, VisibleInv, Asking
  <1>6. CASE Quiet
    <2>1. \A q \in Printers :
            \/ printing'[q] = printing[q]
            \/ printing[q] = "none" /\ printing'[q] = "wants"
      BY <1>6 DEF Quiet, Call, At, ConsoleTypeOK, UiTypeOK
    <2>2. cli' = "read" => cli = "read"
      BY <1>6 DEF Quiet
    <2> QED
      BY <1>6, <2>1, <2>2 DEF Quiet
  <1> QED
    BY <1>1, <1>2, <1>3, <1>4, <1>5, <1>6, StepKinds

(* Only the print that was under way can write a prompt that nobody reads.  *)
LEMMA StrayStep ==
  ASSUME ConsoleTypeOK, OneHolder, VisibleInv, StrayInv, [Next]_vars
  PROVE  StrayInv'
  <1> USE DEF StrayInv, Asking, loopVars, cliRest, Go
  <1>1. CASE PrintPrompt \/ ReadLine \/ ReadEof \/ ReadError \/ Clear
    BY <1>1, ConsoleAssumptions
       DEF PrintPrompt, ReadLine, ReadEof, ReadError, Clear, Leave, uiVars
  <1>2. CASE BreakOutput \/ \E l \in Lines : Enter(l)
    BY <1>2 DEF BreakOutput, Break, Enter, EchoEnter, userRest
  <1>3. ASSUME NEW p \in Printers, PrintStep(p)
        PROVE  StrayInv'
    <2>1. UNCHANGED <<cli, outcome>>
      BY <1>3 DEF PrintStep
    <2>2. CASE printing[p] = "again"
      BY <1>3, <2>1, <2>2, PrintMoves
         DEF PrintStep, Prints, Lock, WriteMessage, WriteAgain, WriteFails, At,
             ConsoleTypeOK, UiTypeOK, OneHolder, Holding
    <2>3. CASE printing[p] # "again"
      BY <1>3, <2>1, <2>3, PrintMoves
         DEF PrintStep, Prints, Lock, WriteMessage, WriteAgain, WriteFails, At,
             ConsoleTypeOK, UiTypeOK, VisibleInv
    <2> QED
      BY <2>2, <2>3
  <1>4. CASE Quiet
    <2>1. \A q \in Printers :
            \/ printing'[q] = printing[q]
            \/ printing[q] = "none" /\ printing'[q] = "wants"
      BY <1>4 DEF Quiet, Call, At, ConsoleTypeOK, UiTypeOK
    <2> QED
      BY <1>4, <2>1, ConsoleAssumptions DEF Quiet, Outcomes
  <1> QED
    BY <1>1, <1>2, <1>3, <1>4, StepKinds

(* The inductive invariant holds at the start, *)
LEMMA ConsoleInvInit == Init => ConsoleInv
  <1> SUFFICES ASSUME Init
               PROVE  OneHolder /\ VisibleInv /\ PromptInv /\ StrayInv
    BY TypeInit DEF ConsoleInv
  <1> QED
    BY ConsoleAssumptions
       DEF Init, OneHolder, Holding, VisibleInv, PromptInv, StrayInv, Asking,
           Outcomes

(* is kept by every step, *)
LEMMA ConsoleInvStep == ConsoleInv /\ [Next]_vars => ConsoleInv'
  BY TypeStep, HolderStep, VisibleStep, PromptStep, StrayStep DEF ConsoleInv

(***************************************************************************)
(* The inductive invariant of the console: types, the request in flight,   *)
(* the prompt flag, the output lock, the prompt and the stray prompts      *)
(* (run_loop, Core::run, print_line).                                      *)
(***************************************************************************)
THEOREM ConsoleInvariant == Spec => []ConsoleInv
  BY ConsoleInvInit, ConsoleInvStep, PTL DEF Spec

(***************************************************************************)
(* A user who is asked sees the prompt, whichever thread printed last and  *)
(* whenever it read the flag.                                              *)
(***************************************************************************)
THEOREM PromptShownCorrect == Spec => []PromptShown
  <1>1. ConsoleInv => PromptShown
    BY DEF ConsoleInv, PromptInv, PromptShown, LockFree, Holding
  <1> QED
    BY <1>1, ConsoleInvariant, PTL

(***************************************************************************)
(* At most one prompt that nobody reads at is written per input.           *)
(***************************************************************************)
THEOREM StrayPromptsCorrect == Spec => []StrayPrompts
  <1>1. ConsoleInv => StrayPrompts
    BY DEF ConsoleInv, StrayInv, StrayPrompts
  <1> QED
    BY <1>1, ConsoleInvariant, PTL

-----------------------------------------------------------------------------
(* The dialogue *)

(* What the mapping says of the dialogue's state.                           *)
LEMMA DialogueView ==
  ASSUME ConsoleTypeOK, InFlight
  PROVE  /\ Turn \in {"user", "program", "answer", "over"}
         /\ Turn = "program" <=> queue # << >> \/ core = "serve"
         /\ Turn = "answer" <=> completion # None
         /\ Turn = "over" <=> core = "over"
         /\ queue = << >> => Serving = serving
         /\ queue # << >> => Serving = queue[1]
  BY DEF Turn, Serving, ConsoleTypeOK, InFlight, SenderDropped

(* A step that leaves the channel, the core and the oneshot alone leaves    *)
(* the dialogue alone.                                                      *)
LEMMA DialogueStutter ==
  UNCHANGED <<queue, core, completion, serving>> => UNCHANGED D!dialogueVars
  BY DEF D!dialogueVars, Turn, Serving

(* Every step of the two tasks is one of the dialogue, or says nothing. *)
LEMMA DialogueStep ==
  ASSUME ConsoleTypeOK, InFlight, ConsoleTypeOK', InFlight', [Next]_vars
  PROVE  [D!Next]_(D!dialogueVars)
  <1> USE DEF D!Next, D!dialogueVars, D!Move
  <1>1. /\ Turn' \in {"user", "program", "answer", "over"}
        /\ Turn' = "program" <=> queue' # << >> \/ core' = "serve"
        /\ Turn' = "answer" <=> completion' # None
        /\ Turn' = "over" <=> core' = "over"
        /\ queue' = << >> => Serving' = serving'
        /\ queue' # << >> => Serving' = queue'[1]
    BY DEF Turn, Serving, ConsoleTypeOK, InFlight, SenderDropped
  <1>2. CASE Send
    <2> queue = << >> /\ got \in Commands
      BY <1>2 DEF Send, InFlight, Go
    <2>1. queue' # << >> /\ queue'[1] = got /\ got \in Commands
      BY <1>2 DEF Send
    <2>2. Turn = "user" /\ Turn' = "program"
      BY <1>1, <1>2, <2>1, DialogueView
         DEF Send, InFlight, ConsoleTypeOK, Go, SenderDropped
    <2>3. D!Ask(got)
      BY <1>1, <2>1, <2>2 DEF D!Ask
    <2> QED
      BY <2>1, <2>3
  <1>3. ASSUME NEW result \in Results, Complete(result)
        PROVE  D!Answer
    BY <1>1, <1>3, DialogueView, ConsoleAssumptions
       DEF D!Answer, Complete, InFlight, ConsoleTypeOK
  <1>4. CASE Completed \/ CompletedErr
    <2>1. D!TakeAnswer
      BY <1>1, <1>4, DialogueView, ConsoleAssumptions
         DEF D!TakeAnswer, Completed, CompletedErr, cliRest, InFlight,
             ConsoleTypeOK, Go, SenderDropped, Say
    <2> QED
      BY <2>1
  <1>5. CASE CoreEnds
    <2>1. D!Finish
      BY <1>1, <1>5, DialogueView
         DEF D!Finish, CoreEnds, coreRest, InFlight, ConsoleTypeOK,
             SenderDropped
    <2> QED
      BY <2>1
  <1>6. CASE Recv
    <2>1. queue' = << >>
      BY <1>6, <1>1 DEF Recv, InFlight
    <2>2. serving' = Head(queue)
      BY <1>6 DEF Recv
    <2> QED
      BY <1>1, <1>6, <2>1, <2>2, DialogueView DEF Recv, InFlight, ConsoleTypeOK
  <1>7. CASE RecvNone
    BY <1>1, <1>7, DialogueView DEF RecvNone, InFlight, coreRest
  <1>8. \/ Send \/ Completed \/ CompletedErr \/ Recv \/ RecvNone \/ CoreEnds
        \/ \E result \in Results : Complete(result)
        \/ UNCHANGED <<queue, core, completion, serving>>
    BY DEF Next, CliStep, CoreStep, UserStep, Ended, vars, loopVars, cliRest,
           coreRest, userRest, SayNext, SayDone, SayFailed, PrintPrompt,
           PrintPromptFailed, ReadLine, ReadEof, ReadError, Clear, Blank, Exit,
           Help, Reject, CorePrints, Join, TaskPrints, PrintStep, Enter,
           CloseInput, BreakOutput
  <1> QED
    BY <1>2, <1>3, <1>4, <1>5, <1>6, <1>7, <1>8, DialogueStutter

(***************************************************************************)
(* The command line, the channel, the core and the oneshot implement the   *)
(* dialogue: commands are served one at a time, each exactly once, and     *)
(* each is answered before the next.                                       *)
(***************************************************************************)
THEOREM DialogueCorrect == Spec => DialogueSpec
  <1>1. Init => D!Init
    BY ConsoleAssumptions DEF Init, D!Init, Turn, Serving
  <1>2. ConsoleTypeOK /\ InFlight /\ ConsoleTypeOK' /\ InFlight' /\ [Next]_vars
          => [D!Next]_(D!dialogueVars)
    BY DialogueStep
  <1> QED
    BY <1>1, <1>2, ConsoleTypeCorrect, InFlightCorrect, PTL
       DEF Spec, DialogueSpec, D!Spec

=============================================================================
