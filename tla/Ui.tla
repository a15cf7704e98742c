--------------------------------- MODULE Ui ---------------------------------
(***************************************************************************)
(* ui.rs: the terminal that all threads of the program print to.  A print  *)
(* holds the output lock from its first to its last write; the prompt flag *)
(* says whether the user is being asked, so that a line printed meanwhile  *)
(* is followed by a new prompt.  set_prompt_visible does not take the lock.*)
(*                                                                         *)
(* printing[p] is where the print_line of a printer stands:                *)
(*   "none"    it is not in print_line                                     *)
(*   "wants"   waiting for the output lock                                 *)
(*   "plain"   has the lock, found no prompt, about to write its line      *)
(*   "over"    has the lock, found a prompt, about to write over it        *)
(*   "again"   has written its line, about to write the prompt again       *)
(* The terminal is external; line is what stands in its last line.         *)
(***************************************************************************)
CONSTANT Printers   \* the threads that print

VARIABLES
  visible,    \* PROMPT_VISIBLE
  printing,   \* see above
  line,       \* "prompt" if the last line of the terminal shows the prompt
  broken      \* stdout cannot be written to any more

uiVars == <<visible, printing, line, broken>>

Holding == {"plain", "over", "again"}

LockFree == \A p \in Printers : printing[p] \notin Holding

UiTypeOK ==
  /\ visible \in BOOLEAN
  /\ printing \in [Printers -> {"none", "wants"} \cup Holding]
  /\ line \in {"blank", "prompt"}
  /\ broken \in BOOLEAN

-----------------------------------------------------------------------------
(* print_line *)

At(p, state) == printing' = [printing EXCEPT ![p] = state]

Call(p) ==
  /\ printing[p] = "none"
  /\ At(p, "wants")
  /\ UNCHANGED <<visible, line, broken>>

(* The lock is taken and the flag read. *)
Lock(p) ==
  /\ printing[p] = "wants"
  /\ LockFree
  /\ At(p, IF visible THEN "over" ELSE "plain")
  /\ UNCHANGED <<visible, line, broken>>

WriteMessage(p) ==
  /\ printing[p] \in {"plain", "over"}
  /\ ~broken
  /\ At(p, IF printing[p] = "over" THEN "again" ELSE "none")
  /\ line' = "blank"
  /\ UNCHANGED <<visible, broken>>

WriteAgain(p) ==
  /\ printing[p] = "again"
  /\ ~broken
  /\ At(p, "none")
  /\ line' = "prompt"
  /\ UNCHANGED <<visible, broken>>

(* A write fails: `?` returns and the lock is free again. *)
WriteFails(p) ==
  /\ printing[p] \in Holding
  /\ broken
  /\ At(p, "none")
  /\ UNCHANGED <<visible, line, broken>>

(* What a print does once it is called. *)
Prints(p) == Lock(p) \/ WriteMessage(p) \/ WriteAgain(p) \/ WriteFails(p)

-----------------------------------------------------------------------------
(* print_prompt and set_prompt_visible(false) *)

(* Mutant: print_prompt does not take the lock. *)
PromptUnlocked ==
  /\ ~broken
  /\ line' = "prompt"
  /\ visible' = TRUE
  /\ UNCHANGED <<printing, broken>>

Prompt ==
  /\ LockFree
  /\ ~broken
  /\ line' = "prompt"
  /\ visible' = TRUE
  /\ UNCHANGED <<printing, broken>>

PromptFails == LockFree /\ broken /\ UNCHANGED uiVars

Hide == visible' = FALSE /\ UNCHANGED <<printing, line, broken>>

-----------------------------------------------------------------------------
(* The terminal *)

(* The user's Enter is echoed: the terminal goes to a new line. *)
EchoEnter == line' = "blank" /\ UNCHANGED <<visible, printing, broken>>

Break == ~broken /\ broken' = TRUE /\ UNCHANGED <<visible, printing, line>>

(* At most one thread is inside a print. *)
OneHolder ==
  \A p, q \in Printers :
    printing[p] \in Holding /\ printing[q] \in Holding => p = q

=============================================================================
