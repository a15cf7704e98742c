----------------------------- MODULE LaunchSync -----------------------------
(***************************************************************************)
(* core/launch.rs as a process.  Every start of the program rewrites its   *)
(* entries in launch.json and then in tasks.json, before it listens to any *)
(* node; an error ends the start, and so may a crash, at any point.        *)
(* Between starts the user edits both files.  That nobody edits them while *)
(* a start is under way is an assumption of the model; module Startup has  *)
(* several starts and the editor at work together.                         *)
(*                                                                         *)
(* pc is where the program stands: "off", "launch" and "tasks" (about to   *)
(* load and write that file), "running" (Core::new has returned).          *)
(***************************************************************************)
EXTENDS LaunchFiles

CONSTANTS
  Inputs,                \* what the starts of the program may find
  OwnConfigs, OwnTasks   \* entries that the user may write

VARIABLES
  pc, input,        \* the program and what it runs with
  vscode,           \* the directory .vscode exists
  launch, tasks,    \* the two files
  found, settled    \* history: the files as a start found them, while it
                    \* is under way; and the input of the last start, if
                    \* nothing has happened to the files since

files == <<launch, tasks>>
vars == <<pc, input, vscode, launch, tasks, found, settled>>

ASSUME LaunchAssumptions ==
  /\ Inputs \subseteq Input
  /\ OwnConfigs \subseteq Config
  /\ OwnTasks \subseteq Task
  /\ None \notin Endpoints \cup TaskLabel \cup Input

Init ==
  /\ pc = "off"
  /\ input = None
  /\ vscode = FALSE
  /\ launch = Blank("absent") /\ tasks = Blank("absent")
  /\ found = None
  /\ settled = None

-----------------------------------------------------------------------------
(* The program *)

(* Mutant: the files are written whether or not there is a .vscode. *)
StartAlways(i) ==
  /\ pc = "off"
  /\ input' = i
  /\ pc' = "launch" /\ found' = files
  /\ UNCHANGED <<vscode, launch, tasks, settled>>

(* Core::new: without .vscode there is nothing to do. *)
Start(i) ==
  /\ pc = "off"
  /\ input' = i
  /\ IF vscode THEN pc' = "launch" /\ found' = files
     ELSE pc' = "running" /\ UNCHANGED found
  /\ UNCHANGED <<vscode, launch, tasks, settled>>

(* A start that ends early: main returns the error, or the program is gone. *)
Abort ==
  /\ pc' = "off"
  /\ input' = None /\ found' = None /\ settled' = None
  /\ UNCHANGED vscode

LaunchUnreadable ==
  /\ pc = "launch"
  /\ ~Loads(launch)
  /\ Abort
  /\ UNCHANGED files

WriteLaunch ==
  /\ pc = "launch"
  /\ Loads(launch)
  /\ launch' = Valid(remove_managed_configurations(launch.entries)
                       \o ManagedConfigs(input))
  /\ pc' = "tasks"
  /\ UNCHANGED <<input, vscode, tasks, found, settled>>

WriteLaunchTorn ==
  /\ pc = "launch"
  /\ Loads(launch)
  /\ launch' \in Torn(launch)
  /\ Abort
  /\ UNCHANGED tasks

TasksUnreadable ==
  /\ pc = "tasks"
  /\ ~Loads(tasks)
  /\ Abort
  /\ UNCHANGED files

WriteTasks ==
  /\ pc = "tasks"
  /\ Loads(tasks)
  /\ tasks' = Valid(remove_managed_tasks(tasks.entries) \o ManagedTasks(input))
  /\ pc' = "running"
  /\ found' = None /\ settled' = input
  /\ UNCHANGED <<input, vscode, launch>>

WriteTasksTorn ==
  /\ pc = "tasks"
  /\ Loads(tasks)
  /\ tasks' \in Torn(tasks)
  /\ Abort
  /\ UNCHANGED launch

Stop ==
  /\ pc = "running"
  /\ pc' = "off"
  /\ input' = None
  /\ UNCHANGED <<vscode, launch, tasks, found, settled>>

-----------------------------------------------------------------------------
(* The user *)

InFile(file) == {file.entries[k] : k \in 1..Len(file.entries)}

(* What may become of a file that its user edits; own are the user's entries. *)
Edited(file, own) ==
  {Blank(state) : state \in Unusual}
    \cup {Valid(<< >>)}
    \cup {Valid(Append(file.entries, e)) : e \in own \ InFile(file)}
    \cup {Valid(Retain(file.entries, InFile(file) \ {gone})) :
            gone \in own \cap InFile(file)}

Edit ==
  /\ pc \in {"off", "running"}
  /\ vscode
  /\ \/ launch' \in Edited(launch, OwnConfigs) /\ UNCHANGED tasks
     \/ tasks' \in Edited(tasks, OwnTasks) /\ UNCHANGED launch
  /\ settled' = None
  /\ UNCHANGED <<pc, input, vscode, found>>

(* The directory comes, or goes with what is in it. *)
Directory ==
  /\ pc \in {"off", "running"}
  /\ vscode' = ~vscode
  /\ launch' = Blank("absent") /\ tasks' = Blank("absent")
  /\ settled' = None
  /\ UNCHANGED <<pc, input, found>>

UserStep == Edit \/ Directory

ProgramStep ==
  \/ \E i \in Inputs : Start(i)
  \/ LaunchUnreadable \/ WriteLaunch \/ WriteLaunchTorn
  \/ TasksUnreadable \/ WriteTasks \/ WriteTasksTorn
  \/ Stop

Next == ProgramStep \/ UserStep

Spec == Init /\ [][Next]_vars

-----------------------------------------------------------------------------
(* Properties *)

Starting == pc \in {"launch", "tasks"}
Completes == pc = "tasks" /\ pc' = "running"

FileOK(file, Entry) ==
  /\ file.state \in Unusual \cup {"valid"}
  /\ file.entries \in Seq(Entry)
  /\ file.state \in Unusual => file.entries = << >>

(* Type invariant: a start is under way only where there is a directory. *)
LaunchTypeOK ==
  /\ pc \in {"off", "launch", "tasks", "running"}
  /\ input \in Inputs \cup {None}
  /\ vscode \in BOOLEAN
  /\ FileOK(launch, Config) /\ FileOK(tasks, Task)
  /\ IF Starting
     THEN /\ vscode /\ input # None
          /\ FileOK(found[1], Config) /\ FileOK(found[2], Task)
     ELSE found = None
  /\ settled \in Inputs \cup {None}

(***************************************************************************)
(* The two files fit together: each configuration of the program names a   *)
(* task that is there, each of its tasks depends on one that is there, no  *)
(* two managed entries have one name, and none is left of another          *)
(* endpoint, of another build or of a component that is not there any      *)
(* more.  What the user's own tasks depend on is the user's business.      *)
(***************************************************************************)
FitTogether(configs, list, i) ==
  LET mine == {k \in 1..Len(configs) : configs[k].name.of # "other"}
      myTasks == {k \in 1..Len(list) :
                    list[k].label.verb # "other" /\ list[k].label.of # "other"}
      labels == {list[k].label : k \in 1..Len(list)}
  IN
  /\ \A k \in mine :
       /\ configs[k].preLaunchTask \in labels \cup {None}
       /\ configs[k].endpoint \in {i.endpoint, None}
       /\ configs[k].name.suffix = i.profile
       /\ i.kind[configs[k].name.of] # "missing"
       /\ \A j \in mine : configs[j].name = configs[k].name => j = k
  /\ \A k \in myTasks :
       /\ list[k].dependsOn \in labels \cup {None}
       /\ list[k].label.suffix = i.profile
       /\ \A j \in myTasks : list[j].label = list[k].label => j = k

Coherent == FitTogether(launch.entries, tasks.entries, input)

(***************************************************************************)
(* Every start that completes leaves the files coherent, whatever earlier  *)
(* starts with another layout, build or endpoint, crashes between the two  *)
(* writes and edits have left (ensure_launch_configs, sync_tasks_json).    *)
(***************************************************************************)
StartedCoherent == [][Completes => Coherent']_vars

UserConfig == {e \in Config : e.name.of = "other"}
UserTask == {e \in Task : e.label.verb = "other"}
Own(file, Entry) == Retain(file.entries, Entry)

(***************************************************************************)
(* The user's own entries, in their order, survive every start that        *)
(* completes.  A start that does not complete leaves each file with them,  *)
(* or empty or invalid as a whole: a torn write may lose them all, and an  *)
(* empty file it leaves is read as a fresh one by the next start.  Never   *)
(* are some of the entries there and others lost, nor their order changed. *)
(***************************************************************************)
OwnEntriesKept ==
  [][Starting =>
       /\ \/ Own(launch', UserConfig) = Own(found[1], UserConfig)
          \/ launch'.state \in Unusual /\ pc' = "off"
       /\ \/ Own(tasks', UserTask) = Own(found[2], UserTask)
          \/ tasks'.state \in Unusual /\ pc' = "off"]_vars

(***************************************************************************)
(* What the program cannot read it does not overwrite, so that its user    *)
(* can repair it; and with an unreadable launch.json it leaves tasks.json  *)
(* alone too (load_launch_json, load_tasks_json).                          *)
(***************************************************************************)
UnreadableKept ==
  [][Starting =>
       /\ found[1].state = "invalid" => UNCHANGED files /\ pc' = "off"
       /\ found[2].state = "invalid" => UNCHANGED tasks /\ pc' # "running"]_vars

(***************************************************************************)
(* A start in the situation of the last one, with nothing done in between, *)
(* leaves both files exactly as they were: they do not grow by starting    *)
(* the program again and again.                                            *)
(***************************************************************************)
SettledStays == [][Completes /\ settled = input => files' = found]_vars

=============================================================================
