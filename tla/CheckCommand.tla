---------------------------- MODULE CheckCommand ----------------------------
(***************************************************************************)
(* core/check.rs: the command that looks at the runtime folder and probes  *)
(* the tools.  It is one task; every look into the runtime folder (one     *)
(* exists, is_dir or is_file) and every child process is a step of its own,*)
(* and the world may change between any two of them; only the looks at the *)
(* program's own path are taken together.  An issue is collected, or the   *)
(* whole check is given up (`?`) with an error; which differs by probe.    *)
(*                                                                         *)
(* pc is <<stage, subject>>:                                               *)
(*   "idle", "locate", "report", "done"    "locate": the program's own path*)
(*   "exists", "directory"    the two looks at the modules folder          *)
(*   "source"     <<.., c>>   looking for a CMake source of component c    *)
(*   "tool"       <<.., t>>   probing a required tool                      *)
(*   "compiler"   <<.., t>>   probing a compiler, until one is found       *)
(*   "exe", "file", "folder"  <<.., c>>   looking for component c          *)
(*   "runExe", "runFile"      <<.., c>>   asking the binary found there    *)
(*   an entry     <<.., c>>   looking for it in the source folder of c     *)
(***************************************************************************)
EXTENDS Naturals, FiniteSets

CONSTANTS
  Windows,       \* built for Windows
  Texts,         \* what a binary may print as its version
  Expected,      \* the one that is the expected version
  Containing,    \* those that have the expected version somewhere in them
  Files,         \* bound: what a binary may do
  Folders,       \* bound: what may be in a source folder
  Doubtful,      \* bound: the parts of the world that may not be in order
  MaxChanges,    \* bound: changes of the world during one check
  None           \* no binary, no child, no outcome, no subject

VARIABLES
  world,      \* the file system, the tools and the registry
  broken,     \* stdout cannot be written to any more
  pc,         \* see above
  sources,    \* cmake_sources
  child,      \* what the child process awaited will answer
  errors,     \* the issues collected
  outcome,    \* how the last check ended
  worlds,     \* history: the worlds that this check has been in
  slow        \* history: the tools whose probe has timed out in it

vars == <<world, broken, pc, sources, child, errors, outcome, worlds, slow>>

Components == {"client", "server"}

(* "native" is cl or cc; reg asks for the long paths. *)
Compilers == {"native", "clang", "gcc"}
RequiredTools == {"cmake", "cargo", "ninja", "clang", "clang++"}
Tools == RequiredTools \cup Compilers \cup {"reg"}

(* What a binary may do when it is asked for its version. *)
Answers == Texts \cup {"nonzero"}

(* What makes a folder a source folder, in the order of the looks. *)
Entries == {"Cargo.toml", "CMakeLists.txt", "package.json", "modules"}

ASSUME CheckAssumptions ==
  /\ Windows \in BOOLEAN
  /\ Expected \in Containing /\ Containing \subseteq Texts
  /\ Texts \cap {"nonzero", "broken", "folder"} = {}
  /\ Expected \in Files /\ Files \subseteq Answers \cup {"broken"}
  /\ Folders \subseteq SUBSET Entries
  /\ Doubtful \subseteq Tools \cup Components \cup {"modules", "longPaths"}
  /\ MaxChanges \in Nat
  /\ None \notin Answers \cup Components \cup Tools
                  \cup {"broken", "folder", "running", "ok", "issues", "aborted"}

(***************************************************************************)
(* What may be found of a component: a binary with the suffix .exe, on     *)
(* Windows only, and at the name itself a binary or a source folder.       *)
(***************************************************************************)
Layouts ==
  {l \in [exe : Files \cup {None}, path : Files \cup {"folder", None},
          inside : Folders \cup {{}}] :
     /\ Windows \/ l.exe = None
     /\ IF l.path = "folder" THEN l.inside \in Folders ELSE l.inside = {}}

InOrder ==
  [exe |-> IF Windows THEN Expected ELSE None,
   path |-> IF Windows THEN None ELSE Expected,
   inside |-> {}]

(* What is not doubtful is there and answers in time. *)
States(part, all, inOrder) == IF part \in Doubtful THEN all ELSE {inOrder}

ModulesStates == States("modules", {"none", "file", "folder"}, "folder")
LayoutStates(c) == States(c, Layouts, InOrder)
ToolStates(t) == States(t, {"absent", "broken", "there"}, "there")
(* "off" stands for unreadable as well: an issue, with another text. *)
LongPathsStates == States("longPaths", {"on", "off"}, "on")

Worlds ==
  [modules : ModulesStates,
   at : {f \in [Components -> Layouts] : \A c \in Components : f[c] \in LayoutStates(c)},
   tool : {f \in [Tools -> {"absent", "broken", "there"}] :
             \A t \in Tools : f[t] \in ToolStates(t)},
   longPaths : LongPathsStates]

(* Where a check may be. *)
Places ==
  ({"idle", "locate", "exists", "directory", "report", "done"} \X {None})
    \cup ({"source", "file", "folder", "runFile"} \X Components)
    \cup (Entries \X Components)
    \cup (IF Windows THEN {"exe", "runExe"} \X Components ELSE {})
    \cup ({"tool"} \X (RequiredTools \cup (IF Windows THEN {"reg"} ELSE {})))
    \cup ({"compiler"} \X Compilers)

Init ==
  /\ world \in Worlds
  /\ broken = FALSE
  /\ pc = <<"idle", None>>
  /\ sources = {} /\ child = None /\ errors = {} /\ outcome = None
  /\ worlds = {world} /\ slow = {}

-----------------------------------------------------------------------------
(* Moves *)

Stage == pc[1]
Subject == pc[2]

outside == <<world, broken, worlds>>

(* Mutant: the child process of a probe that timed out is still awaited. *)
GoOn(place) == pc' = place /\ UNCHANGED <<child, outcome>>

Go(place) == pc' = place /\ child' = None /\ UNCHANGED outcome

End(result) ==
  pc' = <<"done", None>> /\ child' = None /\ outcome' = result

Abort == End("aborted") /\ UNCHANGED <<outside, sources, errors, slow>>

(* print_line(..)? and on. *)
Printed(place) ==
  \/ ~broken /\ Go(place)
  \/ broken /\ End("aborted")

Issue(kind, subject) == errors' = errors \cup {<<kind, subject>>}

NextTool(t) ==
  CASE t = "cmake" -> <<"tool", "cargo">>
    [] t = "cargo" -> <<"tool", "ninja">>
    [] t = "ninja" -> <<"tool", IF Windows THEN "reg" ELSE "clang">>
    [] t = "reg" -> <<"tool", "clang">>
    [] t = "clang" -> <<"tool", "clang++">>
    [] t = "clang++" -> <<"compiler", "native">>

NextCompiler(t) == IF t = "native" THEN "clang" ELSE "gcc"

FirstLook(c) == IF Windows THEN <<"exe", c>> ELSE <<"file", c>>

AfterComponent(c) == IF c = "client" THEN FirstLook("server") ELSE <<"report", None>>

NextEntry(e) ==
  CASE e = "Cargo.toml" -> "CMakeLists.txt"
    [] e = "CMakeLists.txt" -> "package.json"
    [] e = "package.json" -> "modules"

-----------------------------------------------------------------------------
(* CheckCommand::execute up to the components *)

(* Mutant: the list of issues is the command's, not the check's. *)
StartAgain ==
  /\ Stage \in {"idle", "done"}
  /\ pc' = <<"locate", None>>
  /\ outcome' = None
  /\ sources' = {} /\ slow' = {}
  /\ worlds' = {world}
  /\ UNCHANGED <<world, broken, child, errors>>

Start ==
  /\ Stage \in {"idle", "done"}
  /\ pc' = <<"locate", None>>
  /\ outcome' = None
  /\ sources' = {} /\ errors' = {} /\ slow' = {}
  /\ worlds' = {world}
  /\ UNCHANGED <<world, broken, child>>

(* The paths of the program and of the root can still be resolved. *)
Locate ==
  /\ Stage = "locate"
  /\ Printed(<<"exists", None>>)
  /\ UNCHANGED <<outside, sources, errors, slow>>

LocateFails == Stage = "locate" /\ Abort

FindModules ==
  /\ Stage = "exists"
  /\ \/ /\ world.modules # "none"
        /\ Go(<<"directory", None>>)
        /\ UNCHANGED errors
     \/ /\ world.modules = "none"
        /\ Go(<<"source", "client">>)
        /\ Issue("modules", None)
  /\ UNCHANGED <<outside, sources, slow>>

CheckModulesDir ==
  /\ Stage = "directory"
  /\ \/ /\ world.modules = "folder"
        /\ Printed(<<"source", "client">>)
        /\ UNCHANGED errors
     \/ /\ world.modules # "folder"
        /\ Go(<<"source", "client">>)
        /\ Issue("notDirectory", None)
  /\ UNCHANGED <<outside, sources, slow>>

Inside(w, c) == w.at[c].inside
HasCMake(w, c) == "CMakeLists.txt" \in Inside(w, c)

(* Mutant: the component looked at last decides. *)
LastSource ==
  /\ Stage = "source"
  /\ sources' = IF HasCMake(world, Subject) THEN {Subject} ELSE {}
  /\ \/ Subject = "client" /\ Go(<<"source", "server">>)
     \/ Subject = "server" /\ sources' = {} /\ Go(FirstLook("client"))
     \/ Subject = "server" /\ sources' # {} /\ Printed(<<"tool", "cmake">>)
  /\ UNCHANGED <<outside, errors, slow>>

DiscoverSource ==
  /\ Stage = "source"
  /\ sources' = IF HasCMake(world, Subject) THEN sources \cup {Subject} ELSE sources
  /\ \/ Subject = "client" /\ Go(<<"source", "server">>)
     \/ Subject = "server" /\ sources' = {} /\ Go(FirstLook("client"))
     \/ Subject = "server" /\ sources' # {} /\ Printed(<<"tool", "cmake">>)
  /\ UNCHANGED <<outside, errors, slow>>

-----------------------------------------------------------------------------
(* check_native_toolchain: a child process per probe, 3 seconds each *)

Probing == Stage \in {"tool", "compiler"}

Spawn ==
  /\ Probing /\ child = None /\ world.tool[Subject] = "there"
  /\ child' = "running"
  /\ UNCHANGED <<outside, pc, sources, errors, outcome, slow>>

SpawnFails == Probing /\ child = None /\ world.tool[Subject] = "broken" /\ Abort

(* probe_command_version returns None: the tool counts as missing. *)
Missing ==
  \/ /\ Stage = "tool" /\ Subject # "reg"
     /\ Issue("tool", Subject)
     /\ Go(NextTool(Subject))
  \/ /\ Stage = "compiler" /\ Subject # "gcc"
     /\ Go(<<"compiler", NextCompiler(Subject)>>)
     /\ UNCHANGED errors
  \/ /\ Stage = "compiler" /\ Subject = "gcc"
     /\ Issue("compiler", None)
     /\ Go(FirstLook("client"))
  \/ /\ Stage = "tool" /\ Subject = "reg"
     /\ End("aborted")
     /\ UNCHANGED errors

NotFound ==
  /\ Probing /\ child = None /\ world.tool[Subject] = "absent"
  /\ Missing
  /\ UNCHANGED <<outside, sources, slow>>

(* Mutant: what did not answer in time is probed once more, and again. *)
TimesOutAgain ==
  /\ Probing /\ child # None /\ Subject \in Doubtful
  /\ slow' = slow \cup {Subject}
  /\ Go(pc)
  /\ UNCHANGED <<outside, sources, errors>>

TimesOut ==
  /\ Probing /\ child # None /\ Subject \in Doubtful
  /\ slow' = slow \cup {Subject}
  /\ Missing
  /\ UNCHANGED <<outside, sources>>

(* Whatever a tool answers, and whatever its status, it is there. *)
ToolAnswers ==
  /\ Probing /\ child # None /\ Subject # "reg"
  /\ Printed(IF Stage = "tool" THEN NextTool(Subject) ELSE FirstLook("client"))
  /\ UNCHANGED <<outside, sources, errors, slow>>

RegAnswers ==
  /\ Stage = "tool" /\ child # None /\ Subject = "reg"
  /\ \/ /\ world.longPaths = "on"
        /\ Printed(NextTool("reg"))
        /\ UNCHANGED errors
     \/ /\ world.longPaths # "on"
        /\ Go(NextTool("reg"))
        /\ Issue("longPaths", None)
  /\ UNCHANGED <<outside, sources, slow>>

-----------------------------------------------------------------------------
(* check_component, once for each *)

Exe(w, c) == w.at[c].exe
Path(w, c) == w.at[c].path

(* The program that runs by the name of c: Windows prefers the suffix. *)
Program(w, c) == IF Exe(w, c) # None THEN Exe(w, c) ELSE Path(w, c)

(* resolve_component_kind: the candidates in turn, then the folder. *)
FindExe ==
  /\ Stage = "exe"
  /\ \/ Exe(world, Subject) # None /\ Printed(<<"runExe", Subject>>)
     \/ Exe(world, Subject) = None /\ Go(<<"file", Subject>>)
  /\ UNCHANGED <<outside, sources, errors, slow>>

FindFile ==
  /\ Stage = "file"
  /\ \/ Path(world, Subject) \in Files /\ Printed(<<"runFile", Subject>>)
     \/ Path(world, Subject) \notin Files /\ Go(<<"folder", Subject>>)
  /\ UNCHANGED <<outside, sources, errors, slow>>

FindFolder ==
  /\ Stage = "folder"
  /\ \/ /\ Path(world, Subject) = "folder"
        /\ Printed(<<"Cargo.toml", Subject>>)
        /\ UNCHANGED errors
     \/ /\ Path(world, Subject) # "folder"
        /\ Go(AfterComponent(Subject))
        /\ Issue("component", Subject)
  /\ UNCHANGED <<outside, sources, slow>>

(* check_source_folder, one look after the other until one finds its entry. *)
CheckSourceFolder ==
  /\ Stage \in Entries
  /\ \/ /\ Stage \in Inside(world, Subject)
        /\ Printed(AfterComponent(Subject))
        /\ UNCHANGED errors
     \/ /\ Stage \notin Inside(world, Subject) /\ Stage # "modules"
        /\ Go(<<NextEntry(Stage), Subject>>)
        /\ UNCHANGED errors
     \/ /\ Stage \notin Inside(world, Subject) /\ Stage = "modules"
        /\ Go(AfterComponent(Subject))
        /\ Issue("manifest", Subject)
  /\ UNCHANGED <<outside, sources, slow>>

Asking == Stage \in {"runExe", "runFile"}

(* The program that is there by now, under the path that was found. *)
Started(w) == IF Stage = "runExe" THEN Exe(w, Subject) ELSE Program(w, Subject)

(* A child process of 5 seconds. *)
RunBinary ==
  /\ Asking /\ child = None
  /\ Started(world) \in Answers
  /\ child' = Started(world)
  /\ UNCHANGED <<outside, pc, sources, errors, outcome, slow>>

(* Mutant: a binary that cannot be run is one that fails. *)
RunFailsIssue ==
  /\ Asking /\ child = None
  /\ Started(world) \notin Answers
  /\ Go(AfterComponent(Subject))
  /\ Issue("status", Subject)
  /\ UNCHANGED <<outside, sources, slow>>

(* Mutant: a binary that cannot be run is passed over. *)
RunFailsPassed ==
  /\ Asking /\ child = None
  /\ Started(world) \notin Answers
  /\ Go(AfterComponent(Subject))
  /\ UNCHANGED <<outside, sources, errors, slow>>

RunFails ==
  /\ Asking /\ child = None
  /\ Started(world) \notin Answers
  /\ Abort

BinaryAnswers ==
  /\ Asking /\ child # None
  /\ \/ /\ child \in Containing
        /\ Printed(AfterComponent(Subject))
        /\ UNCHANGED errors
     \/ /\ child \in Texts \ Containing
        /\ Go(AfterComponent(Subject))
        /\ Issue("version", Subject)
     \/ /\ child = "nonzero"
        /\ Go(AfterComponent(Subject))
        /\ Issue("status", Subject)
  /\ UNCHANGED <<outside, sources, slow>>

(* Mutant: the version is awaited for as long as it takes. *)
BinaryNoTimeout == FALSE

BinaryTimesOut ==
  Asking /\ child # None /\ Subject \in Doubtful /\ Abort

Report ==
  /\ Stage = "report"
  /\ \/ broken /\ End("aborted")
     \/ ~broken /\ End(IF errors = {} THEN "ok" ELSE "issues")
  /\ UNCHANGED <<outside, sources, errors, slow>>

Answer == ToolAnswers \/ RegAnswers \/ BinaryAnswers

CheckStep ==
  \/ Locate \/ LocateFails \/ FindModules \/ CheckModulesDir \/ DiscoverSource
  \/ Spawn \/ SpawnFails \/ NotFound \/ TimesOut
  \/ FindExe \/ FindFile \/ FindFolder \/ CheckSourceFolder
  \/ RunBinary \/ RunFails \/ BinaryTimesOut
  \/ Report

-----------------------------------------------------------------------------
(* The world *)

Running == Stage \notin {"idle", "done"}

(***************************************************************************)
(* Somebody installs, builds or removes something while a check runs; what *)
(* changes between two checks is in the choice of the first world.         *)
(***************************************************************************)
Change ==
  /\ Running
  /\ \/ \E m \in ModulesStates : world' = [world EXCEPT !.modules = m]
     \/ \E c \in Components : \E l \in LayoutStates(c) : world' = [world EXCEPT !.at[c] = l]
     \/ \E t \in Tools : \E s \in ToolStates(t) : world' = [world EXCEPT !.tool[t] = s]
     \/ \E p \in LongPathsStates : world' = [world EXCEPT !.longPaths = p]
  /\ world' \notin worlds /\ Cardinality(worlds) <= MaxChanges
  /\ worlds' = worlds \cup {world'}
  /\ UNCHANGED <<broken, pc, sources, child, errors, outcome, slow>>

BreakOutput ==
  /\ ~broken /\ broken' = TRUE
  /\ UNCHANGED <<world, pc, sources, child, errors, outcome, worlds, slow>>

Next == Start \/ CheckStep \/ Answer \/ Change \/ BreakOutput

Spec == Init /\ [][Next]_vars

(***************************************************************************)
(* Fairness: the check is a task that the runtime schedules, and the timer *)
(* of an await runs out; what is doubtful need not answer.                 *)
(***************************************************************************)
FairSpec ==
  /\ Spec
  /\ WF_vars(CheckStep)
  /\ WF_vars(Subject \notin Doubtful /\ Answer)

-----------------------------------------------------------------------------
(* What an issue stands for *)

(***************************************************************************)
(* The facts about a world that issues are made of, one for each look: an  *)
(* entry stands for its lack.  A tool is required only by a CMake source.  *)
(***************************************************************************)
Holds(w, kind, subject) ==
  CASE kind = "noModules" -> w.modules = "none"
    [] kind = "present" -> w.modules # "none"
    [] kind = "notDirectory" -> w.modules # "folder"
    [] kind = "absent" -> w.tool[subject] = "absent"
    [] kind = "noLongPaths" -> w.longPaths # "on"
    [] kind = "noExe" -> Exe(w, subject) = None
    [] kind = "noFile" -> Path(w, subject) \notin Files
    [] kind = "noFolder" -> Path(w, subject) # "folder"
    [] kind = "folder" -> Path(w, subject) = "folder"
    [] kind = "fails" -> Program(w, subject) = "nonzero"
    [] kind = "mismatch" -> Program(w, subject) \in Texts \ Containing
    [] OTHER -> kind \notin Inside(w, subject)

Facts(kind, subject) ==
  CASE kind = "modules" -> {<<"noModules", None>>}
    [] kind = "notDirectory" -> {<<"present", None>>, <<"notDirectory", None>>}
    [] kind = "tool" -> {<<"absent", subject>>}
    [] kind = "longPaths" -> {<<"noLongPaths", None>>}
    [] kind = "compiler" -> {<<"absent", t>> : t \in Compilers}
    [] kind = "component" -> {"noExe", "noFile", "noFolder"} \X {subject}
    [] kind = "manifest" -> ({"noExe", "noFile", "folder"} \cup Entries) \X {subject}
    [] kind = "status" -> {<<"fails", subject>>}
    [] kind = "version" -> {<<"mismatch", subject>>}

ToolchainIssues ==
  {<<"tool", t>> : t \in RequiredTools}
    \cup {<<"compiler", None>>}
    \cup (IF Windows THEN {<<"longPaths", None>>} ELSE {})

Issues ==
  {<<"modules", None>>, <<"notDirectory", None>>} \cup ToolchainIssues
    \cup {"component", "manifest", "status", "version"} \X Components

-----------------------------------------------------------------------------
(* Properties *)

(***************************************************************************)
(* Type invariant; a child is awaited only where the check asks for one,   *)
(* and an outcome is there exactly when the check has ended.               *)
(***************************************************************************)
CheckTypeOK ==
  /\ world \in Worlds /\ worlds \subseteq Worlds /\ world \in worlds
  /\ broken \in BOOLEAN
  /\ pc \in Places
  /\ sources \subseteq Components
  /\ child \in Answers \cup {"running", None}
  /\ errors \subseteq Issues
  /\ outcome \in {"ok", "issues", "aborted", None}
  /\ slow \subseteq Tools
  /\ child # None => IF Probing THEN child = "running" ELSE Asking
  /\ outcome # None <=> Stage = "done"

(***************************************************************************)
(* Nothing is made up: every fact that a collected issue rests on, one for *)
(* each look that led to it, was true at some moment of this check, unless *)
(* it is about a tool whose probe has timed out, and tools are only asked  *)
(* for if a CMake source was there.  The facts need not have been true at  *)
(* the same moment: of a folder in which one manifest takes the place of   *)
(* another during the looks, the check may say that none was found.        *)
(***************************************************************************)
Seen(kind, subject) ==
  \/ kind = "absent" /\ subject \in slow
  \/ \E w \in worlds : Holds(w, kind, subject)

NothingMadeUp ==
  \A e \in errors :
    /\ \A f \in Facts(e[1], e[2]) : Seen(f[1], f[2])
    /\ e \in ToolchainIssues => \E w \in worlds, c \in Components : HasCMake(w, c)

(***************************************************************************)
(* Nothing is missed: a check that was not given up has every issue whose  *)
(* facts held all the time, whatever else changed meanwhile; in particular *)
(* it does not say "Check completed successfully" then.                    *)
(***************************************************************************)
Lasting(kind, subject) == \A w \in worlds : Holds(w, kind, subject)

LastingSource == \E c \in Components : \A w \in worlds : HasCMake(w, c)

(* A binary that answers is there under the same name all the time. *)
Settled(c) == \A w, v \in worlds : Exe(w, c) = None <=> Exe(v, c) = None

Certain(e) ==
  /\ \A f \in Facts(e[1], e[2]) : Lasting(f[1], f[2])
  /\ e \in ToolchainIssues => LastingSource
  /\ e[1] \in {"status", "version"} => Settled(e[2])

NothingMissed ==
  /\ outcome \in {"ok", "issues"} => \A e \in Issues : Certain(e) => e \in errors
  /\ outcome = "ok" => errors = {}

(***************************************************************************)
(* What success vouches for: when a check ends with "Check completed       *)
(* successfully" it has met, each at some moment of this check, the folder *)
(* of modules, of each component a program of the expected version or a    *)
(* source folder with an entry, and for a CMake source that was there all  *)
(* the time every required tool, a compiler and the long paths.  Nothing   *)
(* that vanishes, cannot be started or stays silent passes for it.         *)
(***************************************************************************)
Vouched ==
  outcome = "ok" =>
    /\ \E w \in worlds : w.modules = "folder"
    /\ \A c \in Components : \E w \in worlds :
         Program(w, c) \in Containing \/ Inside(w, c) # {}
    /\ LastingSource =>
         /\ \A t \in RequiredTools : \E w \in worlds : w.tool[t] = "there"
         /\ \E t \in Compilers, w \in worlds : w.tool[t] = "there"
         /\ Windows => \E w \in worlds : w.longPaths = "on"

(***************************************************************************)
(* Every check ends, whatever its child processes do: each wait has a      *)
(* timeout.  The core serves nobody else before.                           *)
(***************************************************************************)
CheckEnds == Running ~> ~Running

(* How many more places a check may come to; the check of a component has  *)
(* seven and is made twice.                                                *)
OfComponent(stage, c) ==
  (CASE stage = "exe" -> 8
     [] stage = "file" -> 7
     [] stage \in {"folder", "runExe", "runFile"} -> 6
     [] stage = "Cargo.toml" -> 5
     [] stage = "CMakeLists.txt" -> 4
     [] stage = "package.json" -> 3
     [] stage = "modules" -> 2)
  + IF c = "client" THEN 7 ELSE 0

OfToolchain(t) ==
  CASE t = "cmake" -> 24
    [] t = "cargo" -> 23
    [] t = "ninja" -> 22
    [] t = "reg" -> 21
    [] t = "clang" -> 20
    [] t = "clang++" -> 19

OfCompiler(t) == CASE t = "native" -> 18 [] t = "clang" -> 17 [] t = "gcc" -> 16

AtComponent == {"exe", "file", "folder", "runExe", "runFile"} \cup Entries

PlacesLeft(place) ==
  CASE place[1] = "locate" -> 29
    [] place[1] = "exists" -> 28
    [] place[1] = "directory" -> 27
    [] place[1] = "source" -> IF place[2] = "client" THEN 26 ELSE 25
    [] place[1] = "tool" -> OfToolchain(place[2])
    [] place[1] = "compiler" -> OfCompiler(place[2])
    [] place[1] \in AtComponent -> OfComponent(place[1], place[2])
    [] place[1] = "report" -> 1
    [] place[1] \in {"idle", "done"} -> 0

(* At each place a child may be spawned, once.                             *)
MovesLeft == 2 * PlacesLeft(pc) + IF child = None THEN 1 ELSE 0

(***************************************************************************)
(* A check never goes round in circles: every move of its own brings it    *)
(* nearer its end, at most 58 of them, and what the world does meanwhile   *)
(* leaves it where it is.  Nothing is probed again, because it timed out   *)
(* or because the world has changed, and no component is looked at twice.  *)
(***************************************************************************)
AdvanceStep ==
  Running => \/ UNCHANGED <<pc, sources, child, errors, outcome, slow>>
             \/ MovesLeft' < MovesLeft

CheckAdvances == [][AdvanceStep]_vars

=============================================================================
