---------------------------- MODULE CheckProofs ----------------------------
(***************************************************************************)
(* Proofs about the check command, for any world it may run in, any        *)
(* changes of that world and any binaries.                                 *)
(***************************************************************************)
EXTENDS CheckCommand, TLAPS

-----------------------------------------------------------------------------
(* Types *)

(* A component in order is one of the layouts.                              *)
LEMMA InOrderType == InOrder \in Layouts
  BY CheckAssumptions DEF InOrder, Layouts, Answers

(* Whatever changes, the world stays one that there may be.                 *)
LEMMA WorldType ==
  ASSUME world \in Worlds, Change
  PROVE  world' \in Worlds
  <1> USE DEF Worlds
  <1>1. CASE \E m \in ModulesStates : world' = [world EXCEPT !.modules = m]
    BY <1>1
  <1>2. ASSUME NEW c \in Components, NEW l \in LayoutStates(c),
               world' = [world EXCEPT !.at[c] = l]
        PROVE  world' \in Worlds
    <2>1. l \in Layouts
      BY InOrderType DEF LayoutStates, States
    <2>2. world'.at = [world.at EXCEPT ![c] = l]
      BY <1>2
    <2>3. /\ world'.modules = world.modules /\ world'.tool = world.tool
          /\ world'.longPaths = world.longPaths
          /\ world' = [modules |-> world'.modules, at |-> world'.at,
                       tool |-> world'.tool, longPaths |-> world'.longPaths]
      BY <1>2
    <2> QED
      BY <2>1, <2>2, <2>3
  <1>3. ASSUME NEW t \in Tools, NEW s \in ToolStates(t),
               world' = [world EXCEPT !.tool[t] = s]
        PROVE  world' \in Worlds
    <2>1. s \in {"absent", "broken", "there"}
      BY DEF ToolStates, States
    <2>2. world'.tool = [world.tool EXCEPT ![t] = s]
      BY <1>3
    <2>3. /\ world'.modules = world.modules /\ world'.at = world.at
          /\ world'.longPaths = world.longPaths
          /\ world' = [modules |-> world'.modules, at |-> world'.at,
                       tool |-> world'.tool, longPaths |-> world'.longPaths]
      BY <1>3
    <2> QED
      BY <2>1, <2>2, <2>3
  <1>4. CASE \E p \in LongPathsStates : world' = [world EXCEPT !.longPaths = p]
    BY <1>4
  <1> QED
    BY <1>1, <1>2, <1>3, <1>4 DEF Change

(* Where a check goes next is a place.                                      *)
LEMMA NextPlaces ==
  /\ \A c \in Components : FirstLook(c) \in Places /\ AfterComponent(c) \in Places
  /\ \A e \in Entries, c \in Components : <<e, c>> \in Places
  /\ \A e \in Entries \ {"modules"} : NextEntry(e) \in Entries
  /\ \A t \in RequiredTools \cup {"reg"} : NextTool(t) \in Places
  /\ \A t \in Compilers : <<"compiler", NextCompiler(t)>> \in Places
  /\ \A t \in RequiredTools \cup {"reg"} :
       NextTool(t) = <<"tool", "reg">> => Windows
  BY CheckAssumptions
     DEF FirstLook, AfterComponent, NextEntry, Entries, NextTool, NextCompiler, Places, Components,
         RequiredTools, Compilers

(* What a place says of its subject.                                        *)
LEMMA PlaceSubject ==
  ASSUME pc \in Places
  PROVE  /\ pc = <<Stage, Subject>>
         /\ Stage \in {"source"} \cup AtComponent => Subject \in Components
         /\ Stage \in {"exe", "runExe"} => Windows
         /\ Stage = "tool" => Subject \in RequiredTools \cup {"reg"}
         /\ Stage = "tool" /\ Subject = "reg" => Windows
         /\ Stage = "compiler" => Subject \in Compilers
         /\ Probing => Subject \in Tools
         /\ ~Probing /\ ~Asking => Stage \in
              {"idle", "locate", "exists", "directory", "report", "done", "source",
               "exe", "file", "folder"} \cup Entries
  BY CheckAssumptions
     DEF Places, Stage, Subject, Probing, Asking, AtComponent, Entries, Components,
         RequiredTools, Compilers, Tools

(* A step of the check: on to a place, or to its end.                       *)
GoesOn == \E place \in Places : place[1] # "done" /\ Go(place)
Ends == \E r \in {"ok", "issues", "aborted"} : End(r)

(* A step that only collects, goes on or ends keeps the type invariant. *)
LEMMA CollectedType ==
  ASSUME CheckTypeOK, Stage # "done", UNCHANGED outside, sources' \subseteq Components,
         slow' \subseteq Tools, errors' \subseteq Issues, GoesOn \/ Ends
  PROVE  CheckTypeOK'
  <1>1. <<"done", None>> \in Places
    BY DEF Places
  <1>2. pc' \in Places /\ child' = None
    BY <1>1 DEF GoesOn, Ends, Go, End
  <1>3. outcome' # None <=> Stage' = "done"
    <2>1. CASE GoesOn
      <3>1. outcome' = outcome /\ Stage' # "done"
        BY <2>1 DEF GoesOn, Go, Stage
      <3> QED
        BY <3>1 DEF CheckTypeOK
    <2>2. CASE Ends
      BY <2>2, CheckAssumptions DEF Ends, End, Stage
    <2> QED
      BY <2>1, <2>2
  <1>4. outcome' \in {"ok", "issues", "aborted", None}
    BY DEF GoesOn, Ends, Go, End, CheckTypeOK
  <1>5. world' \in Worlds /\ worlds' \subseteq Worlds /\ world' \in worlds'
    BY DEF outside, CheckTypeOK
  <1>6. broken' \in BOOLEAN
    BY DEF outside, CheckTypeOK
  <1> QED
    BY <1>2, <1>3, <1>4, <1>5, <1>6 DEF CheckTypeOK

(* The issues a step may add are issues.                                    *)
LEMMA IssueTypes ==
  /\ <<"modules", None>> \in Issues /\ <<"notDirectory", None>> \in Issues
  /\ <<"compiler", None>> \in Issues
  /\ \A t \in RequiredTools : <<"tool", t>> \in Issues
  /\ Windows => <<"longPaths", None>> \in Issues
  /\ \A k \in {"component", "manifest", "status", "version"}, c \in Components :
       <<k, c>> \in Issues
  BY DEF Issues, ToolchainIssues

(* Every step of the check that starts no child keeps the types.            *)
LEMMA ProgressType ==
  ASSUME CheckTypeOK,
         \/ Locate \/ LocateFails \/ FindModules \/ CheckModulesDir \/ DiscoverSource
         \/ SpawnFails \/ NotFound \/ TimesOut
         \/ FindExe \/ FindFile \/ FindFolder \/ CheckSourceFolder
         \/ RunFails \/ BinaryTimesOut \/ Answer \/ Report
  PROVE  CheckTypeOK'
  <1>0. Stage # "done"
    BY DEF Locate, LocateFails, FindModules, CheckModulesDir, DiscoverSource,
           SpawnFails, NotFound, TimesOut, FindExe, FindFile, FindFolder,
           CheckSourceFolder, RunFails, BinaryTimesOut, Answer, ToolAnswers,
           RegAnswers, BinaryAnswers, Report, Probing, Asking, Entries
  <1> USE <1>0, PlaceSubject, NextPlaces, IssueTypes DEF CheckTypeOK
  <1>1. /\ <<"exists", None>> \in Places /\ <<"directory", None>> \in Places
        /\ <<"tool", "cmake">> \in Places
        /\ \A k \in {"source", "file", "folder", "runFile", "Cargo.toml"},
              c \in Components : <<k, c>> \in Places
        /\ Windows => \A c \in Components : <<"runExe", c>> \in Places
        /\ "client" \in Components /\ "server" \in Components
    BY DEF Places, RequiredTools, Components, Entries
  <1>2. /\ \A c \in Components : AfterComponent(c)[1] # "done" /\ FirstLook(c)[1] # "done"
        /\ \A e \in Entries : e # "done"
        /\ \A t \in RequiredTools \cup {"reg"} : NextTool(t)[1] # "done"
    BY DEF AfterComponent, FirstLook, NextTool, RequiredTools, Entries
  <1>3. \A place \in Places :
          place[1] # "done" /\ (Go(place) \/ Printed(place)) => GoesOn \/ Ends
    BY DEF Printed, GoesOn, Ends
  <1>4. \A r \in {"ok", "issues", "aborted"} : End(r) => Ends
    BY DEF Ends
  <1>5. CASE LocateFails \/ SpawnFails \/ RunFails \/ BinaryTimesOut
    BY <1>5, <1>4, CollectedType
       DEF LocateFails, SpawnFails, RunFails, BinaryTimesOut, Abort
  <1>6. CASE Locate \/ FindModules \/ CheckModulesDir
    BY <1>6, <1>1, <1>3, CollectedType DEF Locate, FindModules, CheckModulesDir, Issue
  <1>7. CASE DiscoverSource
    BY <1>7, <1>1, <1>2, <1>3, CollectedType DEF DiscoverSource
  <1>8. CASE FindExe \/ FindFile \/ FindFolder \/ CheckSourceFolder
    <2>1. Subject \in Components /\ (Stage = "exe" => Windows)
      BY <1>8 DEF FindExe, FindFile, FindFolder, CheckSourceFolder, AtComponent
    <2>2. /\ UNCHANGED <<outside, sources, slow>> /\ errors' \subseteq Issues
      BY <1>8, <2>1 DEF FindExe, FindFile, FindFolder, CheckSourceFolder, Issue
    <2>3. GoesOn \/ Ends
      <3>1. CASE FindExe \/ FindFile \/ FindFolder
        BY <3>1, <2>1, <1>1, <1>2, <1>3 DEF FindExe, FindFile, FindFolder
      <3>2. CASE CheckSourceFolder
        BY <3>2, <2>1, <1>2, <1>3 DEF CheckSourceFolder
      <3> QED
        BY <1>8, <3>1, <3>2
    <2> QED
      BY <2>2, <2>3, CollectedType
  <1>9. CASE NotFound \/ TimesOut
    <2>1. slow' \subseteq Tools /\ UNCHANGED <<outside, sources>>
      BY <1>9 DEF NotFound, TimesOut
    <2>2. Missing
      BY <1>9 DEF NotFound, TimesOut
    <2>3. errors' \subseteq Issues
      BY <2>2 DEF Missing, Issue
    <2>4. GoesOn \/ Ends
      BY <2>2, <1>1, <1>2, <1>3, <1>4 DEF Missing
    <2> QED
      BY <2>1, <2>3, <2>4, CollectedType
  <1>10. CASE ToolAnswers \/ RegAnswers
    <2>1. UNCHANGED <<outside, sources, slow>> /\ errors' \subseteq Issues
      BY <1>10 DEF ToolAnswers, RegAnswers, Issue
    <2>2. GoesOn \/ Ends
      BY <1>10, <1>1, <1>2, <1>3 DEF ToolAnswers, RegAnswers, Probing
    <2> QED
      BY <2>1, <2>2, CollectedType
  <1>11. CASE BinaryAnswers
    <2>0. Subject \in Components
      BY <1>11 DEF BinaryAnswers, Asking, AtComponent
    <2>1. UNCHANGED <<outside, sources, slow>> /\ errors' \subseteq Issues
      BY <1>11, <2>0 DEF BinaryAnswers, Issue
    <2>2. GoesOn \/ Ends
      BY <1>11, <2>0, <1>2, <1>3 DEF BinaryAnswers
    <2> QED
      BY <2>1, <2>2, CollectedType
  <1>12. CASE Report
    BY <1>12, <1>4, CollectedType DEF Report
  <1> QED
    BY <1>5, <1>6, <1>7, <1>8, <1>9, <1>10, <1>11, <1>12 DEF Answer

(* Every step keeps the type invariant. *)
LEMMA TypeStep == CheckTypeOK /\ [Next]_vars => CheckTypeOK'
  <1> SUFFICES ASSUME CheckTypeOK, [Next]_vars
               PROVE  CheckTypeOK'
    OBVIOUS
  <1> USE CheckAssumptions, PlaceSubject DEF CheckTypeOK
  <1>1. CASE Start
    <2>1. pc' \in Places /\ Stage' = "locate"
      BY <1>1 DEF Start, Places, Stage
    <2>2. child' = None
      BY <1>1 DEF Start, Probing, Asking
    <2> QED
      BY <1>1, <2>1, <2>2 DEF Start
  <1>2. CASE Spawn
    BY <1>2 DEF Spawn, outside, Probing, Asking, Stage, Subject
  <1>3. CASE RunBinary
    BY <1>3 DEF RunBinary, outside, Probing, Asking, Stage, Subject
  <1>4. CASE Change
    BY <1>4, WorldType DEF Change, Probing, Asking, Stage, Subject
  <1>5. CASE BreakOutput
    <2>1. broken' \in BOOLEAN
      BY <1>5, Zenon DEF BreakOutput
    <2> QED
      BY <1>5, <2>1 DEF BreakOutput, Probing, Asking, Stage, Subject
  <1>6. CASE UNCHANGED vars
    BY <1>6 DEF vars, Probing, Asking, Stage, Subject
  <1> QED
    BY <1>1, <1>2, <1>3, <1>4, <1>5, <1>6, ProgressType
       DEF Next, CheckStep

(* The type invariant holds before the first check. *)
LEMMA TypeInit == Init => CheckTypeOK
  <1> SUFFICES ASSUME Init
               PROVE  CheckTypeOK
    OBVIOUS
  <1>1. pc \in Places /\ Stage = "idle"
    BY DEF Init, Places, Stage
  <1>2. broken \in BOOLEAN
    BY Zenon DEF Init
  <1> QED
    BY <1>1, <1>2, CheckAssumptions DEF Init, CheckTypeOK

(***************************************************************************)
(* The check keeps its types: a child is awaited only where it asks for    *)
(* one, and it has an outcome exactly when it has ended.                   *)
(***************************************************************************)
THEOREM CheckTypeCorrect == Spec => []CheckTypeOK
  BY TypeInit, TypeStep, PTL DEF Spec

-----------------------------------------------------------------------------
(* Nothing is made up *)

(* The facts of an issue, seen in the worlds W or taken for granted in S.   *)
SeenIn(W, S, kind, subject) ==
  \/ kind = "absent" /\ subject \in S
  \/ \E w \in W : Holds(w, kind, subject)

ToolchainSeen(W) == \E w \in W, c \in Components : HasCMake(w, c)

Why(W, S, e) ==
  /\ \A f \in Facts(e[1], e[2]) : SeenIn(W, S, f[1], f[2])
  /\ e \in ToolchainIssues => ToolchainSeen(W)

(* NothingMadeUp, issue by issue: each one has a reason in the worlds seen. *)
LEMMA MadeUpWhy ==
  /\ NothingMadeUp <=> \A e \in errors : Why(worlds, slow, e)
  /\ NothingMadeUp' <=> \A e \in errors' : Why(worlds', slow', e)
  BY DEF NothingMadeUp, Why, SeenIn, Seen, ToolchainSeen

(* What is seen remains seen.                                               *)
LEMMA WhyMono ==
  ASSUME NEW W, NEW V, NEW S, NEW T, W \subseteq V, S \subseteq T
  PROVE  /\ \A k, x : SeenIn(W, S, k, x) => SeenIn(V, T, k, x)
         /\ ToolchainSeen(W) => ToolchainSeen(V)
         /\ \A e : Why(W, S, e) => Why(V, T, e)
  BY DEF Why, SeenIn, ToolchainSeen

(* Which kinds of issue are about the toolchain.                            *)
LEMMA ToolchainKinds ==
  \A k, x : <<k, x>> \in ToolchainIssues => k \in {"tool", "compiler", "longPaths"}
  BY DEF ToolchainIssues

(* What it takes to report each kind.                                       *)
LEMMA WhyCases ==
  ASSUME NEW W, NEW S
  PROVE  /\ SeenIn(W, S, "noModules", None) => Why(W, S, <<"modules", None>>)
         /\ SeenIn(W, S, "present", None) /\ SeenIn(W, S, "notDirectory", None)
              => Why(W, S, <<"notDirectory", None>>)
         /\ \A t : SeenIn(W, S, "absent", t) /\ ToolchainSeen(W)
                     => Why(W, S, <<"tool", t>>)
         /\ (\A t \in Compilers : SeenIn(W, S, "absent", t)) /\ ToolchainSeen(W)
              => Why(W, S, <<"compiler", None>>)
         /\ SeenIn(W, S, "noLongPaths", None) /\ ToolchainSeen(W)
              => Why(W, S, <<"longPaths", None>>)
         /\ \A c : (\A k \in {"noExe", "noFile", "noFolder"} : SeenIn(W, S, k, c))
                     => Why(W, S, <<"component", c>>)
         /\ \A c : (\A k \in {"noExe", "noFile", "folder"} \cup Entries :
                        SeenIn(W, S, k, c))
                     => Why(W, S, <<"manifest", c>>)
         /\ \A c : SeenIn(W, S, "fails", c) => Why(W, S, <<"status", c>>)
         /\ \A c : SeenIn(W, S, "mismatch", c) => Why(W, S, <<"version", c>>)
  BY ToolchainKinds DEF Why, Facts

(* One more issue with its reason.                                          *)
LEMMA OneMore ==
  ASSUME NothingMadeUp, worlds \subseteq worlds', slow \subseteq slow',
         NEW e, Why(worlds', slow', e), errors' \subseteq errors \cup {e}
  PROVE  NothingMadeUp'
  BY MadeUpWhy, WhyMono

(* A step that collects nothing new makes nothing up: worlds and slow probes*)
(* are only added to.                                                      *)
LEMMA NoMore ==
  ASSUME NothingMadeUp, worlds \subseteq worlds', slow \subseteq slow',
         errors' \subseteq errors
  PROVE  NothingMadeUp'
  BY MadeUpWhy, WhyMono

(* The facts that a check of a component has met on its way to a stage.     *)
Met(stage) ==
  CASE stage = "file" -> {"noExe"}
    [] stage = "folder" -> {"noExe", "noFile"}
    [] stage = "Cargo.toml" -> {"noExe", "noFile", "folder"}
    [] stage = "CMakeLists.txt" -> {"noExe", "noFile", "folder", "Cargo.toml"}
    [] stage = "package.json" ->
         {"noExe", "noFile", "folder", "Cargo.toml", "CMakeLists.txt"}
    [] stage = "modules" ->
         {"noExe", "noFile", "folder", "Cargo.toml", "CMakeLists.txt", "package.json"}
    [] OTHER -> {}

(***************************************************************************)
(* What the place of a check says of what it has seen: the way there.      *)
(***************************************************************************)
PlaceInv ==
  /\ \A c \in sources : \E w \in worlds : HasCMake(w, c)
  /\ Probing => sources # {}
  /\ pc = <<"compiler", "clang">> => SeenIn(worlds, slow, "absent", "native")
  /\ pc = <<"compiler", "gcc">> =>
       /\ SeenIn(worlds, slow, "absent", "native")
       /\ SeenIn(worlds, slow, "absent", "clang")
  /\ Probing /\ child # None =>
       \E w \in worlds : w.tool[Subject] = "there"
  /\ Stage = "directory" => SeenIn(worlds, slow, "present", None)
  /\ \A k \in Met(Stage) : SeenIn(worlds, slow, k, Subject)
  /\ Stage = "runExe" => \E w \in worlds : Exe(w, Subject) # None
  /\ Stage = "runFile" =>
       /\ SeenIn(worlds, slow, "noExe", Subject)
       /\ \E w \in worlds : Path(w, Subject) \in Files
  /\ Asking /\ child # None => \E w \in worlds : Program(w, Subject) = child

(* What is met from stage to stage.                                         *)
LEMMA MetNext ==
  /\ Met("file") = {"noExe"}
  /\ Met("folder") = Met("file") \cup {"noFile"}
  /\ Met("Cargo.toml") = Met("folder") \cup {"folder"}
  /\ \A e \in Entries \ {"modules"} : Met(NextEntry(e)) = Met(e) \cup {e}
  /\ Met("modules") \cup {"modules"} = {"noExe", "noFile", "folder"} \cup Entries
  /\ \A e \in Entries : {"noExe", "noFile", "folder"} \subseteq Met(e)
  /\ \A k \in {"idle", "locate", "exists", "directory", "source", "tool", "compiler",
              "exe", "runExe", "runFile", "report", "done"} : Met(k) = {}
  <1>1. /\ Met("file") = {"noExe"}
        /\ Met("folder") = {"noExe", "noFile"}
        /\ Met("Cargo.toml") = {"noExe", "noFile", "folder"}
        /\ Met("CMakeLists.txt") = {"noExe", "noFile", "folder", "Cargo.toml"}
        /\ Met("package.json") =
             {"noExe", "noFile", "folder", "Cargo.toml", "CMakeLists.txt"}
        /\ Met("modules") = {"noExe", "noFile", "folder", "Cargo.toml",
                             "CMakeLists.txt", "package.json"}
    BY DEF Met
  <1>2. /\ NextEntry("Cargo.toml") = "CMakeLists.txt"
        /\ NextEntry("CMakeLists.txt") = "package.json"
        /\ NextEntry("package.json") = "modules"
    BY DEF NextEntry
  <1>3. \A e \in Entries \ {"modules"} : Met(NextEntry(e)) = Met(e) \cup {e}
    BY <1>1, <1>2 DEF Entries
  <1>4. \A k \in {"idle", "locate", "exists", "directory", "source", "tool", "compiler",
                 "exe", "runExe", "runFile", "report", "done"} : Met(k) = {}
    BY DEF Met
  <1> QED
    BY <1>1, <1>3, <1>4 DEF Entries

(* Where binaries have no suffix there is none with it.                     *)
LEMMA NoSuffix ==
  ASSUME ~Windows, NEW w \in Worlds, NEW c \in Components
  PROVE  Exe(w, c) = None
  BY DEF Worlds, Layouts, Exe

(* A check that is probing has seen a CMake source.                         *)
LEMMA ProbingSeen ==
  ASSUME CheckTypeOK, PlaceInv
  PROVE  Probing => ToolchainSeen(worlds)
  BY DEF PlaceInv, CheckTypeOK, ToolchainSeen

(* No step makes anything up, given what the place of the check says of the*)
(* worlds it has seen.                                                     *)
LEMMA MadeUpStep ==
  ASSUME CheckTypeOK, PlaceInv, NothingMadeUp, [Next]_vars
  PROVE  NothingMadeUp'
  <1> USE WhyCases, PlaceSubject DEF CheckTypeOK
  <1>1. CASE Start
    BY <1>1, MadeUpWhy DEF Start
  <1>2. CASE FindModules
    <2>1. world.modules = "none" => SeenIn(worlds, slow, "noModules", None)
      BY DEF SeenIn, Holds
    <2> QED
      BY <1>2, <2>1, OneMore, NoMore DEF FindModules, Issue, outside
  <1>2a. CASE CheckModulesDir
    <2>1. world.modules # "folder" => SeenIn(worlds, slow, "notDirectory", None)
      BY DEF SeenIn, Holds
    <2> QED
      BY <1>2a, <2>1, OneMore, NoMore DEF CheckModulesDir, Issue, outside, PlaceInv
  <1>3. CASE NotFound \/ TimesOut
    <2>1. /\ worlds' = worlds /\ slow \subseteq slow' /\ Missing /\ Probing
          /\ SeenIn(worlds', slow', "absent", Subject)
      BY <1>3 DEF NotFound, TimesOut, outside, SeenIn, Holds
    <2>2. ToolchainSeen(worlds')
      BY <2>1, ProbingSeen
    <2>3. CASE Stage = "tool" /\ Subject # "reg"
      BY <2>1, <2>2, <2>3, OneMore DEF Missing, Issue
    <2>4. CASE Stage = "compiler" /\ Subject = "gcc"
      <3>1. \A t \in Compilers : SeenIn(worlds', slow', "absent", t)
        BY <2>1, <2>4, WhyMono DEF PlaceInv, Compilers
      <3> QED
        BY <2>1, <2>2, <2>4, <3>1, OneMore DEF Missing, Issue
    <2>5. CASE errors' = errors
      BY <2>1, <2>5, NoMore
    <2> QED
      BY <2>1, <2>3, <2>4, <2>5 DEF Missing
  <1>4. CASE RegAnswers
    <2>1. world.longPaths # "on" => SeenIn(worlds, slow, "noLongPaths", None)
      BY DEF SeenIn, Holds
    <2>2. ToolchainSeen(worlds)
      BY <1>4, ProbingSeen DEF RegAnswers, Probing
    <2> QED
      BY <1>4, <2>1, <2>2, OneMore, NoMore DEF RegAnswers, Issue, outside
  <1>5. CASE FindFolder
    <2>1. Path(world, Subject) # "folder" => SeenIn(worlds, slow, "noFolder", Subject)
      BY DEF SeenIn, Holds
    <2>2. \A k \in {"noExe", "noFile"} : SeenIn(worlds, slow, k, Subject)
      BY <1>5, MetNext DEF FindFolder, PlaceInv
    <2> QED
      BY <1>5, <2>1, <2>2, OneMore, NoMore DEF FindFolder, Issue, outside
  <1>6. CASE CheckSourceFolder
    <2>1. CASE Stage = "modules" /\ Stage \notin Inside(world, Subject)
      <3>1. SeenIn(worlds, slow, "modules", Subject)
        BY <2>1 DEF SeenIn, Holds, Entries
      <3>2. \A k \in {"noExe", "noFile", "folder"} \cup Entries :
              SeenIn(worlds, slow, k, Subject)
        BY <2>1, <3>1, MetNext DEF PlaceInv
      <3> QED
        BY <1>6, <2>1, <3>2, OneMore, NoMore DEF CheckSourceFolder, Issue, outside
    <2>2. CASE errors' = errors
      BY <1>6, <2>2, NoMore DEF CheckSourceFolder, outside
    <2> QED
      BY <1>6, <2>1, <2>2 DEF CheckSourceFolder
  <1>7. CASE BinaryAnswers
    <2>1. PICK w \in worlds : Program(w, Subject) = child
      BY <1>7 DEF BinaryAnswers, PlaceInv
    <2>2. child = "nonzero" => SeenIn(worlds, slow, "fails", Subject)
      BY <2>1 DEF SeenIn, Holds
    <2>3. child \in Texts \ Containing => SeenIn(worlds, slow, "mismatch", Subject)
      BY <2>1 DEF SeenIn, Holds
    <2> QED
      BY <1>7, <2>2, <2>3, OneMore, NoMore DEF BinaryAnswers, Issue, outside
  <1>8. \/ errors' = errors /\ worlds \subseteq worlds' /\ slow \subseteq slow'
        \/ Start \/ FindModules \/ CheckModulesDir \/ NotFound \/ TimesOut \/ RegAnswers
        \/ FindFolder \/ CheckSourceFolder \/ BinaryAnswers
    BY DEF Next, CheckStep, Answer, Locate, LocateFails, DiscoverSource, Spawn,
           SpawnFails, ToolAnswers, FindExe, FindFile, RunBinary, RunFails,
           BinaryTimesOut, Report, Change, BreakOutput, vars, outside, Abort
  <1> QED
    BY <1>1, <1>2, <1>2a, <1>3, <1>4, <1>5, <1>6, <1>7, <1>8, NoMore

(* At the places where no more is known than the sources found.             *)
LEMMA Arrival ==
  ASSUME \A c \in sources' : \E w \in worlds' : HasCMake(w, c),
         child' = None,
         Stage' \in {"idle", "locate", "exists", "source", "tool", "exe", "report",
                     "done"},
         Stage' = "tool" => sources' # {}
  PROVE  PlaceInv'
  <1>1. pc' # <<"compiler", "clang">> /\ pc' # <<"compiler", "gcc">>
    BY DEF Stage
  <1>2. Met(Stage') = {}
    BY MetNext
  <1> QED
    BY <1>1, <1>2 DEF PlaceInv, Probing

(* At a component, with what is known of it.                                *)
LEMMA ArrivalAtComponent ==
  ASSUME \A c \in sources' : \E w \in worlds' : HasCMake(w, c),
         child' = None,
         Stage' \in AtComponent,
         \A k \in Met(Stage') : SeenIn(worlds', slow', k, Subject'),
         Stage' = "runExe" => \E w \in worlds' : Exe(w, Subject') # None,
         Stage' = "runFile" => /\ SeenIn(worlds', slow', "noExe", Subject')
                               /\ \E w \in worlds' : Path(w, Subject') \in Files
  PROVE  PlaceInv'
  <1>1. pc' # <<"compiler", "clang">> /\ pc' # <<"compiler", "gcc">>
    BY DEF Stage, AtComponent, Entries
  <1>2. ~Probing' /\ Stage' # "directory"
    BY DEF Probing, AtComponent, Entries
  <1> QED
    BY <1>1, <1>2 DEF PlaceInv

(* At a component that no more is known of, or past the last.               *)
LEMMA ArrivalAtNext ==
  ASSUME \A c \in sources' : \E w \in worlds' : HasCMake(w, c),
         world' \in worlds', worlds' \subseteq Worlds, child' = None,
         \/ \E c \in Components : pc' \in {FirstLook(c), AfterComponent(c)}
         \/ Stage' = "done"
  PROVE  PlaceInv'
  <1>1. CASE Stage' \in {"exe", "report", "done"}
    BY <1>1, Arrival
  <1>2. CASE ~Windows /\ pc' \in {<<"file", c>> : c \in Components}
    <2>1. Stage' = "file" /\ Subject' \in Components
      BY <1>2 DEF Stage, Subject
    <2>2. SeenIn(worlds', slow', "noExe", Subject')
      <3>1. Exe(world', Subject') = None
        BY <1>2, <2>1, NoSuffix
      <3> QED
        BY <3>1 DEF SeenIn, Holds
    <2> QED
      BY <2>1, <2>2, MetNext, ArrivalAtComponent DEF AtComponent
  <1> QED
    BY <1>1, <1>2 DEF FirstLook, AfterComponent, Components, Stage

(* At a compiler, with what is known of those before it.                    *)
LEMMA AtCompiler ==
  ASSUME sources' # {}, child' = None, Stage' = "compiler",
         \A c \in sources' : \E w \in worlds' : HasCMake(w, c),
         pc' # <<"compiler", "native">> => SeenIn(worlds', slow', "absent", "native"),
         pc' = <<"compiler", "gcc">> => SeenIn(worlds', slow', "absent", "clang")
  PROVE  PlaceInv'
  <1>1. Met(Stage') = {} /\ ~Asking'
    BY MetNext DEF Asking
  <1> QED
    BY <1>1 DEF PlaceInv

(* After a probe: the next one, or the first component.                     *)
LEMMA AfterProbe ==
  ASSUME CheckTypeOK, UNCHANGED <<world, worlds>>, sources' # {}, child' = None,
         \A c \in sources' : \E w \in worlds' : HasCMake(w, c),
         \/ pc' = FirstLook("client")
         \/ Stage' \in {"tool", "done"} \/ pc' = <<"compiler", "native">>
  PROVE  PlaceInv'
  <1>1. CASE pc' = FirstLook("client")
    BY <1>1, ArrivalAtNext DEF CheckTypeOK, Components
  <1>2. CASE Stage' \in {"tool", "done"}
    BY <1>2, Arrival
  <1>3. CASE pc' = <<"compiler", "native">>
    <2>1. Stage' = "compiler"
      BY <1>3 DEF Stage
    <2> QED
      BY <1>3, <2>1, AtCompiler
  <1> QED
    BY <1>1, <1>2, <1>3

(* The looks at a component, from one stage to the next. *)
LEMMA PlaceAtComponent ==
  ASSUME CheckTypeOK, PlaceInv,
         FindExe \/ FindFile \/ FindFolder \/ CheckSourceFolder \/ BinaryAnswers
  PROVE  PlaceInv'
  <1> USE PlaceSubject DEF CheckTypeOK
  <1>1. /\ UNCHANGED <<world, worlds, slow, sources>> /\ child' = None
        /\ Stage \in AtComponent /\ Subject \in Components
        /\ \A c \in sources' : \E w \in worlds' : HasCMake(w, c)
    <2>1. UNCHANGED <<world, worlds, slow, sources>> /\ child' = None
      BY DEF FindExe, FindFile, FindFolder, CheckSourceFolder, BinaryAnswers, Printed, Go,
             End, outside
    <2>2. Stage \in AtComponent
      BY DEF FindExe, FindFile, FindFolder, CheckSourceFolder, BinaryAnswers, Asking,
             AtComponent
    <2> QED
      BY <2>1, <2>2 DEF PlaceInv
  <1>2. CASE pc' = AfterComponent(Subject) \/ Stage' = "done"
    BY <1>1, <1>2, ArrivalAtNext
  <1>3. \A k \in Met(Stage) : SeenIn(worlds', slow', k, Subject)
    BY <1>1 DEF PlaceInv
  <1>4. ASSUME NEW stage \in {"runExe", "runFile", "folder", "file", "Cargo.toml"}
                             \cup Entries,
               pc' = <<stage, Subject>>,
               \A k \in Met(stage) : SeenIn(worlds', slow', k, Subject),
               stage = "runExe" => Exe(world, Subject) # None,
               stage = "runFile" => /\ SeenIn(worlds', slow', "noExe", Subject)
                                    /\ Path(world, Subject) \in Files
        PROVE  PlaceInv'
    <2>1. Stage' = stage /\ Subject' = Subject
      BY <1>4 DEF Stage, Subject
    <2>2. stage \in AtComponent
      BY <1>4 DEF AtComponent, Entries
    <2> QED
      BY <1>1, <1>4, <2>1, <2>2, ArrivalAtComponent
  <1>5. CASE FindExe
    <2>1. CASE Exe(world, Subject) # None /\ pc' = <<"runExe", Subject>>
      BY <1>4, <2>1, MetNext
    <2>2. CASE Exe(world, Subject) = None /\ pc' = <<"file", Subject>>
      <3>1. SeenIn(worlds', slow', "noExe", Subject)
        BY <1>1, <2>2 DEF SeenIn, Holds
      <3> QED
        BY <1>4, <2>2, <3>1, MetNext
    <2> QED
      BY <1>2, <1>5, <2>1, <2>2 DEF FindExe, Printed, Go, End, Stage
  <1>6. CASE FindFile
    <2>0. SeenIn(worlds', slow', "noExe", Subject) /\ Stage = "file"
      BY <1>3, <1>6, MetNext DEF FindFile
    <2>1. CASE Path(world, Subject) \in Files /\ pc' = <<"runFile", Subject>>
      BY <1>4, <2>0, <2>1, MetNext
    <2>2. CASE Path(world, Subject) \notin Files /\ pc' = <<"folder", Subject>>
      <3>1. SeenIn(worlds', slow', "noFile", Subject)
        BY <1>1, <2>2 DEF SeenIn, Holds
      <3> QED
        BY <1>4, <2>0, <2>2, <3>1, MetNext
    <2> QED
      BY <1>2, <1>6, <2>1, <2>2 DEF FindFile, Printed, Go, End, Stage
  <1>7. CASE FindFolder
    <2>1. CASE Path(world, Subject) = "folder" /\ pc' = <<"Cargo.toml", Subject>>
      <3>1. SeenIn(worlds', slow', "folder", Subject)
        BY <1>1, <2>1 DEF SeenIn, Holds
      <3>2. Stage = "folder"
        BY <1>7 DEF FindFolder
      <3> QED
        BY <1>3, <1>4, <2>1, <3>1, <3>2, MetNext
    <2> QED
      BY <1>2, <1>7, <2>1 DEF FindFolder, Printed, Go, End, Stage
  <1>8. CASE CheckSourceFolder
    <2>1. CASE /\ Stage \in Entries \ {"modules"} /\ Stage \notin Inside(world, Subject)
               /\ pc' = <<NextEntry(Stage), Subject>>
      <3>1. SeenIn(worlds', slow', Stage, Subject)
        BY <1>1, <2>1 DEF SeenIn, Holds, Entries
      <3>2. NextEntry(Stage) \in Entries /\ Met(NextEntry(Stage)) = Met(Stage) \cup {Stage}
        BY <2>1, MetNext, NextPlaces
      <3>3. \A k \in Met(NextEntry(Stage)) : SeenIn(worlds', slow', k, Subject)
        BY <1>3, <3>1, <3>2
      <3>4. NextEntry(Stage) # "runExe" /\ NextEntry(Stage) # "runFile"
        BY <3>2 DEF Entries
      <3> QED
        BY <1>4, <2>1, <3>2, <3>3, <3>4
    <2> QED
      BY <1>2, <1>8, <2>1 DEF CheckSourceFolder, Printed, Go, End, Stage
  <1>9. CASE BinaryAnswers
    BY <1>2, <1>9 DEF BinaryAnswers, Printed, Go, End, Stage
  <1> QED
    BY <1>5, <1>6, <1>7, <1>8, <1>9

(* The place of the check goes on saying so. *)
LEMMA PlaceStep ==
  ASSUME CheckTypeOK, PlaceInv, [Next]_vars
  PROVE  PlaceInv'
  <1> USE PlaceSubject DEF CheckTypeOK
  <1>1. CASE Start
    <2>1. sources' = {} /\ child' = None /\ Stage' = "locate"
      BY <1>1 DEF Start, Stage, Probing, Asking
    <2> QED
      BY <2>1, Arrival
  <1>2. CASE LocateFails \/ SpawnFails \/ RunFails \/ BinaryTimesOut \/ Report
    <2>1. /\ worlds' = worlds /\ sources' = sources /\ child' = None
          /\ Stage' = "done"
      BY <1>2 DEF LocateFails, SpawnFails, RunFails, BinaryTimesOut, Report, Abort,
                  End, outside, Stage
    <2> QED
      BY <2>1, Arrival DEF PlaceInv
  <1>3. CASE Locate \/ FindModules \/ CheckModulesDir \/ DiscoverSource
    <2>1. worlds' = worlds /\ slow' = slow /\ child' = None
      BY <1>3 DEF Locate, FindModules, CheckModulesDir, DiscoverSource, Printed, Go, End,
                  outside
    <2>2. \A c \in sources' : \E w \in worlds' : HasCMake(w, c)
      BY <1>3, <2>1 DEF Locate, FindModules, CheckModulesDir, DiscoverSource, PlaceInv
    <2>3. CASE pc' = FirstLook("client")
      <3>1. world' \in worlds' /\ worlds' \subseteq Worlds
        BY <1>3, <2>1 DEF Locate, FindModules, CheckModulesDir, DiscoverSource, outside
      <3> QED
        BY <2>1, <2>2, <2>3, <3>1, ArrivalAtNext DEF Components
    <2>4. CASE FindModules /\ pc' = <<"directory", None>>
      <3>1. Stage' = "directory" /\ ~Probing' /\ ~Asking'
        BY <2>4 DEF Stage, Probing, Asking
      <3>2. SeenIn(worlds', slow', "present", None)
        BY <2>1, <2>4 DEF FindModules, Go, SeenIn, Holds
      <3>3. Met(Stage') = {} /\ pc' # <<"compiler", "clang">> /\ pc' # <<"compiler", "gcc">>
        BY <2>4, <3>1, MetNext
      <3> QED
        BY <2>2, <3>1, <3>2, <3>3 DEF PlaceInv
    <2>5. CASE /\ Stage' \in {"exists", "source", "tool", "done"}
               /\ Stage' = "tool" => sources' # {}
      BY <2>1, <2>2, <2>5, Arrival
    <2> QED
      BY <1>3, <2>3, <2>4, <2>5 DEF Locate, FindModules, CheckModulesDir, DiscoverSource,
         Printed, Go, End, Stage
  <1>4. CASE Spawn
    BY <1>4 DEF Spawn, PlaceInv, outside, Probing, Asking, Stage, Subject
  <1>5. CASE NotFound \/ TimesOut
    <2>1. /\ worlds' = worlds /\ world' = world /\ slow \subseteq slow'
          /\ sources' = sources /\ Missing /\ Probing /\ SeenIn(worlds', slow', "absent", Subject)
      BY <1>5 DEF NotFound, TimesOut, outside, SeenIn, Holds
    <2>2. /\ sources' # {} /\ child' = None
          /\ \A c \in sources' : \E w \in worlds' : HasCMake(w, c)
      BY <2>1 DEF PlaceInv, Missing, Go, End
    <2>3. CASE Stage = "compiler" /\ Subject # "gcc"
      <3>1. pc' = <<"compiler", NextCompiler(Subject)>>
        BY <2>1, <2>3 DEF Missing, Go
      <3>2. CASE Subject = "native"
        <4>1. pc' = <<"compiler", "clang">> /\ Stage' = "compiler"
          BY <3>1, <3>2 DEF NextCompiler, Stage
        <4> QED
          BY <2>1, <2>2, <3>2, <4>1, AtCompiler
      <3>3. CASE Subject = "clang"
        <4>1. pc' = <<"compiler", "gcc">> /\ Stage' = "compiler"
          BY <3>1, <3>3 DEF NextCompiler, Stage
        <4>2. SeenIn(worlds', slow', "absent", "native")
          BY <2>1, <2>3, <3>3, WhyMono DEF PlaceInv
        <4> QED
          BY <2>1, <2>2, <3>3, <4>1, <4>2, AtCompiler
      <3> QED
        BY <2>3, <3>2, <3>3 DEF Compilers
    <2>4. CASE Stage = "tool" \/ Subject = "gcc"
      <3>1. \/ pc' = FirstLook("client")
            \/ Stage' \in {"tool", "done"} \/ pc' = <<"compiler", "native">>
        BY <2>1, <2>4 DEF Missing, Go, End, NextTool, Stage, RequiredTools
      <3> QED
        BY <2>1, <2>2, <3>1, AfterProbe
    <2> QED
      BY <2>1, <2>3, <2>4 DEF Probing
  <1>6. CASE ToolAnswers \/ RegAnswers
    <2>1. /\ worlds' = worlds /\ world' = world /\ sources' = sources /\ child' = None
          /\ Probing
      BY <1>6 DEF ToolAnswers, RegAnswers, Printed, Go, End, outside, Probing
    <2>2. /\ sources' # {}
          /\ \A c \in sources' : \E w \in worlds' : HasCMake(w, c)
      BY <2>1 DEF PlaceInv
    <2>3. \/ pc' = FirstLook("client")
          \/ Stage' \in {"tool", "done"} \/ pc' = <<"compiler", "native">>
      BY <1>6, <2>1 DEF ToolAnswers, RegAnswers, Printed, Go, End, NextTool, Stage,
                        Probing, RequiredTools
    <2> QED
      BY <2>1, <2>2, <2>3, AfterProbe
  <1>7. CASE FindExe \/ FindFile \/ FindFolder \/ CheckSourceFolder \/ BinaryAnswers
    BY <1>7, PlaceAtComponent
  <1>10. CASE RunBinary
    <2>1. /\ UNCHANGED <<pc, sources, worlds, slow>> /\ Asking
          /\ child' = Started(world) /\ child' \in Answers
      BY <1>10 DEF RunBinary, outside
    <2>2. Program(world, Subject) = child'
      BY <2>1, CheckAssumptions DEF Started, Program, Asking
    <2> QED
      BY <2>1, <2>2 DEF PlaceInv, Probing, Asking, Stage, Subject
  <1>11. CASE Change
    <2>1. worlds \subseteq worlds' /\ UNCHANGED <<pc, sources, child, slow>>
      BY <1>11 DEF Change
    <2>2. /\ Stage' = Stage /\ Subject' = Subject /\ (Probing' <=> Probing)
          /\ (Asking' <=> Asking)
      BY <2>1 DEF Stage, Subject, Probing, Asking
    <2>3. \A k, x : SeenIn(worlds, slow, k, x) => SeenIn(worlds', slow', k, x)
      BY <2>1, WhyMono
    <2> QED
      BY <2>1, <2>2, <2>3 DEF PlaceInv
  <1>12. CASE BreakOutput \/ UNCHANGED vars
    BY <1>12 DEF BreakOutput, vars, PlaceInv, Probing, Asking, Stage, Subject
  <1> QED
    BY <1>1, <1>2, <1>3, <1>4, <1>5, <1>6, <1>7, <1>10, <1>11, <1>12
       DEF Next, CheckStep, Answer

(* Both hold before the first check. *)
LEMMA SeenInit == Init => PlaceInv /\ NothingMadeUp
  BY MetNext DEF Init, PlaceInv, NothingMadeUp, Probing, Asking, Stage

(***************************************************************************)
(* Every fact an issue states was so at some moment of this check, or the  *)
(* probe of the tool it is about has timed out.                            *)
(***************************************************************************)
THEOREM NothingMadeUpCorrect == Spec => []NothingMadeUp
  <1>1. CheckTypeOK /\ PlaceInv /\ NothingMadeUp /\ [Next]_vars
          => (CheckTypeOK /\ PlaceInv /\ NothingMadeUp)'
    BY TypeStep, PlaceStep, MadeUpStep
  <1> QED
    BY <1>1, TypeInit, SeenInit, PTL DEF Spec

-----------------------------------------------------------------------------
(* Nothing is missed *)

(* How far a check is, and where on its way each issue is looked for.       *)
ComponentRank(c) == IF c = "client" THEN 10 ELSE 11

ToolRank(t) ==
  CASE t = "cmake" -> 3
    [] t = "cargo" -> 4
    [] t = "ninja" -> 5
    [] t = "reg" -> 6
    [] t = "clang" -> 7
    [] t = "clang++" -> 8

Rank(place) ==
  CASE place[1] \in {"idle", "locate", "exists", "directory"} -> 0
    [] place[1] = "source" -> IF place[2] = "client" THEN 1 ELSE 2
    [] place[1] = "tool" -> ToolRank(place[2])
    [] place[1] = "compiler" -> 9
    [] place[1] \in AtComponent -> ComponentRank(place[2])
    [] place[1] = "report" -> 12
    [] place[1] = "done" -> 13

IssueRank(e) ==
  CASE e[1] \in {"modules", "notDirectory"} -> 0
    [] e[1] = "tool" -> ToolRank(e[2])
    [] e[1] = "longPaths" -> 6
    [] e[1] = "compiler" -> 9
    [] e[1] \in {"component", "manifest", "status", "version"} ->
         ComponentRank(e[2])

(***************************************************************************)
(* What lies behind a check that goes on: a CMake source that was there    *)
(* all the time has been found, and so has every issue that was certain.   *)
(***************************************************************************)
AlwaysSource(c) == \A w \in worlds : HasCMake(w, c)

SourcesFound ==
  /\ Rank(pc) > 1 /\ AlwaysSource("client") => "client" \in sources
  /\ Rank(pc) > 2 /\ AlwaysSource("server") => "server" \in sources

IssuesFound == \A e \in Issues : IssueRank(e) < Rank(pc) /\ Certain(e) => e \in errors

MissedInv ==
  outcome # "aborted" =>
    /\ SourcesFound
    /\ IssuesFound
    /\ outcome = "ok" => errors = {}

(* Which issues are looked for at one point of the way.                     *)
LEMMA IssuesByRank ==
  ASSUME NEW e \in Issues
  PROVE  \/ e \in {<<"modules", None>>, <<"notDirectory", None>>} /\ IssueRank(e) = 0
         \/ \E t \in RequiredTools : e = <<"tool", t>> /\ IssueRank(e) = ToolRank(t)
         \/ e = <<"longPaths", None>> /\ Windows /\ IssueRank(e) = 6
         \/ e = <<"compiler", None>> /\ IssueRank(e) = 9
         \/ \E c \in Components :
              /\ e \in {<<"component", c>>, <<"manifest", c>>, <<"status", c>>,
                        <<"version", c>>}
              /\ IssueRank(e) = ComponentRank(c)
  BY DEF Issues, ToolchainIssues, IssueRank

(* Tools and components are looked for at places of their own. *)
LEMMA Ranks ==
  /\ \A t \in RequiredTools : ToolRank(t) \in {3, 4, 5, 7, 8}
  /\ \A t, u \in RequiredTools : ToolRank(t) = ToolRank(u) => t = u
  /\ \A c, d \in Components : ComponentRank(c) = ComponentRank(d) => c = d
  /\ \A c \in Components : ComponentRank(c) \in {10, 11}
  <1>1. /\ ToolRank("cmake") = 3 /\ ToolRank("cargo") = 4 /\ ToolRank("ninja") = 5
        /\ ToolRank("clang") = 7 /\ ToolRank("clang++") = 8
    BY DEF ToolRank
  <1>2. ComponentRank("client") = 10 /\ ComponentRank("server") = 11
    BY DEF ComponentRank
  <1> QED
    BY <1>1, <1>2 DEF RequiredTools, Components

(* Ranks are numbers. *)
LEMMA RankType ==
  /\ \A place \in Places : Rank(place) \in 0..13
  /\ \A e \in Issues : IssueRank(e) \in 0..11
  <1>1. \A place \in Places : Rank(place) \in 0..13
    BY DEF Places, Rank, ToolRank, ComponentRank, RequiredTools, Components, Compilers,
           AtComponent, Entries
  <1>2. \A e \in Issues : IssueRank(e) \in 0..11
    BY IssuesByRank, Ranks
  <1> QED
    BY <1>1, <1>2

(* What is certain of each issue.                                           *)
LEMMA CertainCases ==
  /\ Certain(<<"modules", None>>) => Lasting("noModules", None)
  /\ Certain(<<"notDirectory", None>>)
       => Lasting("present", None) /\ Lasting("notDirectory", None)
  /\ \A t : Certain(<<"tool", t>>) => Lasting("absent", t)
  /\ Certain(<<"longPaths", None>>) => Lasting("noLongPaths", None)
  /\ Certain(<<"compiler", None>>) => \A t \in Compilers : Lasting("absent", t)
  /\ \A c : Certain(<<"component", c>>)
             => \A k \in {"noExe", "noFile", "noFolder"} : Lasting(k, c)
  /\ \A c : Certain(<<"manifest", c>>)
             => \A k \in {"noExe", "noFile", "folder"} \cup Entries : Lasting(k, c)
  /\ \A c : Certain(<<"status", c>>) => Lasting("fails", c) /\ Settled(c)
  /\ \A c : Certain(<<"version", c>>) => Lasting("mismatch", c) /\ Settled(c)
  /\ \A e \in ToolchainIssues : Certain(e) => \E c \in Components : AlwaysSource(c)
  <1>1. \A e, k, x : Certain(e) /\ <<k, x>> \in Facts(e[1], e[2]) => Lasting(k, x)
    BY DEF Certain
  <1>2. /\ Certain(<<"modules", None>>) => Lasting("noModules", None)
        /\ Certain(<<"notDirectory", None>>)
             => Lasting("present", None) /\ Lasting("notDirectory", None)
        /\ Certain(<<"longPaths", None>>) => Lasting("noLongPaths", None)
    BY <1>1 DEF Facts
  <1>3. \A t : Certain(<<"tool", t>>) => Lasting("absent", t)
    BY <1>1 DEF Facts
  <1>4. Certain(<<"compiler", None>>) => \A t \in Compilers : Lasting("absent", t)
    BY <1>1 DEF Facts
  <1>5. \A c : Certain(<<"component", c>>)
               => \A k \in {"noExe", "noFile", "noFolder"} : Lasting(k, c)
    BY <1>1 DEF Facts
  <1>6. \A c : Certain(<<"manifest", c>>)
               => \A k \in {"noExe", "noFile", "folder"} \cup Entries : Lasting(k, c)
    BY <1>1 DEF Facts
  <1>7. \A c : Certain(<<"status", c>>) => Lasting("fails", c) /\ Settled(c)
    BY <1>1 DEF Facts, Certain
  <1>8. \A c : Certain(<<"version", c>>) => Lasting("mismatch", c) /\ Settled(c)
    BY <1>1 DEF Facts, Certain
  <1>9. \A e \in ToolchainIssues : Certain(e) => \E c \in Components : AlwaysSource(c)
    BY DEF Certain, LastingSource, AlwaysSource
  <1> QED
    BY <1>2, <1>3, <1>4, <1>5, <1>6, <1>7, <1>8, <1>9

(* A check that goes on past the issues it looked for here.                 *)
LEMMA Passing ==
  ASSUME CheckTypeOK, MissedInv, outcome # "aborted",
         worlds' = worlds, errors \subseteq errors', outcome' = outcome, outcome # "ok",
         pc' \in Places, SourcesFound',
         \A e \in Issues :
           (/\ Rank(pc) <= IssueRank(e) /\ IssueRank(e) < Rank(pc') /\ Certain(e))
             => e \in errors'
  PROVE  MissedInv'
  <1>1. ASSUME NEW e \in Issues, IssueRank(e) < Rank(pc'), Certain(e)
        PROVE  e \in errors'
    <2>1. IssueRank(e) \in Nat /\ Rank(pc) \in Nat
      BY RankType DEF CheckTypeOK
    <2>2. CASE IssueRank(e) < Rank(pc)
      BY <1>1, <2>2 DEF MissedInv, IssuesFound
    <2>3. CASE Rank(pc) <= IssueRank(e)
      BY <1>1, <2>3
    <2> QED
      BY <2>1, <2>2, <2>3
  <1>2. \A e : Certain(e)' <=> Certain(e)
    BY DEF Certain, Lasting, LastingSource, Settled
  <1> QED
    BY <1>1, <1>2 DEF MissedInv, IssuesFound

(* The sources found once they have been looked for.                        *)
LEMMA SourcesKept ==
  ASSUME pc \in Places, SourcesFound, worlds \subseteq worlds', sources' = sources,
         Rank(pc) > 2 \/ Rank(pc') = Rank(pc)
  PROVE  SourcesFound'
  BY RankType DEF SourcesFound, AlwaysSource

(* The ranks of the places that are named in the actions.                   *)
LEMMA RankValues ==
  /\ \A k \in {"idle", "locate", "exists", "directory"} : Rank(<<k, None>>) = 0
  /\ Rank(<<"source", "client">>) = 1 /\ Rank(<<"source", "server">>) = 2
  /\ \A t \in RequiredTools \cup {"reg"} : Rank(<<"tool", t>>) = ToolRank(t)
  /\ ToolRank("cmake") = 3
  /\ \A t : Rank(<<"compiler", t>>) = 9
  /\ Rank(<<"report", None>>) = 12
  <1>1. ToolRank("cmake") = 3
    BY DEF ToolRank
  <1> QED
    BY <1>1 DEF Rank, AtComponent, Entries

(* The first look at a component is at its place on the way.                *)
LEMMA FirstRank == \A c \in Components : Rank(FirstLook(c)) = ComponentRank(c)
  BY DEF FirstLook, Rank, AtComponent

(* The issues between two places of the way.                                *)
LEMMA IssuesBetween ==
  ASSUME NEW e \in Issues
  PROVE  /\ IssueRank(e) < 1 => e \in {<<"modules", None>>, <<"notDirectory", None>>}
         /\ ~(1 <= IssueRank(e) /\ IssueRank(e) < 3)
         /\ 2 <= IssueRank(e) /\ IssueRank(e) < 10 => e \in ToolchainIssues
         /\ \A t \in RequiredTools :
              ToolRank(t) <= IssueRank(e) /\ IssueRank(e) < Rank(NextTool(t))
                => e = <<"tool", t>>
         /\ 6 <= IssueRank(e) /\ IssueRank(e) < 7 => e = <<"longPaths", None>>
         /\ 9 <= IssueRank(e) /\ IssueRank(e) < 10 => e = <<"compiler", None>>
         /\ \A c \in Components :
              ComponentRank(c) <= IssueRank(e) /\ IssueRank(e) < Rank(AfterComponent(c))
                => e \in {<<"component", c>>, <<"manifest", c>>, <<"status", c>>,
                          <<"version", c>>}
         /\ IssueRank(e) < 12
  <1>1. /\ ToolRank("cmake") = 3 /\ ToolRank("cargo") = 4 /\ ToolRank("ninja") = 5
        /\ ToolRank("clang") = 7 /\ ToolRank("clang++") = 8
        /\ ComponentRank("client") = 10 /\ ComponentRank("server") = 11
    BY DEF ToolRank, ComponentRank
  <1>2. /\ Rank(NextTool("cmake")) = 4 /\ Rank(NextTool("cargo")) = 5
        /\ Rank(NextTool("ninja")) = (IF Windows THEN 6 ELSE 7)
        /\ Rank(NextTool("clang")) = 8 /\ Rank(NextTool("clang++")) = 9
    BY <1>1, RankValues DEF NextTool, ToolRank, RequiredTools
  <1>3. Rank(AfterComponent("client")) = 11 /\ Rank(AfterComponent("server")) = 12
    BY <1>1, FirstRank, RankValues DEF AfterComponent, Components
  <1>4. CASE e \in {<<"modules", None>>, <<"notDirectory", None>>} /\ IssueRank(e) = 0
    BY <1>1, <1>2, <1>3, <1>4 DEF RequiredTools, Components
  <1>5. ASSUME NEW t \in RequiredTools, e = <<"tool", t>>, IssueRank(e) = ToolRank(t)
        PROVE  e \in ToolchainIssues /\ IssueRank(e) \in {3, 4, 5, 7, 8}
    BY <1>1, <1>5 DEF RequiredTools, ToolchainIssues
  <1>6. ASSUME NEW t \in RequiredTools, e = <<"tool", t>>, IssueRank(e) = ToolRank(t),
               NEW u \in RequiredTools, ToolRank(u) <= IssueRank(e),
               IssueRank(e) < Rank(NextTool(u))
        PROVE  t = u
    BY <1>1, <1>2, <1>6 DEF RequiredTools
  <1>7. CASE \E t \in RequiredTools : e = <<"tool", t>> /\ IssueRank(e) = ToolRank(t)
    BY <1>1, <1>3, <1>5, <1>6, <1>7 DEF Components
  <1>8. CASE e = <<"longPaths", None>> /\ Windows /\ IssueRank(e) = 6
    BY <1>1, <1>2, <1>3, <1>8 DEF RequiredTools, Components, ToolchainIssues
  <1>9. CASE e = <<"compiler", None>> /\ IssueRank(e) = 9
    BY <1>1, <1>2, <1>3, <1>9 DEF RequiredTools, Components, ToolchainIssues
  <1>10. ASSUME NEW c \in Components,
                e \in {<<"component", c>>, <<"manifest", c>>, <<"status", c>>,
                       <<"version", c>>},
                IssueRank(e) = ComponentRank(c)
         PROVE  /\ IssueRank(e) \in {10, 11}
                /\ \A d \in Components :
                     (/\ ComponentRank(d) <= IssueRank(e)
                      /\ IssueRank(e) < Rank(AfterComponent(d))) => d = c
    BY <1>1, <1>3, <1>10 DEF Components
  <1>11. CASE \E c \in Components :
                /\ e \in {<<"component", c>>, <<"manifest", c>>, <<"status", c>>,
                          <<"version", c>>}
                /\ IssueRank(e) = ComponentRank(c)
    <2>1. \A t \in RequiredTools : Rank(NextTool(t)) \in 4..9
      BY <1>2 DEF RequiredTools
    <2> QED
      BY <1>10, <1>11, <2>1
  <1> QED
    BY IssuesByRank, <1>4, <1>7, <1>8, <1>9, <1>11

(* The toolchain is looked at after the sources.                            *)
LEMMA ToolchainRank == \A e \in ToolchainIssues : IssueRank(e) >= 2
  <1>1. IssueRank(<<"longPaths", None>>) = 6 /\ IssueRank(<<"compiler", None>>) = 9
    BY DEF IssueRank
  <1>2. \A t \in RequiredTools : IssueRank(<<"tool", t>>) = ToolRank(t)
    BY DEF IssueRank
  <1> QED
    BY <1>1, <1>2, Ranks DEF ToolchainIssues

(* The rank of a place tells the way that is left.                          *)
LEMMA RankOf ==
  ASSUME CheckTypeOK
  PROVE  /\ Stage \in {"idle", "locate", "exists", "directory"} <=> Rank(pc) = 0
         /\ pc = <<"source", "client">> <=> Rank(pc) = 1
         /\ pc = <<"source", "server">> <=> Rank(pc) = 2
         /\ Stage = "tool" => Rank(pc) = ToolRank(Subject)
         /\ Stage = "tool" /\ Subject = "reg" => Rank(pc) = 6
         /\ Stage = "compiler" <=> Rank(pc) = 9
         /\ Stage \in AtComponent => Rank(pc) = ComponentRank(Subject)
         /\ Stage = "report" <=> Rank(pc) = 12
         /\ Stage = "done" <=> Rank(pc) = 13
  <1>1. pc = <<Stage, Subject>> /\ pc \in Places
    BY PlaceSubject DEF CheckTypeOK
  <1> QED
    BY <1>1 DEF Rank, Places, Stage, Subject, ToolRank, ComponentRank, RequiredTools,
                Components, Compilers, AtComponent, Entries

(* A check that stays where it looks for the same issues.                   *)
LEMMA SameRank ==
  ASSUME CheckTypeOK, CheckTypeOK', MissedInv, Stage # "done",
         worlds \subseteq worlds', UNCHANGED <<sources, errors, outcome>>,
         Rank(pc') = Rank(pc)
  PROVE  MissedInv'
  <1>1. outcome = None /\ outcome' = None
    BY DEF CheckTypeOK
  <1>2. SourcesFound /\ IssuesFound
    BY <1>1, CheckAssumptions DEF MissedInv
  <1>3. SourcesFound'
    BY <1>2, SourcesKept DEF CheckTypeOK
  <1>4. \A e : Certain(e)' => Certain(e)
    BY DEF Certain, Lasting, LastingSource, Settled
  <1>5. IssuesFound'
    BY <1>2, <1>4 DEF IssuesFound
  <1> QED
    BY <1>1, <1>3, <1>5, CheckAssumptions DEF MissedInv

(* A check that goes on from where it probes a tool or looks at a component.*)
LEMMA GoOnFrom ==
  ASSUME CheckTypeOK, CheckTypeOK', MissedInv, Rank(pc) > 2, Stage # "done",
         UNCHANGED <<worlds, sources>>, errors \subseteq errors',
         NEW place, Go(place),
         \A e \in Issues :
           (/\ Rank(pc) <= IssueRank(e) /\ IssueRank(e) < Rank(place) /\ Certain(e))
             => e \in errors'
  PROVE  MissedInv'
  <1>1. outcome = None /\ outcome' = outcome /\ pc' = place
    BY DEF CheckTypeOK, Go
  <1>2. SourcesFound'
    BY <1>1, SourcesKept, CheckAssumptions DEF MissedInv, CheckTypeOK
  <1> QED
    BY <1>1, <1>2, Passing, CheckAssumptions DEF CheckTypeOK

(* The answers of the tools, and their absence, miss nothing that lasted. *)
LEMMA MissedTool ==
  ASSUME CheckTypeOK, CheckTypeOK', PlaceInv, MissedInv,
         NotFound \/ TimesOut \/ ToolAnswers \/ RegAnswers, outcome' # "aborted"
  PROVE  MissedInv'
  <1> USE PlaceSubject DEF CheckTypeOK
  <1>1. /\ Probing /\ UNCHANGED <<worlds, sources>> /\ errors \subseteq errors'
        /\ worlds' = worlds /\ sources' = sources
    BY DEF NotFound, TimesOut, ToolAnswers, RegAnswers, Missing, Issue, Probing, outside
  <1>2. Rank(pc) > 2 /\ Stage # "done"
    BY <1>1, RankOf, Ranks DEF Probing
  <1>3. ToolAnswers \/ RegAnswers => \E w \in worlds : w.tool[Subject] = "there"
    BY <1>1 DEF ToolAnswers, RegAnswers, PlaceInv, Probing
  <1>4. ToolAnswers => ~Lasting("absent", Subject)
    BY <1>3 DEF Lasting, Holds
  <1>5. CASE Stage = "tool" /\ Subject # "reg"
    <2>1. Subject \in RequiredTools /\ Rank(pc) = ToolRank(Subject)
      BY <1>5, RankOf
    <2>2. Go(NextTool(Subject))
      BY <1>5 DEF NotFound, TimesOut, ToolAnswers, RegAnswers, Missing, Printed, End
    <2>3. ASSUME NEW e \in Issues, ToolRank(Subject) <= IssueRank(e),
                 IssueRank(e) < Rank(NextTool(Subject)), Certain(e)
          PROVE  e \in errors'
      <3>1. e = <<"tool", Subject>>
        BY <2>1, <2>3, IssuesBetween
      <3>2. ~ToolAnswers
        BY <2>3, <3>1, <1>4, CertainCases
      <3> QED
        BY <3>1, <3>2, <1>5 DEF NotFound, TimesOut, RegAnswers, Missing, Issue
    <2> QED
      BY <1>1, <1>2, <2>1, <2>2, <2>3, GoOnFrom
  <1>6. CASE Stage = "tool" /\ Subject = "reg"
    <2>1. Rank(pc) = 6 /\ Rank(NextTool("reg")) = 7
      <3>1. NextTool("reg") = <<"tool", "clang">> /\ ToolRank("clang") = 7
        BY DEF NextTool, ToolRank
      <3> QED
        BY <1>6, <3>1, RankOf, RankValues DEF RequiredTools
    <2>2. RegAnswers /\ Go(NextTool("reg"))
      BY <1>6 DEF NotFound, TimesOut, ToolAnswers, RegAnswers, Missing, Printed, End
    <2>3. ASSUME NEW e \in Issues, 6 <= IssueRank(e), IssueRank(e) < 7, Certain(e)
          PROVE  e \in errors'
      <3>1. e = <<"longPaths", None>>
        BY <2>3, IssuesBetween
      <3>2. Lasting("noLongPaths", None)
        BY <2>3, <3>1, CertainCases
      <3>3. world.longPaths # "on"
        BY <3>2 DEF Lasting, Holds
      <3> QED
        BY <2>2, <3>1, <3>3 DEF RegAnswers, Issue
    <2> QED
      BY <1>1, <1>2, <2>1, <2>2, <2>3, GoOnFrom
  <1>7. CASE Stage = "compiler"
    <2>1. Rank(pc) = 9
      BY <1>7, RankOf
    <2>2. CASE ToolAnswers \/ Subject = "gcc"
      <3>1. Rank(FirstLook("client")) = 10
        BY FirstRank DEF ComponentRank, Components
      <3>2. Go(FirstLook("client"))
        BY <1>7, <2>2 DEF NotFound, TimesOut, ToolAnswers, RegAnswers, Missing,
                          Printed, End
      <3>3. ASSUME NEW e \in Issues, 9 <= IssueRank(e), IssueRank(e) < 10, Certain(e)
            PROVE  e \in errors'
        <4>1. e = <<"compiler", None>>
          BY <3>3, IssuesBetween
        <4>2. ~ToolAnswers
          BY <1>4, <1>7, <3>3, <4>1, CertainCases
        <4> QED
          BY <1>7, <2>2, <4>1, <4>2 DEF NotFound, TimesOut, RegAnswers, Missing, Issue
      <3> QED
        BY <1>1, <1>2, <2>1, <3>1, <3>2, <3>3, GoOnFrom
    <2>3. CASE ~ToolAnswers /\ Subject # "gcc"
      <3>1. /\ Go(<<"compiler", NextCompiler(Subject)>>) /\ errors' = errors
        BY <1>7, <2>3 DEF NotFound, TimesOut, RegAnswers, Missing
      <3>2. Rank(<<"compiler", NextCompiler(Subject)>>) = 9
        BY RankValues
      <3> QED
        BY <1>1, <1>2, <2>1, <3>1, <3>2, SameRank DEF Go
    <2> QED
      BY <2>2, <2>3
  <1> QED
    BY <1>1, <1>5, <1>6, <1>7 DEF Probing

(* Neither do the looks at a component, *)
LEMMA MissedComponent ==
  ASSUME CheckTypeOK, CheckTypeOK', PlaceInv, MissedInv,
         FindExe \/ FindFile \/ FindFolder \/ CheckSourceFolder \/ BinaryAnswers,
         outcome' # "aborted"
  PROVE  MissedInv'
  <1> USE PlaceSubject DEF CheckTypeOK
  <1>1. /\ Stage \in AtComponent
        /\ UNCHANGED <<worlds, sources>> /\ errors \subseteq errors'
        /\ worlds' = worlds /\ sources' = sources
        /\ Subject \in Components /\ Stage # "done"
    <2>1. Stage \in AtComponent
      BY DEF FindExe, FindFile, FindFolder, CheckSourceFolder, BinaryAnswers, Asking,
             AtComponent
    <2>2. UNCHANGED <<worlds, sources>> /\ errors \subseteq errors'
      BY DEF FindExe, FindFile, FindFolder, CheckSourceFolder, BinaryAnswers, Issue,
             outside
    <2> QED
      BY <2>1, <2>2 DEF AtComponent, Entries
  <1>2. Rank(pc) = ComponentRank(Subject) /\ Rank(pc) > 2
    BY <1>1, RankOf, Ranks
  <1>3. ASSUME NEW stage \in AtComponent, Go(<<stage, Subject>>), errors' = errors
        PROVE  MissedInv'
    <2>1. Rank(<<stage, Subject>>) = ComponentRank(Subject)
      BY <1>3 DEF Rank, AtComponent, Entries
    <2> QED
      BY <1>1, <1>2, <1>3, <2>1, SameRank DEF Go
  <1>4. ASSUME Go(AfterComponent(Subject)),
               \A e \in {<<"component", Subject>>, <<"manifest", Subject>>,
                         <<"status", Subject>>, <<"version", Subject>>} :
                 Certain(e) => e \in errors'
        PROVE  MissedInv'
    <2>1. ASSUME NEW e \in Issues, Rank(pc) <= IssueRank(e),
                 IssueRank(e) < Rank(AfterComponent(Subject)), Certain(e)
          PROVE  e \in errors'
      BY <1>1, <1>2, <1>4, <2>1, IssuesBetween
    <2> QED
      BY <1>1, <1>2, <1>4, <2>1, GoOnFrom
  <1>5. CASE FindExe \/ FindFile
    <2>1. \E stage \in {"runExe", "runFile", "file", "folder"} : Go(<<stage, Subject>>)
      BY <1>5 DEF FindExe, FindFile, Printed, End
    <2>2. errors' = errors
      BY <1>5 DEF FindExe, FindFile
    <2> QED
      BY <1>3, <2>1, <2>2 DEF AtComponent
  <1>6. ASSUME SeenIn(worlds, slow, "noExe", Subject), SeenIn(worlds, slow, "noFile", Subject)
        PROVE  ~Certain(<<"status", Subject>>) /\ ~Certain(<<"version", Subject>>)
    <2>1. PICK v \in worlds : Exe(v, Subject) = None
      BY <1>6 DEF SeenIn, Holds
    <2>2. PICK w \in worlds : Path(w, Subject) \notin Files
      BY <1>6 DEF SeenIn, Holds
    <2>3. Settled(Subject) => Program(w, Subject) = Path(w, Subject)
      BY <2>1, <2>2 DEF Settled, Program
    <2>4. Path(w, Subject) \notin Answers
      <3>1. Path(w, Subject) \in Files \cup {"folder", None}
        BY <1>1, <2>2 DEF Worlds, Layouts, Path
      <3> QED
        BY <2>2, <3>1, CheckAssumptions DEF Answers
    <2>5. ~(Lasting("fails", Subject) /\ Settled(Subject))
      BY <2>2, <2>3, <2>4 DEF Lasting, Holds, Answers
    <2>6. ~(Lasting("mismatch", Subject) /\ Settled(Subject))
      BY <2>2, <2>3, <2>4 DEF Lasting, Holds, Answers
    <2> QED
      BY <2>5, <2>6, CertainCases
  <1>7. CASE FindFolder
    <2>1. \A k \in {"noExe", "noFile"} : SeenIn(worlds, slow, k, Subject)
      BY <1>7, MetNext DEF FindFolder, PlaceInv
    <2>2. CASE Path(world, Subject) = "folder"
      <3>1. Go(<<"Cargo.toml", Subject>>) /\ errors' = errors
        BY <1>7, <2>2 DEF FindFolder, Printed, End
      <3> QED
        BY <1>3, <3>1 DEF AtComponent, Entries
    <2>3. CASE Path(world, Subject) # "folder"
      <3>1. ~Lasting("folder", Subject)
        BY <2>3 DEF Lasting, Holds
      <3>2. ~Certain(<<"manifest", Subject>>)
        BY <3>1, CertainCases
      <3> QED
        BY <1>4, <1>6, <1>7, <2>1, <2>3, <3>2 DEF FindFolder, Issue
    <2> QED
      BY <2>2, <2>3
  <1>8. CASE CheckSourceFolder
    <2>1. \A k \in {"noExe", "noFile", "folder"} : SeenIn(worlds, slow, k, Subject)
      BY <1>8, MetNext DEF CheckSourceFolder, PlaceInv
    <2>2. ~Certain(<<"component", Subject>>)
      <3>1. PICK w \in worlds : Path(w, Subject) = "folder"
        BY <2>1 DEF SeenIn, Holds
      <3>2. ~Lasting("noFolder", Subject)
        BY <3>1 DEF Lasting, Holds
      <3> QED
        BY <3>2, CertainCases
    <2>3. CASE Go(AfterComponent(Subject))
      <3>1. Certain(<<"manifest", Subject>>) => <<"manifest", Subject>> \in errors'
        <4>1. CASE Stage \in Inside(world, Subject)
          <5>1. ~Lasting(Stage, Subject) /\ Stage \in Entries
            BY <1>8, <4>1 DEF Lasting, Holds, CheckSourceFolder, Entries
          <5> QED
            BY <5>1, CertainCases
        <4>2. CASE <<"manifest", Subject>> \in errors'
          BY <4>2
        <4>3. CASE Stage # "modules" /\ pc' = <<NextEntry(Stage), Subject>>
          <5>1. NextEntry(Stage) \in Entries
            BY <1>8, <4>3, NextPlaces DEF CheckSourceFolder
          <5>2. AfterComponent(Subject)[1] \notin Entries \/ AfterComponent(Subject)[2] # Subject
            BY <1>1 DEF AfterComponent, FirstLook, Components, Entries
          <5> QED
            BY <2>3, <4>3, <5>1, <5>2 DEF Go
        <4> QED
          BY <1>8, <4>1, <4>2, <4>3 DEF CheckSourceFolder, Issue, Go
      <3> QED
        BY <1>4, <1>6, <2>1, <2>2, <2>3, <3>1
    <2>4. CASE /\ Go(<<NextEntry(Stage), Subject>>) /\ errors' = errors
               /\ Stage \in Entries \ {"modules"}
      BY <1>3, <2>4, NextPlaces DEF AtComponent
    <2> QED
      BY <1>8, <2>3, <2>4 DEF CheckSourceFolder, Printed, End
  <1>9. CASE BinaryAnswers
    <2>1. PICK w \in worlds : Program(w, Subject) = child
      BY <1>9 DEF BinaryAnswers, PlaceInv
    <2>2. child # None /\ Go(AfterComponent(Subject)) /\ child # "folder"
      BY <1>9, CheckAssumptions DEF BinaryAnswers, Printed, End
    <2>3. ~Certain(<<"component", Subject>>) /\ ~Certain(<<"manifest", Subject>>)
      <3>1. child \in Files
        <4>1. Program(w, Subject) \in Files \cup {"folder", None}
          BY <1>1, <2>1 DEF Worlds, Layouts, Program, Exe, Path
        <4> QED
          BY <2>1, <2>2, <4>1
      <3>2. ~(Lasting("noExe", Subject) /\ Lasting("noFile", Subject))
        BY <2>1, <3>1 DEF Lasting, Holds, Program
      <3> QED
        BY <3>2, CertainCases
    <2>4. Certain(<<"status", Subject>>) => <<"status", Subject>> \in errors'
      <3>1. Lasting("fails", Subject) => child = "nonzero"
        BY <2>1 DEF Lasting, Holds
      <3> QED
        BY <1>9, <3>1, CertainCases, CheckAssumptions DEF BinaryAnswers, Issue
    <2>5. Certain(<<"version", Subject>>) => <<"version", Subject>> \in errors'
      <3>1. Lasting("mismatch", Subject) => child \in Texts \ Containing
        BY <2>1 DEF Lasting, Holds
      <3> QED
        BY <1>9, <3>1, CertainCases, CheckAssumptions DEF BinaryAnswers, Issue
    <2> QED
      BY <1>4, <2>2, <2>3, <2>4, <2>5
  <1> QED
    BY <1>5, <1>7, <1>8, <1>9

(* nor the search for sources, *)
LEMMA MissedSource ==
  ASSUME CheckTypeOK, CheckTypeOK', MissedInv, DiscoverSource, outcome' # "aborted"
  PROVE  MissedInv'
  <1> USE PlaceSubject DEF CheckTypeOK
  <1>1. /\ worlds' = worlds /\ errors' = errors /\ world \in worlds
        /\ outcome = None /\ outcome # "aborted" /\ outcome # "ok"
        /\ sources \subseteq sources' /\ Stage = "source" /\ pc = <<Stage, Subject>>
    BY CheckAssumptions DEF DiscoverSource, outside
  <1>2. AlwaysSource(Subject) => Subject \in sources'
    BY <1>1 DEF DiscoverSource, AlwaysSource
  <1>3. \A c : AlwaysSource(c)' <=> AlwaysSource(c)
    BY <1>1 DEF AlwaysSource
  <1>4. CASE Subject = "client"
    <2>1. Rank(pc) = 1 /\ Go(<<"source", "server">>)
      BY <1>1, <1>4, RankOf DEF DiscoverSource
    <2>2. pc' = <<"source", "server">> /\ outcome' = outcome /\ Rank(pc') = 2
      BY <2>1, RankValues DEF Go
    <2>3. SourcesFound'
      BY <1>2, <1>3, <1>4, <2>2 DEF SourcesFound
    <2>4. \A e \in Issues : ~(1 <= IssueRank(e) /\ IssueRank(e) < 2)
      BY IssuesBetween, RankType
    <2> QED
      BY <1>1, <2>1, <2>2, <2>3, <2>4, Passing
  <1>5. CASE Subject = "server"
    <2>1. Rank(pc) = 2
      BY <1>1, <1>5, RankOf
    <2>2. AlwaysSource("client") => "client" \in sources'
      BY <1>1, <2>1, CheckAssumptions DEF MissedInv, SourcesFound
    <2>3. SourcesFound'
      BY <1>2, <1>3, <1>5, <2>2 DEF SourcesFound
    <2>4. CASE sources' = {} /\ Go(FirstLook("client"))
      <3>1. pc' = FirstLook("client") /\ outcome' = outcome /\ Rank(pc') = 10
        BY <2>4, FirstRank DEF Go, ComponentRank, Components
      <3>2. \A c \in Components : ~AlwaysSource(c)
        BY <1>2, <1>5, <2>2, <2>4 DEF Components
      <3>3. \A e \in ToolchainIssues : ~Certain(e)
        BY <3>2, CertainCases
      <3>4. \A e \in Issues : 2 <= IssueRank(e) /\ IssueRank(e) < 10 => ~Certain(e)
        BY <3>3, IssuesBetween
      <3> QED
        BY <1>1, <2>1, <2>3, <3>1, <3>4, Passing
    <2>5. CASE Go(<<"tool", "cmake">>)
      <3>1. pc' = <<"tool", "cmake">> /\ outcome' = outcome /\ Rank(pc') = 3
        BY <2>5, RankValues DEF Go, RequiredTools
      <3>2. \A e \in Issues : ~(2 <= IssueRank(e) /\ IssueRank(e) < 3)
        BY IssuesBetween, RankType
      <3> QED
        BY <1>1, <2>1, <2>3, <3>1, <3>2, Passing
    <2> QED
      BY <1>5, <2>4, <2>5 DEF DiscoverSource, Printed, End
  <1> QED
    BY <1>1, <1>4, <1>5 DEF Components

(* nor the looks at the directory of modules, *)
LEMMA MissedModules ==
  ASSUME CheckTypeOK, CheckTypeOK', PlaceInv, MissedInv, FindModules \/ CheckModulesDir,
         outcome' # "aborted"
  PROVE  MissedInv'
  <1> USE DEF CheckTypeOK
  <1>1. /\ worlds' = worlds /\ sources' = sources /\ errors \subseteq errors'
        /\ world \in worlds /\ outcome = None /\ Stage # "done"
        /\ outcome # "aborted" /\ outcome # "ok" /\ Rank(pc) = 0
    BY CheckAssumptions, RankOf DEF FindModules, CheckModulesDir, outside, Issue
  <1>2. CASE Go(<<"directory", None>>)
    <2>1. Rank(pc') = 0 /\ errors' = errors /\ outcome' = outcome
      BY <1>2, RankValues DEF Go, FindModules, CheckModulesDir, Printed, End
    <2> QED
      BY <1>1, <2>1, SameRank
  <1>3. CASE Go(<<"source", "client">>)
    <2>1. pc' = <<"source", "client">> /\ outcome' = outcome /\ Rank(pc') = 1
      BY <1>3, RankValues DEF Go
    <2>2. SourcesFound'
      BY <2>1 DEF SourcesFound
    <2>3. ASSUME NEW e \in Issues, IssueRank(e) < 1, Certain(e)
          PROVE  e \in errors'
      <3>1. CASE e = <<"modules", None>>
        <4>1. world.modules = "none"
          BY <1>1, <2>3, <3>1, CertainCases DEF Lasting, Holds
        <4>2. ~CheckModulesDir
          <5>1. SeenIn(worlds, slow, "present", None) => ~Lasting("noModules", None)
            BY DEF SeenIn, Lasting, Holds
          <5> QED
            BY <2>3, <3>1, <5>1, CertainCases DEF PlaceInv, CheckModulesDir
        <4> QED
          BY <3>1, <4>1, <4>2 DEF FindModules, Issue
      <3>2. CASE e = <<"notDirectory", None>>
        <4>1. world.modules # "none" /\ world.modules # "folder"
          BY <1>1, <2>3, <3>2, CertainCases DEF Lasting, Holds
        <4> QED
          BY <1>3, <3>2, <4>1 DEF FindModules, CheckModulesDir, Issue, Go
      <3> QED
        BY <2>3, <3>1, <3>2, IssuesBetween
    <2> QED
      BY <1>1, <2>1, <2>2, <2>3, Passing
  <1> QED
    BY <1>2, <1>3 DEF FindModules, CheckModulesDir, Printed, End

(* nor the report, which shows all that was collected. *)
LEMMA MissedReport ==
  ASSUME CheckTypeOK, CheckTypeOK', MissedInv, Report, outcome' # "aborted"
  PROVE  MissedInv'
  <1> USE DEF CheckTypeOK
  <1>1. /\ worlds' = worlds /\ sources' = sources /\ errors' = errors
        /\ outcome = None /\ outcome # "aborted" /\ Rank(pc) = 12
    BY CheckAssumptions, RankOf DEF Report, outside
  <1>2. outcome' = "ok" => errors' = {}
    BY <1>1 DEF Report, End
  <1>3. SourcesFound'
    BY <1>1, SourcesKept DEF MissedInv
  <1>4. \A e : Certain(e)' <=> Certain(e)
    BY <1>1 DEF Certain, Lasting, LastingSource, Settled
  <1>5. IssuesFound'
    BY <1>1, <1>4, IssuesBetween DEF MissedInv, IssuesFound
  <1> QED
    BY <1>2, <1>3, <1>5 DEF MissedInv

(* No step misses what lasted. *)
LEMMA MissedStep ==
  ASSUME CheckTypeOK, CheckTypeOK', PlaceInv, MissedInv, [Next]_vars
  PROVE  MissedInv'
  <1> USE DEF CheckTypeOK
  <1>1. CASE outcome' = "aborted"
    BY <1>1 DEF MissedInv
  <1>2. CASE Start
    <2>1. Rank(pc') = 0 /\ outcome' = None
      BY <1>2, RankValues DEF Start
    <2>2. SourcesFound'
      BY <2>1 DEF SourcesFound
    <2>3. IssuesFound'
      BY <2>1, RankType DEF IssuesFound
    <2> QED
      BY <2>1, <2>2, <2>3, CheckAssumptions DEF MissedInv
  <1>3. CASE Locate /\ outcome' # "aborted"
    <2>1. /\ Stage = "locate" /\ UNCHANGED <<worlds, sources, errors>>
          /\ Go(<<"exists", None>>)
      BY <1>3 DEF Locate, Printed, End, outside
    <2>2. Rank(pc) = 0 /\ Rank(pc') = 0
      BY <2>1, RankOf, RankValues DEF Go
    <2> QED
      BY <2>1, <2>2, SameRank DEF Go
  <1>4. CASE Spawn \/ RunBinary
    BY <1>4, SameRank DEF Spawn, RunBinary, outside, Probing, Asking
  <1>5. CASE Change \/ BreakOutput \/ UNCHANGED vars
    <2>1. /\ worlds \subseteq worlds' /\ UNCHANGED <<pc, sources, errors, outcome>>
          /\ Stage' = Stage
      BY <1>5 DEF Change, BreakOutput, vars, Stage
    <2>2. CASE Stage # "done"
      BY <2>1, <2>2, SameRank
    <2>3. CASE Stage = "done"
      <3>1. worlds' = worlds
        BY <1>5, <2>3 DEF Change, BreakOutput, vars, Running
      <3>2. \A e : Certain(e)' <=> Certain(e)
        BY <3>1 DEF Certain, Lasting, LastingSource, Settled
      <3>3. \A c : AlwaysSource(c)' <=> AlwaysSource(c)
        BY <3>1 DEF AlwaysSource
      <3> QED
        BY <2>1, <3>2, <3>3 DEF MissedInv, SourcesFound, IssuesFound
    <2> QED
      BY <2>2, <2>3
  <1>6. CASE LocateFails \/ SpawnFails \/ RunFails \/ BinaryTimesOut
    BY <1>1, <1>6 DEF LocateFails, SpawnFails, RunFails, BinaryTimesOut, Abort, End
  <1> QED
    BY <1>1, <1>2, <1>3, <1>4, <1>5, <1>6, MissedTool, MissedComponent,
       MissedSource, MissedModules, MissedReport
       DEF Next, CheckStep, Answer

(* Before the first check nothing is missed. *)
LEMMA MissedInit == Init => MissedInv
  <1> SUFFICES ASSUME Init
               PROVE  MissedInv
    OBVIOUS
  <1>1. Rank(pc) = 0 /\ outcome = None
    BY RankValues DEF Init
  <1> QED
    BY <1>1, RankType, CheckAssumptions DEF MissedInv, SourcesFound, IssuesFound

(* What no place of the check has missed, its report has not. *)
LEMMA MissedImplies == CheckTypeOK /\ MissedInv => NothingMissed
  <1> SUFFICES ASSUME CheckTypeOK, MissedInv
               PROVE  NothingMissed
    OBVIOUS
  <1>1. ASSUME outcome \in {"ok", "issues"}
        PROVE  \A e \in Issues : Certain(e) => e \in errors
    <2>1. Rank(pc) = 13
      BY <1>1, CheckAssumptions, RankOf DEF CheckTypeOK
    <2> QED
      BY <1>1, <2>1, IssuesBetween, RankType DEF MissedInv, IssuesFound
  <1> QED
    BY <1>1 DEF NothingMissed, MissedInv

(***************************************************************************)
(* A check that was not given up has every issue that was there all the    *)
(* time, whatever else changed under it.                                   *)
(***************************************************************************)
THEOREM NothingMissedCorrect == Spec => []NothingMissed
  <1>1. CheckTypeOK /\ PlaceInv /\ MissedInv /\ [Next]_vars
          => (CheckTypeOK /\ PlaceInv /\ MissedInv)'
    BY TypeStep, PlaceStep, MissedStep
  <1> QED
    BY <1>1, TypeInit, SeenInit, MissedInit, MissedImplies, PTL DEF Spec

-----------------------------------------------------------------------------
(* What success vouches for *)

(* What has been met if an issue of each of these kinds was looked for and  *)
(* none was found.                                                          *)
Stations ==
  {e \in Issues : e[1] \in {"modules", "tool", "longPaths", "compiler", "component"}}

There(t) == \E w \in worlds : w.tool[t] = "there"

GoodComponent(w, c) == Program(w, c) \in Containing \/ Inside(w, c) # {}

Good(e) ==
  CASE e[1] = "modules" -> \E w \in worlds : w.modules = "folder"
    [] e[1] = "tool" -> There(e[2])
    [] e[1] = "longPaths" -> \E w \in worlds : w.longPaths = "on"
    [] e[1] = "compiler" -> \E t \in Compilers : There(t)
    [] e[1] = "component" -> \E w \in worlds : GoodComponent(w, e[2])

(***************************************************************************)
(* A check that has collected nothing so far has met what is good at each  *)
(* of its stations; those of the toolchain only if it has found a source.  *)
(***************************************************************************)
Behind(e) == IssueRank(e) < Rank(pc) /\ (e \in ToolchainIssues => sources # {})

VouchInv ==
  outcome # "aborted" /\ errors = {} => \A e \in Stations : Behind(e) => Good(e)

(* What is good of each station. *)
LEMMA GoodCases ==
  /\ Good(<<"modules", None>>) <=> \E w \in worlds : w.modules = "folder"
  /\ \A t : Good(<<"tool", t>>) <=> There(t)
  /\ Good(<<"longPaths", None>>) <=> \E w \in worlds : w.longPaths = "on"
  /\ Good(<<"compiler", None>>) <=> \E t \in Compilers : There(t)
  /\ \A c : Good(<<"component", c>>) <=> \E w \in worlds : GoodComponent(w, c)
  BY DEF Good

(* What was met once has been met. *)
LEMMA GoodMono ==
  ASSUME worlds \subseteq worlds', NEW e \in Stations, Good(e)
  PROVE  Good(e)'
  <1>1. CASE e[1] = "modules"
    BY <1>1 DEF Good
  <1>2. CASE e[1] = "tool"
    BY <1>2 DEF Good, There
  <1>3. CASE e[1] = "longPaths"
    BY <1>3 DEF Good
  <1>4. CASE e[1] = "compiler"
    BY <1>4 DEF Good, There
  <1>5. CASE e[1] = "component"
    BY <1>5 DEF Good, GoodComponent
  <1> QED
    BY <1>1, <1>2, <1>3, <1>4, <1>5 DEF Stations

(* A check that goes on past some stations. *)
LEMMA VouchOn ==
  ASSUME CheckTypeOK, CheckTypeOK', VouchInv, Stage # "done",
         worlds \subseteq worlds', errors \subseteq errors',
         sources' = sources \/ Rank(pc) <= 2,
         \A e \in Stations :
           (/\ Rank(pc) <= IssueRank(e) /\ IssueRank(e) < Rank(pc') /\ errors' = {}
            /\ e \in ToolchainIssues => sources' # {}) => Good(e)'
  PROVE  VouchInv'
  <1> SUFFICES ASSUME outcome' # "aborted", errors' = {}, NEW e \in Stations, Behind(e)'
               PROVE  Good(e)'
    BY DEF VouchInv
  <1>1. e \in Issues /\ IssueRank(e) \in Nat /\ Rank(pc) \in Nat
    BY RankType DEF CheckTypeOK, Stations
  <1>2. errors = {} /\ outcome # "aborted"
    BY CheckAssumptions DEF CheckTypeOK
  <1>3. CASE Rank(pc) <= IssueRank(e)
    BY <1>3 DEF Behind
  <1>4. CASE IssueRank(e) < Rank(pc)
    <2>1. e \in ToolchainIssues => Rank(pc) > 2
      <3>1. e \in ToolchainIssues => IssueRank(e) >= 2
        BY ToolchainRank
      <3> QED
        BY <1>1, <1>4, <3>1
    <2>2. Behind(e)
      BY <1>4, <1>1, <2>1 DEF Behind
    <2> QED
      BY <1>2, <2>2, GoodMono DEF VouchInv
  <1> QED
    BY <1>1, <1>3, <1>4

(* Or stays between the same two. *)
LEMMA VouchSame ==
  ASSUME CheckTypeOK, CheckTypeOK', VouchInv, Stage # "done",
         worlds \subseteq worlds', errors \subseteq errors', sources' = sources,
         Rank(pc') = Rank(pc)
  PROVE  VouchInv'
  <1>1. \A e \in Issues : IssueRank(e) \in Nat /\ Rank(pc) \in Nat
    BY RankType DEF CheckTypeOK
  <1> QED
    BY <1>1, VouchOn DEF Stations

(* The tools, *)
LEMMA VouchTool ==
  ASSUME CheckTypeOK, CheckTypeOK', PlaceInv, VouchInv,
         NotFound \/ TimesOut \/ ToolAnswers \/ RegAnswers, outcome' # "aborted"
  PROVE  VouchInv'
  <1> USE PlaceSubject DEF CheckTypeOK
  <1>1. /\ Probing /\ sources' = sources /\ errors \subseteq errors' /\ worlds' = worlds
    BY DEF NotFound, TimesOut, ToolAnswers, RegAnswers, Missing, Issue, Probing, outside
  <1>2. Stage # "done"
    BY <1>1 DEF Probing
  <1>3. ToolAnswers => \E w \in worlds' : w.tool[Subject] = "there"
    BY <1>1 DEF ToolAnswers, PlaceInv, Probing
  <1>4. CASE Stage = "tool" /\ Subject # "reg"
    <2>1. Subject \in RequiredTools /\ Rank(pc) = ToolRank(Subject)
      BY <1>4, RankOf
    <2>2. pc' = NextTool(Subject) /\ (errors' = {} => ToolAnswers)
      BY <1>4 DEF NotFound, TimesOut, ToolAnswers, RegAnswers, Missing, Printed, End, Go,
                  Issue
    <2>3. ASSUME NEW e \in Stations, ToolRank(Subject) <= IssueRank(e),
                 IssueRank(e) < Rank(NextTool(Subject)), errors' = {}
          PROVE  Good(e)'
      <3>1. e = <<"tool", Subject>>
        BY <2>1, <2>3, IssuesBetween DEF Stations
      <3>2. \E w \in worlds' : w.tool[e[2]] = "there"
        BY <1>3, <2>2, <2>3, <3>1
      <3> QED
        BY <3>1, <3>2 DEF Good, There
    <2> QED
      BY <1>1, <1>2, <2>1, <2>2, <2>3, VouchOn
  <1>5. CASE Stage = "tool" /\ Subject = "reg"
    <2>1. Rank(pc) = 6 /\ Rank(NextTool("reg")) = 7
      <3>1. NextTool("reg") = <<"tool", "clang">> /\ ToolRank("clang") = 7
        BY DEF NextTool, ToolRank
      <3> QED
        BY <1>5, <3>1, RankOf, RankValues DEF RequiredTools
    <2>2. pc' = NextTool("reg") /\ (errors' = {} => world.longPaths = "on")
      BY <1>5 DEF NotFound, TimesOut, ToolAnswers, RegAnswers, Missing, Printed, End, Go,
                  Issue
    <2>3. ASSUME NEW e \in Stations, 6 <= IssueRank(e), IssueRank(e) < 7, errors' = {}
          PROVE  Good(e)'
      <3>1. e = <<"longPaths", None>>
        BY <2>3, IssuesBetween DEF Stations
      <3>2. \E w \in worlds' : w.longPaths = "on"
        BY <1>1, <2>2, <2>3
      <3> QED
        BY <3>1, <3>2 DEF Good
    <2> QED
      BY <1>1, <1>2, <2>1, <2>2, <2>3, VouchOn
  <1>6. CASE Stage = "compiler"
    <2>1. Rank(pc) = 9
      BY <1>6, RankOf
    <2>2. CASE ToolAnswers \/ Subject = "gcc"
      <3>1. Rank(FirstLook("client")) = 10
        BY FirstRank DEF ComponentRank, Components
      <3>2. pc' = FirstLook("client") /\ (errors' = {} => ToolAnswers)
        BY <1>6, <2>2 DEF NotFound, TimesOut, ToolAnswers, RegAnswers, Missing,
                          Printed, End, Go, Issue
      <3>3. ASSUME NEW e \in Stations, 9 <= IssueRank(e), IssueRank(e) < 10, errors' = {}
            PROVE  Good(e)'
        <4>1. e = <<"compiler", None>>
          BY <3>3, IssuesBetween DEF Stations
        <4>2. \E t \in Compilers, w \in worlds' : w.tool[t] = "there"
          BY <1>3, <1>6, <3>2, <3>3
        <4> QED
          BY <4>1, <4>2 DEF Good, There
      <3> QED
        BY <1>1, <1>2, <2>1, <3>1, <3>2, <3>3, VouchOn
    <2>3. CASE ~ToolAnswers /\ Subject # "gcc"
      <3>1. pc' = <<"compiler", NextCompiler(Subject)>>
        BY <1>6, <2>3 DEF NotFound, TimesOut, RegAnswers, Missing, Go
      <3> QED
        BY <1>1, <1>2, <2>1, <3>1, RankValues, VouchSame
    <2> QED
      BY <2>2, <2>3
  <1> QED
    BY <1>1, <1>4, <1>5, <1>6 DEF Probing

(* the components, *)
LEMMA VouchComponent ==
  ASSUME CheckTypeOK, CheckTypeOK', PlaceInv, VouchInv,
         FindExe \/ FindFile \/ FindFolder \/ CheckSourceFolder \/ BinaryAnswers,
         outcome' # "aborted"
  PROVE  VouchInv'
  <1> USE PlaceSubject DEF CheckTypeOK
  <1>1. /\ Stage \in AtComponent /\ Stage # "done" /\ Subject \in Components
        /\ sources' = sources /\ worlds' = worlds /\ errors \subseteq errors'
    <2>1. Stage \in AtComponent
      BY DEF FindExe, FindFile, FindFolder, CheckSourceFolder, BinaryAnswers, Asking,
             AtComponent
    <2>2. sources' = sources /\ worlds' = worlds /\ errors \subseteq errors'
      BY DEF FindExe, FindFile, FindFolder, CheckSourceFolder, BinaryAnswers, Issue,
             outside
    <2> QED
      BY <2>1, <2>2 DEF AtComponent, Entries
  <1>2. Rank(pc) = ComponentRank(Subject)
    BY <1>1, RankOf
  <1>3. ASSUME NEW stage \in AtComponent, pc' = <<stage, Subject>>
        PROVE  VouchInv'
    <2>1. Rank(<<stage, Subject>>) = ComponentRank(Subject)
      BY <1>3 DEF Rank, AtComponent, Entries
    <2> QED
      BY <1>1, <1>2, <1>3, <2>1, VouchSame
  <1>4. ASSUME pc' = AfterComponent(Subject),
               errors' = {} => \E w \in worlds : GoodComponent(w, Subject)
        PROVE  VouchInv'
    <2>1. ASSUME NEW e \in Stations, Rank(pc) <= IssueRank(e),
                 IssueRank(e) < Rank(AfterComponent(Subject)), errors' = {}
          PROVE  Good(e)'
      <3>1. e = <<"component", Subject>>
        BY <1>1, <1>2, <2>1, IssuesBetween DEF Stations
      <3>2. \E w \in worlds' : GoodComponent(w, Subject)
        BY <1>1, <1>4, <2>1
      <3> QED
        BY <3>1, <3>2 DEF Good, GoodComponent
    <2> QED
      BY <1>1, <1>4, <2>1, VouchOn
  <1>5. CASE FindExe \/ FindFile
    <2>1. \E stage \in {"runExe", "runFile", "file", "folder"} : pc' = <<stage, Subject>>
      BY <1>5 DEF FindExe, FindFile, Printed, End, Go
    <2> QED
      BY <1>3, <2>1 DEF AtComponent
  <1>6. CASE FindFolder
    <2>1. \/ pc' = <<"Cargo.toml", Subject>>
          \/ pc' = AfterComponent(Subject) /\ errors' # {}
      BY <1>6 DEF FindFolder, Printed, End, Go, Issue
    <2> QED
      BY <1>3, <1>4, <2>1 DEF AtComponent, Entries
  <1>7. CASE CheckSourceFolder
    <2>1. \/ Stage # "modules" /\ pc' = <<NextEntry(Stage), Subject>>
          \/ /\ pc' = AfterComponent(Subject)
             /\ errors' # {} \/ Stage \in Inside(world, Subject)
      BY <1>7 DEF CheckSourceFolder, Printed, End, Go, Issue
    <2>2. Stage \in Inside(world, Subject) => \E w \in worlds : GoodComponent(w, Subject)
      BY DEF GoodComponent
    <2>3. Stage # "modules" => NextEntry(Stage) \in AtComponent
      BY <1>7, NextPlaces DEF CheckSourceFolder, AtComponent
    <2> QED
      BY <1>3, <1>4, <2>1, <2>2, <2>3
  <1>8. CASE BinaryAnswers
    <2>1. PICK w \in worlds : Program(w, Subject) = child
      BY <1>8 DEF BinaryAnswers, PlaceInv
    <2>2. pc' = AfterComponent(Subject) /\ (errors' # {} \/ child \in Containing)
      BY <1>8 DEF BinaryAnswers, Printed, End, Go, Issue
    <2> QED
      BY <1>4, <2>1, <2>2 DEF GoodComponent
  <1> QED
    BY <1>5, <1>6, <1>7, <1>8

(* and the first looks. *)
LEMMA VouchFirst ==
  ASSUME CheckTypeOK, CheckTypeOK', VouchInv,
         Locate \/ FindModules \/ CheckModulesDir \/ DiscoverSource, outcome' # "aborted"
  PROVE  VouchInv'
  <1> USE PlaceSubject DEF CheckTypeOK
  <1>1. /\ worlds' = worlds /\ errors \subseteq errors' /\ Stage # "done"
        /\ Rank(pc) \in 0..2
    <2>1. worlds' = worlds /\ errors \subseteq errors'
      BY DEF Locate, FindModules, CheckModulesDir, DiscoverSource, outside, Issue
    <2>2. \/ Stage \in {"locate", "exists", "directory"}
          \/ pc \in {<<"source", "client">>, <<"source", "server">>}
      BY DEF Locate, FindModules, CheckModulesDir, DiscoverSource, Components
    <2>3. Stage # "done"
      BY DEF Locate, FindModules, CheckModulesDir, DiscoverSource
    <2> QED
      BY <2>1, <2>2, <2>3, RankOf
  <1>2. CASE Locate \/ FindModules \/ CheckModulesDir
    <2>1. Rank(pc) = 0 /\ sources' = sources
      BY <1>2, RankOf DEF Locate, FindModules, CheckModulesDir
    <2>2. CASE Rank(pc') = 0
      BY <1>1, <2>1, <2>2, VouchSame
    <2>3. CASE pc' = <<"source", "client">>
      <3>1. errors' = {} => \E w \in worlds' : w.modules = "folder"
        BY <1>1, <1>2, <2>3 DEF Locate, FindModules, CheckModulesDir, Printed, Go, End, Issue
      <3>2. ASSUME NEW e \in Stations, IssueRank(e) < 1, errors' = {}
            PROVE  Good(e)'
        <4>1. e = <<"modules", None>>
          BY <3>2, IssuesBetween DEF Stations
        <4> QED
          BY <3>1, <3>2, <4>1 DEF Good
      <3> QED
        BY <1>1, <2>1, <2>3, <3>2, RankValues, VouchOn
    <2> QED
      BY <1>2, <2>2, <2>3, RankValues
         DEF Locate, FindModules, CheckModulesDir, Printed, Go, End
  <1>3. CASE DiscoverSource
    <2>1. \/ Rank(pc) = 1 /\ Rank(pc') = 2
          \/ Rank(pc) = 2 /\ Rank(pc') = 3
          \/ Rank(pc) = 2 /\ Rank(pc') = 10 /\ sources' = {}
      <3>1. Rank(FirstLook("client")) = 10 /\ Rank(<<"tool", "cmake">>) = 3
        BY FirstRank, RankValues DEF ComponentRank, Components, RequiredTools
      <3> QED
        BY <1>3, <3>1, RankOf, RankValues DEF DiscoverSource, Printed, Go, End
    <2>2. ASSUME NEW e \in Stations, Rank(pc) <= IssueRank(e), IssueRank(e) < Rank(pc'),
                 e \in ToolchainIssues => sources' # {}
          PROVE  FALSE
      <3>1. e \in Issues /\ IssueRank(e) \in Nat
        BY RankType DEF Stations
      <3> QED
        BY <2>1, <2>2, <3>1, IssuesBetween
    <2> QED
      BY <1>1, <2>2, VouchOn
  <1> QED
    BY <1>2, <1>3

(* No step vouches for what was not met. *)
LEMMA VouchStep ==
  ASSUME CheckTypeOK, CheckTypeOK', PlaceInv, VouchInv, [Next]_vars
  PROVE  VouchInv'
  <1> USE DEF CheckTypeOK
  <1>1. CASE outcome' = "aborted"
    BY <1>1 DEF VouchInv
  <1>2. CASE Start
    <2>1. Rank(pc') = 0
      BY <1>2, RankValues DEF Start
    <2>2. \A e \in Issues : ~(IssueRank(e) < 0)
      BY RankType
    <2> QED
      BY <2>1, <2>2 DEF VouchInv, Behind, Stations
  <1>3. CASE Spawn \/ RunBinary
    BY <1>3, VouchSame DEF Spawn, RunBinary, outside, Probing, Asking
  <1>4. CASE Change \/ BreakOutput \/ UNCHANGED vars
    <2>1. /\ worlds \subseteq worlds' /\ UNCHANGED <<pc, sources, errors, outcome>>
      BY <1>4 DEF Change, BreakOutput, vars
    <2>2. CASE Stage # "done"
      BY <2>1, <2>2, VouchSame
    <2>3. CASE Stage = "done"
      BY <2>1, GoodMono DEF VouchInv, Behind
    <2> QED
      BY <2>2, <2>3
  <1>5. CASE Report /\ outcome' # "aborted"
    <2>1. /\ worlds' = worlds /\ sources' = sources /\ errors' = errors
          /\ Stage # "done" /\ Rank(pc) = 12
      BY <1>5, RankOf DEF Report, outside
    <2>2. \A e \in Stations : IssueRank(e) < 12 /\ IssueRank(e) \in Nat
      BY IssuesBetween, RankType DEF Stations
    <2> QED
      BY <2>1, <2>2, VouchOn
  <1>6. CASE LocateFails \/ SpawnFails \/ RunFails \/ BinaryTimesOut
    BY <1>1, <1>6 DEF LocateFails, SpawnFails, RunFails, BinaryTimesOut, Abort, End
  <1> QED
    BY <1>1, <1>2, <1>3, <1>4, <1>5, <1>6, VouchTool, VouchComponent, VouchFirst
       DEF Next, CheckStep, Answer

(* Before the first check nothing lies behind. *)
LEMMA VouchInit == Init => VouchInv
  <1> SUFFICES ASSUME Init
               PROVE  VouchInv
    OBVIOUS
  <1>1. Rank(pc) = 0
    BY RankValues DEF Init
  <1> QED
    BY <1>1, RankType DEF VouchInv, Behind, Stations

(* What lies behind a report of success is what it vouches for. *)
LEMMA VouchImplies == CheckTypeOK /\ MissedInv /\ VouchInv => Vouched
  <1> SUFFICES ASSUME CheckTypeOK, MissedInv, VouchInv, outcome = "ok"
               PROVE  /\ \E w \in worlds : w.modules = "folder"
                      /\ \A c \in Components : \E w \in worlds : GoodComponent(w, c)
                      /\ LastingSource =>
                           /\ \A t \in RequiredTools : There(t)
                           /\ \E t \in Compilers : There(t)
                           /\ Windows => \E w \in worlds : w.longPaths = "on"
    BY DEF Vouched, GoodComponent, There
  <1>1. Rank(pc) = 13 /\ errors = {} /\ SourcesFound /\ outcome # "aborted"
    BY CheckAssumptions, RankOf DEF CheckTypeOK, MissedInv
  <1>2. LastingSource => sources # {}
    BY <1>1 DEF LastingSource, SourcesFound, AlwaysSource, Components
  <1>3. ASSUME NEW e \in Stations, e \in ToolchainIssues => LastingSource
        PROVE  Good(e)
    <2>1. e \in Issues
      BY DEF Stations
    <2>2. IssueRank(e) < 13
      BY <2>1, IssuesBetween, RankType
    <2> QED
      BY <1>1, <1>2, <1>3, <2>2 DEF VouchInv, Behind
  <1>4. /\ <<"modules", None>> \in Stations /\ <<"compiler", None>> \in Stations
        /\ \A t \in RequiredTools : <<"tool", t>> \in Stations
        /\ Windows => <<"longPaths", None>> \in Stations
        /\ \A c \in Components : <<"component", c>> \in Stations
    BY IssueTypes DEF Stations
  <1>5. /\ <<"modules", None>> \notin ToolchainIssues
        /\ \A c \in Components : <<"component", c>> \notin ToolchainIssues
    BY ToolchainKinds
  <1> QED
    BY <1>3, <1>4, <1>5, GoodCases

(***************************************************************************)
(* A check that ends with success has met everything it vouches for,       *)
(* whatever came and went while it looked.                                 *)
(***************************************************************************)
THEOREM VouchedCorrect == Spec => []Vouched
  <1>1. CheckTypeOK /\ PlaceInv /\ MissedInv /\ VouchInv /\ [Next]_vars
          => (CheckTypeOK /\ PlaceInv /\ MissedInv /\ VouchInv)'
    BY TypeStep, PlaceStep, MissedStep, VouchStep
  <1> QED
    BY <1>1, TypeInit, SeenInit, MissedInit, VouchInit, VouchImplies, PTL DEF Spec

-----------------------------------------------------------------------------
(* A check comes nearer its end *)

(* How far each place is from the end.                                      *)
LEMMA PlacesAhead ==
  /\ PlacesLeft(<<"locate", None>>) = 29
  /\ PlacesLeft(<<"exists", None>>) = 28
  /\ PlacesLeft(<<"directory", None>>) = 27
  /\ PlacesLeft(<<"source", "client">>) = 26
  /\ PlacesLeft(<<"source", "server">>) = 25
  /\ PlacesLeft(<<"tool", "cmake">>) = 24
  /\ PlacesLeft(<<"tool", "cargo">>) = 23
  /\ PlacesLeft(<<"tool", "ninja">>) = 22
  /\ PlacesLeft(<<"tool", "reg">>) = 21
  /\ PlacesLeft(<<"tool", "clang">>) = 20
  /\ PlacesLeft(<<"tool", "clang++">>) = 19
  /\ PlacesLeft(<<"compiler", "native">>) = 18
  /\ PlacesLeft(<<"compiler", "clang">>) = 17
  /\ PlacesLeft(<<"compiler", "gcc">>) = 16
  /\ PlacesLeft(<<"exe", "client">>) = 15
  /\ PlacesLeft(<<"file", "client">>) = 14
  /\ PlacesLeft(<<"folder", "client">>) = 13
  /\ PlacesLeft(<<"runExe", "client">>) = 13
  /\ PlacesLeft(<<"runFile", "client">>) = 13
  /\ PlacesLeft(<<"Cargo.toml", "client">>) = 12
  /\ PlacesLeft(<<"CMakeLists.txt", "client">>) = 11
  /\ PlacesLeft(<<"package.json", "client">>) = 10
  /\ PlacesLeft(<<"modules", "client">>) = 9
  /\ PlacesLeft(<<"exe", "server">>) = 8
  /\ PlacesLeft(<<"file", "server">>) = 7
  /\ PlacesLeft(<<"folder", "server">>) = 6
  /\ PlacesLeft(<<"runExe", "server">>) = 6
  /\ PlacesLeft(<<"runFile", "server">>) = 6
  /\ PlacesLeft(<<"Cargo.toml", "server">>) = 5
  /\ PlacesLeft(<<"CMakeLists.txt", "server">>) = 4
  /\ PlacesLeft(<<"package.json", "server">>) = 3
  /\ PlacesLeft(<<"modules", "server">>) = 2
  /\ PlacesLeft(<<"report", None>>) = 1
  /\ PlacesLeft(<<"done", None>>) = 0
  /\ PlacesLeft(<<"idle", None>>) = 0
  <1>1. /\ OfToolchain("cmake") = 24 /\ OfToolchain("cargo") = 23
        /\ OfToolchain("ninja") = 22 /\ OfToolchain("reg") = 21
        /\ OfToolchain("clang") = 20 /\ OfToolchain("clang++") = 19
    BY DEF OfToolchain
  <1>2. /\ OfCompiler("native") = 18 /\ OfCompiler("clang") = 17
        /\ OfCompiler("gcc") = 16
    BY DEF OfCompiler
  <1>3. /\ OfComponent("exe", "client") = 15 /\ OfComponent("file", "client") = 14
        /\ OfComponent("folder", "client") = 13 /\ OfComponent("runExe", "client") = 13
        /\ OfComponent("runFile", "client") = 13 /\ OfComponent("Cargo.toml", "client") = 12
        /\ OfComponent("CMakeLists.txt", "client") = 11 /\ OfComponent("package.json", "client") = 10
        /\ OfComponent("modules", "client") = 9 /\ OfComponent("exe", "server") = 8
        /\ OfComponent("file", "server") = 7 /\ OfComponent("folder", "server") = 6
        /\ OfComponent("runExe", "server") = 6 /\ OfComponent("runFile", "server") = 6
        /\ OfComponent("Cargo.toml", "server") = 5 /\ OfComponent("CMakeLists.txt", "server") = 4
        /\ OfComponent("package.json", "server") = 3 /\ OfComponent("modules", "server") = 2
    BY DEF OfComponent
  <1> QED
    BY <1>1, <1>2, <1>3 DEF PlacesLeft, AtComponent, Entries

(* At most twenty-nine places are ahead of a place. *)
LEMMA PlacesLeftType ==
  ASSUME NEW place \in Places
  PROVE  PlacesLeft(place) \in 0..29
  <1>1. CASE place \in {"idle", "locate", "exists", "directory", "report", "done"} \X {None}
    BY <1>1, PlacesAhead
  <1>2. CASE place \in {"source", "file", "folder", "runFile"} \X Components
    BY <1>2, PlacesAhead DEF Components
  <1>3. CASE place \in Entries \X Components
    BY <1>3, PlacesAhead DEF Components, Entries
  <1>4. CASE place \in {"exe", "runExe"} \X Components
    BY <1>4, PlacesAhead DEF Components
  <1>5. CASE place \in {"tool"} \X (RequiredTools \cup {"reg"})
    BY <1>5, PlacesAhead DEF RequiredTools
  <1>6. CASE place \in {"compiler"} \X Compilers
    BY <1>6, PlacesAhead DEF Compilers
  <1> QED
    BY <1>1, <1>2, <1>3, <1>4, <1>5, <1>6 DEF Places

(* At most 59 is left, and 1 at the end: a check makes 58 moves at most.    *)
LEMMA MovesLeftType ==
  ASSUME CheckTypeOK
  PROVE  MovesLeft \in 0..59 /\ (Stage = "done" => MovesLeft = 1)
  <1> DEFINE n == PlacesLeft(pc)
  <1>1. n \in 0..29
    BY PlacesLeftType DEF CheckTypeOK
  <1>2. MovesLeft = 2 * n + 1 \/ MovesLeft = 2 * n + 0
    BY DEF MovesLeft
  <1>3. ASSUME Stage = "done" PROVE MovesLeft = 1
    <2>1. pc = <<"done", None>> /\ child = None
      BY <1>3 DEF CheckTypeOK, Places, Stage, Probing, Asking, Entries
    <2> QED
      BY <2>1, PlacesAhead DEF MovesLeft
  <1> HIDE DEF n
  <1> QED
    BY <1>1, <1>2, <1>3

(* A move to a place nearer the end, with no child left behind.             *)
LEMMA Nearer ==
  ASSUME CheckTypeOK, CheckTypeOK', PlacesLeft(pc') < PlacesLeft(pc), child' = None
  PROVE  MovesLeft' < MovesLeft
  <1> DEFINE n == PlacesLeft(pc)
             m == PlacesLeft(pc')
  <1>1. n \in Nat /\ m \in Nat /\ m < n
    BY PlacesLeftType DEF CheckTypeOK
  <1>2. MovesLeft = 2 * n + (IF child = None THEN 1 ELSE 0)
        /\ MovesLeft' = 2 * m + 1
    BY DEF MovesLeft
  <1> HIDE DEF n, m
  <1> QED
    BY <1>1, <1>2

(* A move on to a place that is nearer, or to the end.                      *)
MovesOn == \E place : /\ PlacesLeft(place) < PlacesLeft(pc)
                      /\ pc' = place /\ child' = None

(* What comes after each place is nearer the end.                           *)
LEMMA Onward ==
  ASSUME pc \in Places
  PROVE  /\ Running => PlacesLeft(<<"done", None>>) < PlacesLeft(pc)
         /\ Stage = "tool"
              => PlacesLeft(NextTool(Subject)) < PlacesLeft(pc)
         /\ Stage = "compiler" /\ Subject # "gcc"
              => PlacesLeft(<<"compiler", NextCompiler(Subject)>>)
                   < PlacesLeft(pc)
         /\ Stage = "compiler"
              => PlacesLeft(FirstLook("client")) < PlacesLeft(pc)
         /\ Stage \in {"folder", "runExe", "runFile"} \cup Entries
              => PlacesLeft(AfterComponent(Subject)) < PlacesLeft(pc)
         /\ Stage = "exe"
              => /\ PlacesLeft(<<"runExe", Subject>>) < PlacesLeft(pc)
                 /\ PlacesLeft(<<"file", Subject>>) < PlacesLeft(pc)
         /\ Stage = "file"
              => /\ PlacesLeft(<<"runFile", Subject>>) < PlacesLeft(pc)
                 /\ PlacesLeft(<<"folder", Subject>>) < PlacesLeft(pc)
         /\ Stage = "folder"
              => PlacesLeft(<<"Cargo.toml", Subject>>) < PlacesLeft(pc)
         /\ Stage \in Entries \ {"modules"}
              => PlacesLeft(<<NextEntry(Stage), Subject>>) < PlacesLeft(pc)
         /\ Stage = "source" /\ Subject = "client"
              => PlacesLeft(<<"source", "server">>) < PlacesLeft(pc)
         /\ Stage = "source"
              => /\ PlacesLeft(FirstLook("client")) < PlacesLeft(pc)
                 /\ PlacesLeft(<<"tool", "cmake">>) < PlacesLeft(pc)
         /\ Stage = "locate"
              => PlacesLeft(<<"exists", None>>) < PlacesLeft(pc)
         /\ Stage = "exists"
              => PlacesLeft(<<"directory", None>>) < PlacesLeft(pc)
         /\ Stage \in {"exists", "directory"}
              => PlacesLeft(<<"source", "client">>) < PlacesLeft(pc)
  <1>0. PlacesLeft(FirstLook("client")) \in 14..15
    BY PlacesAhead DEF FirstLook
  <1>1. CASE Stage \in {"idle", "locate", "exists", "directory", "report", "done"}
    <2>1. pc \in {<<"idle", None>>, <<"locate", None>>, <<"exists", None>>,
                  <<"directory", None>>, <<"report", None>>, <<"done", None>>}
      BY <1>1 DEF Places, Stage, Entries
    <2> QED
      BY <2>1, PlacesAhead DEF Stage, Running, Entries
  <1>2. CASE Stage = "source"
    <2>1. pc \in {<<"source", "client">>, <<"source", "server">>}
      BY <1>2 DEF Places, Stage, Components, Entries
    <2> QED
      <3>1. PlacesLeft(pc) \in 25..26
        BY <2>1, PlacesAhead
      <3>2. PlacesLeft(FirstLook("client")) < PlacesLeft(pc)
        BY <1>0, <3>1
      <3> QED
        BY <1>2, <2>1, <3>2, PlacesAhead DEF Stage, Running, Subject, Entries
  <1>3. CASE Stage = "tool"
    <2>1. pc = <<"tool", Subject>> /\ Subject \in RequiredTools \cup {"reg"}
      BY <1>3, PlaceSubject
    <2>2. /\ NextTool("cmake") = <<"tool", "cargo">>
          /\ NextTool("cargo") = <<"tool", "ninja">>
          /\ NextTool("ninja") \in {<<"tool", "reg">>, <<"tool", "clang">>}
          /\ NextTool("reg") = <<"tool", "clang">>
          /\ NextTool("clang") = <<"tool", "clang++">>
          /\ NextTool("clang++") = <<"compiler", "native">>
      BY DEF NextTool
    <2> QED
      BY <1>3, <2>1, <2>2, PlacesAhead DEF RequiredTools, Running, Entries
  <1>4. CASE Stage = "compiler"
    <2>1. pc \in {<<"compiler", "native">>, <<"compiler", "clang">>,
                  <<"compiler", "gcc">>}
      BY <1>4 DEF Places, Stage, Compilers, Entries
    <2> QED
      <3>1. PlacesLeft(pc) \in 16..18
        BY <2>1, PlacesAhead
      <3>2. PlacesLeft(FirstLook("client")) < PlacesLeft(pc)
        BY <1>0, <3>1
      <3> QED
        BY <1>4, <2>1, <3>2, PlacesAhead DEF Stage, Running, Subject, NextCompiler, Entries
  <1>5. CASE Stage \in AtComponent
    <2>1. pc = <<Stage, Subject>> /\ Subject \in {"client", "server"}
      BY <1>5, PlaceSubject DEF Components
    <2>2. /\ AfterComponent("client") \in {<<"exe", "server">>, <<"file", "server">>}
          /\ AfterComponent("server") = <<"report", None>>
      BY DEF AfterComponent, FirstLook
    <2>3. /\ NextEntry("Cargo.toml") = "CMakeLists.txt"
          /\ NextEntry("CMakeLists.txt") = "package.json"
          /\ NextEntry("package.json") = "modules"
      BY DEF NextEntry
    <2>4. CASE Subject = "client"
      BY <1>5, <2>1, <2>2, <2>3, <2>4, PlacesAhead DEF AtComponent, Entries
    <2>5. CASE Subject = "server"
      BY <1>5, <2>1, <2>2, <2>3, <2>5, PlacesAhead DEF AtComponent, Entries
    <2> QED
      BY <2>1, <2>4, <2>5
  <1> QED
    BY <1>1, <1>2, <1>3, <1>4, <1>5 DEF Places, Stage, AtComponent

(* Every step of the check moves on, or spawns the child of its place.      *)
LEMMA StepsMoveOn ==
  ASSUME pc \in Places, CheckStep \/ Answer
  PROVE  MovesOn \/ (pc' = pc /\ child = None /\ child' # None)
  <1> DEFINE Nearby(place) == PlacesLeft(place) < PlacesLeft(pc)
  <1>1. \A place : Nearby(place) /\ Go(place) => MovesOn
    BY DEF Go, MovesOn
  <1>2. \A r : Running /\ End(r) => MovesOn
    BY Onward DEF End, MovesOn
  <1>3. \A place : Running /\ Nearby(place) /\ Printed(place) => MovesOn
    BY <1>1, <1>2 DEF Printed
  <1>4. Running /\ Abort => MovesOn
    BY <1>2 DEF Abort
  <1>5. Probing /\ Missing => MovesOn
    BY <1>1, <1>2, Onward DEF Missing, Probing, Running
  <1> HIDE DEF Nearby
  <1> USE Onward DEF Running, Nearby
  <1>6. CASE Locate \/ LocateFails \/ FindModules \/ CheckModulesDir
    BY <1>1, <1>3, <1>4, <1>6 DEF Locate, LocateFails, FindModules, CheckModulesDir
  <1>7. CASE DiscoverSource
    BY <1>1, <1>3, <1>7 DEF DiscoverSource
  <1>8. CASE Spawn \/ RunBinary
    BY <1>8, CheckAssumptions DEF Spawn, RunBinary
  <1>9. CASE SpawnFails \/ NotFound \/ TimesOut
    BY <1>4, <1>5, <1>9 DEF SpawnFails, NotFound, TimesOut, Probing
  <1>10. CASE FindExe \/ FindFile \/ FindFolder \/ CheckSourceFolder
    BY <1>1, <1>3, <1>10 DEF FindExe, FindFile, FindFolder, CheckSourceFolder, Entries
  <1>11. CASE RunFails \/ BinaryTimesOut
    BY <1>4, <1>11 DEF RunFails, BinaryTimesOut, Asking
  <1>12. CASE Report
    BY <1>2, <1>12 DEF Report
  <1>13. CASE ToolAnswers
    BY <1>3, <1>13 DEF ToolAnswers, Probing
  <1>14. CASE RegAnswers
    BY <1>1, <1>3, <1>14 DEF RegAnswers
  <1>15. CASE BinaryAnswers
    BY <1>1, <1>3, <1>15 DEF BinaryAnswers, Asking
  <1> QED
    BY <1>6, <1>7, <1>8, <1>9, <1>10, <1>11, <1>12, <1>13, <1>14, <1>15
       DEF CheckStep, Answer

(***************************************************************************)
(* Every move of a check brings it nearer its end, whatever the timeouts,  *)
(* the broken tools and the changes of the world: by MovesLeftType no      *)
(* check makes more than 58 moves.                                         *)
(***************************************************************************)
THEOREM CheckAdvancesCorrect == Spec => CheckAdvances
  <1>1. ASSUME CheckTypeOK, CheckTypeOK', [Next]_vars
        PROVE  AdvanceStep
    <2> SUFFICES ASSUME Running PROVE AdvanceStep
      BY DEF AdvanceStep
    <2>1. CASE CheckStep \/ Answer
      <3>1. CASE MovesOn
        BY <1>1, <3>1, Nearer DEF MovesOn, AdvanceStep
      <3>2. CASE pc' = pc /\ child = None /\ child' # None
        <4>1. PlacesLeft(pc) \in Nat
          BY <1>1, PlacesLeftType DEF CheckTypeOK
        <4>2. MovesLeft = 2 * PlacesLeft(pc) + 1
              /\ MovesLeft' = 2 * PlacesLeft(pc) + 0
          BY <3>2 DEF MovesLeft
        <4> QED
          BY <4>1, <4>2 DEF AdvanceStep
      <3> QED
        BY <1>1, <2>1, <3>1, <3>2, StepsMoveOn DEF CheckTypeOK
    <2>2. CASE Start
      BY <2>2 DEF Start, Running
    <2>3. CASE Change \/ BreakOutput \/ UNCHANGED vars
      BY <2>3 DEF Change, BreakOutput, vars, AdvanceStep
    <2> QED
      BY <1>1, <2>1, <2>2, <2>3 DEF Next
  <1> QED
    BY <1>1, CheckTypeCorrect, PTL DEF Spec, CheckAdvances

=============================================================================
