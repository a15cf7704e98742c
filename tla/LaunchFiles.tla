----------------------------- MODULE LaunchFiles -----------------------------
(***************************************************************************)
(* The data of core/launch.rs: what .vscode/launch.json and tasks.json     *)
(* hold, and the entries that the program writes into them.  A file is     *)
(* reduced to how it reads and to its list of entries; of an entry are     *)
(* kept its name and what ties it to other entries, to the layout of the   *)
(* root directory and to this run.                                         *)
(***************************************************************************)
EXTENDS Filters

CONSTANTS
  Endpoints,  \* the endpoints that a run may listen on
  None        \* no task, no endpoint

Components == {"client", "server"}
Kinds == {"source", "binary", "missing"}
Profiles == {"Release", "Debug"}

(* What one run finds and is: the layout of the root, its build, its address. *)
Input ==
  [kind : [Components -> Kinds], cmake : BOOLEAN,
   profile : Profiles, endpoint : Endpoints]

-----------------------------------------------------------------------------
(* Entries.  A name is the prefix that the program recognises, "other" if   *)
(* there is none, and what stands in the parentheses, "custom" if the user  *)
(* chose it.                                                                *)

Suffixes == Profiles \cup {"custom"}

ConfigName == [of : Components \cup {"other"}, suffix : Suffixes]
TaskLabel ==
  [verb : {"Configure", "Build", "other"},
   of : Components \cup {"Workspace", "other"}, suffix : Suffixes]

Config ==
  [name : ConfigName,
   program : {"component", "workspace", "binary", "own"},
   endpoint : Endpoints \cup {None},
   preLaunchTask : TaskLabel \cup {None}]

Task == [label : TaskLabel, dependsOn : TaskLabel \cup {None}]

Label(verb, of, profile) == [verb |-> verb, of |-> of, suffix |-> profile]

configure_task_label(c, i) == Label("Configure", c, i.profile)
build_task_label(c, i) == Label("Build", c, i.profile)
configure_workspace_task_label(i) == Label("Configure", "Workspace", i.profile)
build_workspace_task_label(i) == Label("Build", "Workspace", i.profile)

LaunchConfig(c, i, program) ==
  [name |-> [of |-> c, suffix |-> i.profile],
   program |-> program,
   endpoint |-> i.endpoint,
   preLaunchTask |-> build_task_label(c, i)]

source_launch_config(c, i) == LaunchConfig(c, i, "component")
workspace_source_launch_config(c, i) == LaunchConfig(c, i, "workspace")

binary_attach_config(c, i) ==
  [LaunchConfig(c, i, "binary") EXCEPT !.endpoint = None,
                                       !.preLaunchTask = None]

NewTask(label, dependsOn) == [label |-> label, dependsOn |-> dependsOn]

configure_task(c, i) == NewTask(configure_task_label(c, i), None)
configure_workspace_task(i) == NewTask(configure_workspace_task_label(i), None)

build_task(c, i) ==
  NewTask(build_task_label(c, i), configure_task_label(c, i))
build_workspace_component_task(c, i) ==
  NewTask(build_task_label(c, i), configure_workspace_task_label(i))
build_workspace_task(i) ==
  NewTask(build_workspace_task_label(i), configure_workspace_task_label(i))

-----------------------------------------------------------------------------
(* The entries of a run, in the order of COMPONENTS *)

ConfigsOf(c, i) ==
  CASE i.kind[c] = "source" /\ i.cmake ->
         << workspace_source_launch_config(c, i) >>
    [] i.kind[c] = "source" /\ ~i.cmake -> << source_launch_config(c, i) >>
    [] i.kind[c] = "binary" /\ ~i.cmake -> << binary_attach_config(c, i) >>
    [] OTHER -> << >>

ManagedConfigs(i) == ConfigsOf("client", i) \o ConfigsOf("server", i)

TasksOf(c, i) ==
  CASE i.kind[c] = "source" /\ i.cmake ->
         << build_workspace_component_task(c, i) >>
    [] i.kind[c] = "source" /\ ~i.cmake ->
         << configure_task(c, i), build_task(c, i) >>
    [] OTHER -> << >>

ManagedTasks(i) ==
  LET components == TasksOf("client", i) \o TasksOf("server", i)
  IN IF i.cmake
     THEN << configure_workspace_task(i) >> \o components
            \o << build_workspace_task(i) >>
     ELSE components

-----------------------------------------------------------------------------
(* What the program takes for its own: the prefix decides, so a name that   *)
(* the user made up counts too if it starts like the program's.             *)

(* Mutant: the second prefix is forgotten. *)
is_managed_client_name(name) == name.of = "client"

is_managed_launch_name(name) == name.of \in Components

(* Mutant: the tasks of the workspace are forgotten. *)
is_managed_component_label(label) ==
  label.verb \in {"Configure", "Build"} /\ label.of \in Components

is_managed_task_label(label) ==
  /\ label.verb \in {"Configure", "Build"}
  /\ label.of \in Components \cup {"Workspace"}

remove_managed_configurations(configs) ==
  Retain(configs, {e \in Config : ~is_managed_launch_name(e.name)})

(* Mutant: the list is made anew. *)
remove_all_tasks(tasks) == << >>

remove_managed_tasks(tasks) ==
  Retain(tasks, {e \in Task : ~is_managed_task_label(e.label)})

-----------------------------------------------------------------------------
(***************************************************************************)
(* Files.  "empty" is a file of white space, "invalid" one that is not     *)
(* read, does not parse or lacks the expected shape.  Only a "valid" file  *)
(* has entries.                                                            *)
(***************************************************************************)
Unusual == {"absent", "empty", "invalid"}
Blank(state) == [state |-> state, entries |-> << >>]
Valid(entries) == [state |-> "valid", entries |-> entries]

(* Mutant: what cannot be parsed is taken for an empty file. *)
LoadsAnyway(file) == TRUE

(* load_launch_json and load_tasks_json; no file and an empty one are fresh. *)
Loads(file) == file.state # "invalid"

(* What fs::write may leave when it, or the program, does not get to its end. *)
Torn(file) == {file, Blank("empty"), Blank("invalid")}

=============================================================================
