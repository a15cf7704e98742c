---------------------------- MODULE MCLaunchSync ----------------------------
(* The user writes one entry with a name of its own, in both files, and a  *)
(* configuration whose name starts like one of the program's.              *)
EXTENDS LaunchSync

(* Each of the two builds listens at an endpoint of its own. *)
MCInputs == {i \in Input : i.profile = "Debug" <=> i.endpoint = "a"}

MCOwnConfigs ==
  {[name |-> [of |-> of, suffix |-> "custom"], program |-> "own",
    endpoint |-> None, preLaunchTask |-> None] : of \in {"client", "other"}}

MCOwnTasks ==
  {[label |-> Label("other", "other", "custom"), dependsOn |-> None]}
=============================================================================
