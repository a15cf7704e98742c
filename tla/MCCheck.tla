------------------------------ MODULE MCCheck ------------------------------
(* The check of a folder with both components, on one platform.            *)
EXTENDS CheckCommand

(* 0.1.1 is expected; the text of 10.1.10 has it inside, that of 0.2.0 not. *)
MCTexts == {"0.1.1", "10.1.10", "0.2.0"}
MCContaining == {"0.1.1", "10.1.10"}

(* A binary may also fail, or not start at all. *)
MCFiles == MCTexts \cup {"nonzero", "broken"}

(* No entry, one that is looked for before the last, and the last one. *)
MCFolders == {{}, {"CMakeLists.txt"}, {"modules"}}

(* One entry, which another may take the place of. *)
MCMoved == {{"CMakeLists.txt"}, {"modules"}}
=============================================================================
