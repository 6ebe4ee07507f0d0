-------------------------------- MODULE MCNode --------------------------------
(* An instance of Node for TLC: the machines and what is installed on them. *)
EXTENDS Node, TLC

Apps == {t.name : t \in KnownTools} \cup {"my_tool"}
Bundles == Apps \cup {"my tool"}
(* A bundle with an underscore in its name is not found again. *)
Underscored == [b \in Bundles |-> IF b = "my tool" THEN "my_tool" ELSE b]
Spaced == [a \in Apps |-> IF a = "my_tool" THEN "my tool" ELSE a]

Installed(bin, brew) == ("/usr/bin" :> bin) @@ ("/opt/homebrew/bin" :> brew)

(* A workstation whose Homebrew is not on PATH, as for a process not       *)
(* started from a login shell, before and after an application is removed  *)
Mac == [os |-> "macos", cores |-> 5, path |-> {"/usr/bin"},
        files |-> Installed({"python3"}, {"ffmpeg", "HandBrakeCLI", "ollama"}), broken |-> {},
        bundles |-> {"blender", "ollama", "my_tool"}, entries |-> {}]
MacWithout == [Mac EXCEPT !.bundles = {"ollama"}]

(* The hub of docs/prototype-hardware-note.md, and a PC with one core less *)
Pi == [os |-> "linux", cores |-> 4, path |-> {"/usr/bin"},
       files |-> Installed({"blender", "ollama", "claude"}, {}), broken |-> {"claude"},
       bundles |-> {}, entries |-> {"gimp"}]
Windows == [os |-> "windows", cores |-> 3, path |-> {"/usr/bin"},
            files |-> Installed({"blender"}, {}), broken |-> {}, bundles |-> {},
            entries |-> {"blender"}]
HubMachine == {Pi}
AllMachines == {Mac, MacWithout, Pi, Windows}

SomeAsked == {Execution("blender"), Execution("ollama")}
==============================================================================
