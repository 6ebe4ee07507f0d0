--------------------------------- MODULE Scout ---------------------------------
(***************************************************************************)
(* What a node says it can do and what it will do, as functions of the     *)
(* machine it runs on: the capability profile of the scout                 *)
(* (host-background-agent/src/scout) and the probes of the worker          *)
(* (CapabilityExecutor in transport/mod.rs).                               *)
(*                                                                         *)
(* The names of applications are compared without regard to case, as the   *)
(* file systems of macOS and Windows do.  Turning the name of a bundle     *)
(* into a capability (spaces become underscores) and back is given by two  *)
(* constant functions; a bundle named with an underscore does not come     *)
(* back.  Of the profile only the applications are here: what else it      *)
(* lists (cores, GPU, memory, network and the classes made of them) no     *)
(* probe of the worker knows.                                              *)
(***************************************************************************)
EXTENDS Naturals, FiniteSets

CONSTANTS
  App,       \* names of applications as capabilities spell them
  Bundle,    \* names of bundles under /Applications
  AppName,   \* AppName[b]: the application bundle b is listed as
  AppPath,   \* AppPath[a]: the bundle the generic probe looks for
  Dir,       \* directories programs may be in
  Homebrew   \* the four that are searched whatever PATH says

(* KNOWN_CLI_TOOLS *)
KnownTools ==
  {[exe |-> x, name |-> x] : x \in {"ffmpeg", "blender", "inkscape", "gimp", "python3",
                                     "node", "docker", "claude", "ollama"}}
    \cup {[exe |-> "HandBrakeCLI", name |-> "handbrake"],
          [exe |-> "convert", name |-> "imagemagick"]}

Exe == {t.exe : t \in KnownTools}

ASSUME ScoutAssumption ==
  /\ {t.name : t \in KnownTools} \subseteq App
  /\ AppName \in [Bundle -> App] /\ AppPath \in [App -> Bundle]
  /\ \A a \in App : AppName[AppPath[a]] = a
  /\ Homebrew \subseteq Dir

(* Only macOS has bundles; desktop entries and Program Files directories   *)
(* are listed under the name of the application.                           *)
Machine ==
  {m \in [os : {"macos", "linux", "windows"},
          cores : Nat \ {0},
          path : SUBSET Dir,           \* the directories of PATH
          files : [Dir -> SUBSET Exe], \* the programs in a directory
          broken : SUBSET Exe,         \* programs that do not run
          bundles : SUBSET Bundle,
          entries : SUBSET App] :
     m.os # "macos" => m.bundles = {}}

(* A capability value as the scheduler matches it: "<application>_execution" *)
Execution(a) == [execution |-> a]
------------------------------------------------------------------------------
(* The scout *)

(* Fault: only PATH is searched. *)
SearchPathOnly(m) == m.path

(* A Homebrew directory that does not exist holds no program. *)
SearchDirs(m) == m.path \cup Homebrew

In(m, dirs, exe) == \E d \in dirs : exe \in m.files[d]

(* Fault: a tool is listed under the name of its program. *)
DiscoverExecutables(m) ==
  IF m.os = "windows" THEN {} ELSE {t.exe : t \in {t \in KnownTools : In(m, SearchDirs(m), t.exe)}}

(* The existence of a file is all that is asked for.  On Windows PATH is   *)
(* split at the wrong character and programs have another name.            *)
DiscoverCliTools(m) ==
  IF m.os = "windows" THEN {}
  ELSE {t.name : t \in {t \in KnownTools : In(m, SearchDirs(m), t.exe)}}

DiscoveredApps(m) ==
  (IF m.os = "macos" THEN {AppName[b] : b \in m.bundles} ELSE m.entries) \cup DiscoverCliTools(m)

(* adapt_to_medium_profile: the values added to what was discovered *)
Capabilities(m) == {Execution(a) : a \in DiscoveredApps(m)}
------------------------------------------------------------------------------
(* The worker's probes *)

(* Fault: the program is looked for along PATH only. *)
RunsOnPath(m, exe) == In(m, m.path, exe) /\ exe \notin m.broken

(* The program is started with the Homebrew directories before PATH. *)
Runs(m, exe) == In(m, Homebrew \cup m.path, exe) /\ exe \notin m.broken

BundlePresent(m, a) == AppPath[a] \in m.bundles

(* Applications with an executor of their own *)
Executed == {"ffmpeg", "blender", "handbrake", "inkscape", "claude"}

Accepted(m, a) ==
  \/ a \in {"ffmpeg", "blender", "inkscape", "claude"} /\ Runs(m, a)
  \/ a = "handbrake" /\ Runs(m, "HandBrakeCLI")
  \/ a \in {"blender", "handbrake"} /\ BundlePresent(m, a)
  \/ a \notin Executed /\ BundlePresent(m, a)

(* The suffix is taken off again. *)
Probe(m, cap) == Accepted(m, cap.execution)

Runnable(m) == {c \in {Execution(a) : a \in App} : Probe(m, c)}
==============================================================================
