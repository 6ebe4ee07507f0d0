------------------------------- MODULE NodeProofs -------------------------------
(***************************************************************************)
(* What a node offers and what it runs, for every machine and any          *)
(* software on it, and that its loops never hold more workers than the     *)
(* machine has.                                                            *)
(***************************************************************************)
EXTENDS Node, FiniteSetTheorems, TLAPS

(* The profile is the scout's as long as the machine is what it was. *)
Scouted ==
  /\ machine \in Machine
  /\ changes \in Nat
  /\ changes = 0 => caps = Capabilities(machine)

LEMMA CapabilitiesInclude ==
  ASSUME NEW m, NEW a \in DiscoveredApps(m)
  PROVE  Execution(a) \in Capabilities(m)
BY DEF Capabilities

(* A program the probes start is found by the scout under its name: both   *)
(* search PATH and the Homebrew directories.                               *)
LEMMA FoundByScout ==
  ASSUME NEW m \in Machine, m.os # "windows",
         NEW t \in KnownTools, Runs(m, t.exe)
  PROVE  t.name \in DiscoveredApps(m)
BY DEF Runs, In, SearchDirs, DiscoverCliTools, DiscoveredApps

(* The bundle the generic probe looks for is listed under the very name it *)
(* was looked for by.                                                      *)
LEMMA BundleListed ==
  ASSUME NEW m \in Machine, NEW a \in App, BundlePresent(m, a)
  PROVE  a \in DiscoveredApps(m)
<1>1. m.os = "macos"
  BY DEF Machine, BundlePresent
<1>2. AppName[AppPath[a]] = a
  BY ScoutAssumption
<1> QED BY <1>1, <1>2 DEF BundlePresent, DiscoveredApps

(* Each way a probe can succeed *)
LEMMA ProbeSucceeds ==
  ASSUME NEW m, NEW a, Accepted(m, a)
  PROVE  \/ \E t \in KnownTools : t.name = a /\ Runs(m, t.exe)
         \/ BundlePresent(m, a)
<1>1. CASE a \in {"ffmpeg", "blender", "inkscape", "claude"} /\ Runs(m, a)
  <2>1. [exe |-> a, name |-> a] \in KnownTools
    BY <1>1 DEF KnownTools
  <2> QED BY <1>1, <2>1
<1>2. CASE a = "handbrake" /\ Runs(m, "HandBrakeCLI")
  <2>1. [exe |-> "HandBrakeCLI", name |-> "handbrake"] \in KnownTools
    BY DEF KnownTools
  <2> QED BY <1>2, <2>1
<1>3. CASE BundlePresent(m, a)
  BY <1>3
<1> QED BY <1>1, <1>2, <1>3 DEF Accepted

(* What the worker accepts the scout has listed. *)
LEMMA RunnableIsOffered ==
  ASSUME NEW m \in Machine, m.os # "windows"
  PROVE  Runnable(m) \subseteq Capabilities(m)
<1> SUFFICES ASSUME NEW a \in App, Accepted(m, a)
             PROVE  Execution(a) \in Capabilities(m)
  BY DEF Runnable, Probe, Execution
<1>1. a \in DiscoveredApps(m)
  BY ProbeSucceeds, FoundByScout, BundleListed
<1> QED BY <1>1, CapabilitiesInclude

(* A working program in a directory the scout searches passes its probe. *)
LEMMA FoundIsRunnable ==
  ASSUME NEW m \in Machine, NEW t \in KnownTools,
         t.name \in Executed, t.exe \notin m.broken,
         \E d \in SearchDirs(m) : t.exe \in m.files[d]
  PROVE  Execution(t.name) \in Runnable(m)
<1>1. Runs(m, t.exe)
  BY DEF Runs, In, SearchDirs
<1>2. t.name \in App
  BY ScoutAssumption
<1>3. \/ t.name \in {"ffmpeg", "inkscape", "claude", "blender"} /\ t.exe = t.name
      \/ t.name = "handbrake" /\ t.exe = "HandBrakeCLI"
  BY DEF KnownTools, Executed
<1>4. Probe(m, Execution(t.name))
  BY <1>1, <1>3 DEF Probe, Execution, Accepted
<1> QED BY <1>2, <1>4 DEF Runnable

(* The profile is made once, when the process starts, and never again. *)
LEMMA ScoutedAlways == Spec => []Scouted
<1>1. Init => Scouted
  BY NodeAssumption DEF Init, Scouted
<1>2. Scouted /\ [Next]_nodeVars => Scouted'
  <2> SUFFICES ASSUME Scouted, [Next]_nodeVars
               PROVE  Scouted'
    OBVIOUS
  <2>1. CASE UNCHANGED <<machine, caps, changes>>
    BY <2>1 DEF Scouted
  <2>2. ASSUME NEW m \in Machines, Change(m)
        PROVE  Scouted'
    BY <2>2, NodeAssumption DEF Change, Scouted
  <2>3. [Next]_nodeVars => UNCHANGED <<machine, caps, changes>> \/ \E m \in Machines : Change(m)
    BY DEF Next, nodeVars, MainStep, SleepEnds, Follow, Leave, Lead, LeadAgain, Wait, StepDown,
           Join, GoTo, Broadcast, HalfSecond, OpenLoopback, Poll, Resume, Execute, Hear, Expire
  <2> QED BY <2>1, <2>2, <2>3
<1> QED BY <1>1, <1>2, PTL DEF Spec

(* OffersWhatItRuns: the node never keeps to itself what its worker would  *)
(* accept, wherever programs and bundles are.                              *)
THEOREM EverythingRunnableOffered == Spec => []OffersWhatItRuns
<1>1. Scouted => OffersWhatItRuns
  BY RunnableIsOffered DEF Scouted, OffersWhatItRuns
<1> QED BY <1>1, ScoutedAlways, PTL

(* RunsWhatItOffers: a working tool with an executor passes its probe      *)
(* wherever the scout may have found it.                                   *)
THEOREM OfferedToolsRun == Spec => []RunsWhatItOffers
<1>1. Scouted => RunsWhatItOffers
  BY FoundIsRunnable DEF Scouted, RunsWhatItOffers
<1> QED BY <1>1, ScoutedAlways, PTL
------------------------------------------------------------------------------
(* TypeOK without the count of the workers *)
Shape ==
  /\ machine \in Machines
  /\ caps \subseteq {Execution(a) : a \in App}
  /\ role \in {"boot", "evaluate", "handshake", "joined", "resting", "leading", "panicked"}
  /\ known \in BOOLEAN /\ smallest \in BOOLEAN
  /\ place \in [Loop -> {"none", "queued", "holding", "executing"}]
  /\ loopback \in {"none", "queued", "dialing", "joined", "failed"}
  /\ \A l \in HubLoops : place[l] # "none" <=> loopback # "none"
  /\ place["own"] # "none" <=> loopback = "joined"
  /\ beat \in 0..1 /\ tasks \in 0..MaxTasks /\ changes \in 0..MaxChanges

WorkersSuffice == Cardinality(Holding) <= machine.cores

LEMMA TypeOKParts == TypeOK <=> Shape /\ WorkersSuffice
BY DEF TypeOK, Shape, WorkersSuffice

(* Every loop but the sessions has a name of its own. *)
LEMMA Loops ==
  /\ HubLoops \subseteq Loop /\ Session \subseteq Loop /\ "own" \in Loop \ HubLoops
  /\ \A s \in Session : s \notin HubLoops /\ s # "own"
BY NodeAssumption DEF Loop, HubLoops

LEMMA FiniteHolding == IsFiniteSet(Holding) /\ Cardinality(Holding) \in Nat
<1>1. IsFiniteSet(HubLoops) /\ IsFiniteSet({"own"})
  <2>1. IsFiniteSet({"auth"}) /\ IsFiniteSet({"heartbeat"}) /\ IsFiniteSet({"medium"})
    BY FS_Singleton
  <2>2. IsFiniteSet({"auth"} \cup {"heartbeat"})
    BY <2>1, FS_Union
  <2>3. IsFiniteSet(({"auth"} \cup {"heartbeat"}) \cup {"medium"})
    BY <2>1, <2>2, FS_Union
  <2>4. HubLoops = ({"auth"} \cup {"heartbeat"}) \cup {"medium"}
    BY DEF HubLoops
  <2> QED
    BY <2>3, <2>4, FS_Singleton
<1>2. IsFiniteSet(Loop)
  BY <1>1, NodeAssumption, FS_Union DEF Loop
<1>3. IsFiniteSet(Holding)
  BY <1>2, FS_Subset DEF Holding
<1> QED
  BY <1>3, FS_CardinalityType

(* A step that takes no worker leaves enough of them. *)
LEMMA NoneTaken ==
  ASSUME Shape, WorkersSuffice, Holding' \subseteq Holding, machine' = machine
  PROVE  WorkersSuffice'
<1>1. Cardinality(Holding') <= Cardinality(Holding) /\ Cardinality(Holding') \in Nat
  BY FiniteHolding, FS_Subset, FS_CardinalityType
<1>2. machine.cores \in Nat
  BY NodeAssumption DEF Shape, Machine
<1> QED
  BY <1>1, <1>2, FiniteHolding DEF WorkersSuffice

(* A loop that takes one has found one free. *)
LEMMA OneTaken ==
  ASSUME Shape, Free, NEW l, Holding' = Holding \cup {l}, machine' = machine
  PROVE  WorkersSuffice'
<1>1. Cardinality(Holding') <= Cardinality(Holding) + 1 /\ Cardinality(Holding') \in Nat
  BY FiniteHolding, FS_AddElement, FS_CardinalityType
<1>2. machine.cores \in Nat
  BY NodeAssumption DEF Shape, Machine
<1> QED
  BY <1>1, <1>2, FiniteHolding DEF WorkersSuffice, Free

(* A profile lists applications. *)
LEMMA ProfileOfCapabilities ==
  ASSUME NEW m \in Machine
  PROVE  Capabilities(m) \subseteq {Execution(a) : a \in App}
BY ScoutAssumption DEF Capabilities, DiscoveredApps, DiscoverCliTools, Machine

LEMMA StartsTyped == Init => TypeOK
<1> SUFFICES ASSUME Init PROVE TypeOK
  OBVIOUS
<1>1. machine \in Machine /\ Holding = {}
  BY NodeAssumption DEF Init, Holding
<1>2. WorkersSuffice
  BY <1>1, FS_EmptySet DEF WorkersSuffice, Machine
<1>3. caps \subseteq {Execution(a) : a \in App}
  BY <1>1, ProfileOfCapabilities DEF Init
<1>4. Shape
  <2>1. /\ place \in [Loop -> {"none", "queued", "holding", "executing"}]
        /\ \A l \in HubLoops : place[l] # "none" <=> loopback # "none"
        /\ place["own"] # "none" <=> loopback = "joined"
    BY Loops DEF Init
  <2>2. known \in BOOLEAN /\ smallest \in BOOLEAN
    BY DEF Init
  <2>3. beat \in 0..1 /\ tasks \in 0..MaxTasks /\ changes \in 0..MaxChanges
    BY NodeAssumption DEF Init
  <2> QED
    BY <1>3, <2>1, <2>2, <2>3 DEF Init, Shape
<1> QED
  BY <1>2, <1>4, TypeOKParts

(* Steps that leave the loops where they are *)
LEMMA LoopsStay ==
  ASSUME Shape, WorkersSuffice, UNCHANGED place, Shape',
         machine' = machine \/ machine'.cores = machine.cores
  PROVE  WorkersSuffice'
<1>1. Holding' = Holding /\ machine'.cores = machine.cores
  BY DEF Holding
<1> QED
  BY <1>1 DEF WorkersSuffice

(* The role loop, which only a new hub or a new session adds loops for *)
LEMMA MainTyped ==
  ASSUME Shape, WorkersSuffice,
         \/ MainStep \/ Leave \/ Broadcast \/ Hear \/ Expire
         \/ \E m \in Machines : Change(m)
  PROVE  Shape' /\ WorkersSuffice'
<1>1. CASE Lead
  <2>1. \A l \in HubLoops : place[l] = "none"
    BY <1>1 DEF Lead, Shape
  <2>2. Holding' \subseteq Holding /\ machine' = machine
    BY <1>1, Loops DEF Lead, GoTo, Holding
  <2>3. /\ place' \in [Loop -> {"none", "queued", "holding", "executing"}]
        /\ \A l \in HubLoops : place'[l] # "none" <=> loopback' # "none"
        /\ place'["own"] # "none" <=> loopback' = "joined"
    BY <1>1, Loops DEF Lead, Shape
  <2>4. Shape'
    BY <1>1, <2>3 DEF Lead, GoTo, Shape
  <2> QED
    BY <2>2, <2>4, NoneTaken
<1>2. ASSUME NEW m \in Machines, Change(m) PROVE Shape' /\ WorkersSuffice'
  <2>1. Shape'
    BY <1>2, NodeAssumption DEF Change, Shape
  <2> QED
    BY <1>2, <2>1, LoopsStay DEF Change
<1>3. CASE Broadcast \/ Hear \/ Expire
  <2>1. /\ UNCHANGED <<place, machine, caps, role, loopback, tasks, changes>>
        /\ known' \in BOOLEAN /\ smallest' \in BOOLEAN
    BY <1>3 DEF Broadcast, Hear, Expire, Shape
  <2>2. beat' \in 0..1
    <3>1. beat \in 0..1
      BY DEF Shape
    <3>2. beat' = beat \/ beat' = 1 - beat
      BY <1>3 DEF Broadcast, Hear, Expire
    <3> QED
      BY <3>1, <3>2
  <2>3. Shape'
    BY <2>1, <2>2 DEF Shape
  <2> QED
    BY <2>1, <2>3, LoopsStay
<1>4. CASE SleepEnds \/ Follow \/ Leave \/ LeadAgain \/ Wait \/ StepDown
  <2>1. /\ UNCHANGED <<place, machine, caps, smallest, loopback, beat, tasks, changes>>
        /\ role' \in {"boot", "evaluate", "handshake", "joined", "resting", "leading",
                      "panicked"}
    BY <1>4 DEF SleepEnds, Follow, Leave, LeadAgain, Wait, StepDown, GoTo
  <2>2. known' \in BOOLEAN
    BY <1>4 DEF SleepEnds, Follow, Leave, LeadAgain, Wait, StepDown, GoTo, Shape
  <2>3. Shape'
    BY <2>1, <2>2 DEF Shape
  <2> QED
    BY <2>1, <2>3, LoopsStay
<1> QED
  BY <1>1, <1>2, <1>3, <1>4 DEF MainStep

LEMMA JoinTyped ==
  ASSUME Shape, WorkersSuffice, NEW s \in Session, Join(s)
  PROVE  Shape' /\ WorkersSuffice'
<1>1. Holding' \subseteq Holding /\ machine' = machine
  BY Loops DEF Join, GoTo, Holding, Shape
<1>2. Shape'
  BY Loops DEF Join, GoTo, Shape
<1> QED
  BY <1>1, <1>2, NoneTaken

(* The leader's session ends before its loop is spawned, or spawns it. *)
LEMMA LoopbackTyped ==
  ASSUME Shape, WorkersSuffice, HalfSecond \/ OpenLoopback
  PROVE  Shape' /\ WorkersSuffice'
<1>1. Holding' \subseteq Holding /\ machine' = machine
  BY Loops DEF HalfSecond, OpenLoopback, Holding, Shape
<1>2. CASE UNCHANGED place
  <2>1. loopback \notin {"none", "joined"} /\ loopback' \in {"dialing", "failed"}
    BY <1>2, Loops DEF HalfSecond, OpenLoopback, Shape
  <2>2. Shape'
    BY <1>2, <2>1, Loops DEF HalfSecond, OpenLoopback, Shape
  <2> QED
    BY <1>1, <2>2, NoneTaken
<1>3. CASE OpenLoopback /\ loopback' = "joined"
  <2>1. Shape'
    BY <1>3, Loops DEF OpenLoopback, Shape
  <2> QED
    BY <1>1, <2>1, NoneTaken
<1> QED
  BY <1>2, <1>3 DEF HalfSecond, OpenLoopback

(* A loop that is polled takes a worker; one that executes lets go of it. *)
LEMMA LoopTyped ==
  ASSUME Shape, WorkersSuffice, NEW l \in Loop,
         Poll(l) \/ Resume(l) \/ \E c \in Asked : Execute(l, c)
  PROVE  Shape' /\ WorkersSuffice'
<1>1. CASE Poll(l) \/ Resume(l)
  <2>1. Holding' = Holding \cup {l} /\ machine' = machine /\ Free
    BY <1>1 DEF Poll, Resume, Holding, Shape
  <2>2. /\ place' \in [Loop -> {"none", "queued", "holding", "executing"}]
        /\ \A k \in Loop : place'[k] # "none" <=> place[k] # "none"
        /\ UNCHANGED <<machine, caps, role, known, smallest, loopback, beat, tasks, changes>>
    BY <1>1 DEF Poll, Resume, Shape
  <2>3. /\ \A k \in HubLoops : place'[k] # "none" <=> loopback' # "none"
        /\ place'["own"] # "none" <=> loopback' = "joined"
    BY <2>2, Loops DEF Shape
  <2>4. Shape'
    BY <2>2, <2>3 DEF Shape
  <2> QED
    BY <2>1, <2>4, OneTaken
<1>2. ASSUME NEW c \in Asked, Execute(l, c) PROVE Shape' /\ WorkersSuffice'
  <2>1. Holding' \subseteq Holding /\ machine' = machine
    BY <1>2 DEF Execute, Holding, Shape
  <2>2. tasks' \in 0..MaxTasks
    BY <1>2, NodeAssumption DEF Execute, Shape
  <2>3. /\ place' \in [Loop -> {"none", "queued", "holding", "executing"}]
        /\ \A k \in Loop : place'[k] # "none" <=> place[k] # "none"
        /\ UNCHANGED <<machine, caps, role, known, smallest, loopback, beat, changes>>
    BY <1>2 DEF Execute, Shape
  <2>4. /\ \A k \in HubLoops : place'[k] # "none" <=> loopback' # "none"
        /\ place'["own"] # "none" <=> loopback' = "joined"
    BY <2>3, Loops DEF Shape
  <2>5. Shape'
    BY <2>2, <2>3, <2>4 DEF Shape
  <2> QED
    BY <2>1, <2>5, NoneTaken
<1> QED
  BY <1>1, <1>2

(* However often roles and leaders change, the blocking loops take no more *)
(* workers than there are, and the hub's loops come and stay together.     *)
THEOREM WorkersAreNeverOverdrawn == Spec => []TypeOK
<1>1. TypeOK /\ [Next]_nodeVars => TypeOK'
  <2> SUFFICES ASSUME Shape, WorkersSuffice, [Next]_nodeVars
               PROVE  Shape' /\ WorkersSuffice'
    BY DEF TypeOK, Shape, WorkersSuffice
  <2>1. CASE UNCHANGED nodeVars
    BY <2>1 DEF nodeVars, Shape, WorkersSuffice, Holding
  <2>2. CASE Next
    BY <2>2, MainTyped, JoinTyped, LoopbackTyped, LoopTyped DEF Next
  <2> QED
    BY <2>1, <2>2
<1> QED
  BY StartsTyped, <1>1, PTL DEF Spec
================================================================================
