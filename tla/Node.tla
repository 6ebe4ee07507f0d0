---------------------------------- MODULE Node ----------------------------------
(***************************************************************************)
(* One process of the unified node (main.rs) on its tokio runtime.  The    *)
(* main thread runs the role loop; everything it spawns shares as many     *)
(* worker threads as the machine has cores.  Three loops of the hub and    *)
(* the task loop of every session wait in a blocking recv: once polled     *)
(* they keep their worker, except that a task loop lets go of it while it  *)
(* executes a task.  All timers and the mDNS sockets are driven by         *)
(* whichever worker is idle, so with no worker left no sleep ends, not     *)
(* even the main thread's, and nothing is announced.                       *)
(*                                                                         *)
(* What the election makes of the network (Election.tla) is reduced to     *)
(* what the role loop asks it: is a leader known, is this the smallest     *)
(* node.  Abstracted: any idle worker picks up whatever is ready (tokio    *)
(* may do worse); loops that only ever await, the listener, the hub's      *)
(* sender and the leader's own worker after its handshake, hold nothing;   *)
(* the hub's sends find room.  The progress receiver has a thread of its   *)
(* own and is left out.                                                    *)
(***************************************************************************)
EXTENDS Scout

CONSTANTS
  Machines,    \* the machines the process may run on
  Asked,       \* capabilities tasks ask for
  Session,     \* sessions with leaders it may have
  MaxTasks,    \* bound: tasks it executes
  MaxChanges   \* bound: times software is installed or removed

HubLoops == {"auth", "heartbeat", "medium"}
Loop == HubLoops \cup {"own"} \cup Session

ASSUME NodeAssumption ==
  /\ Machines \subseteq Machine
  /\ IsFiniteSet(Session) /\ Session \cap (HubLoops \cup {"own"}) = {}
  /\ MaxTasks \in Nat /\ MaxChanges \in Nat

VARIABLES
  machine,    \* what the process runs on
  caps,       \* capabilities, as main discovered them
  role,       \* where the main thread is
  known,      \* current_leader() is Some
  smallest,   \* i_should_be_leader()
  place,      \* place[l]: where the spawned loop l is
  loopback,   \* the leader's session with its own hub
  beat,       \* parity of the announcements sent
  tasks,      \* tasks executed so far
  changes     \* changes of the machine so far

nodeVars == <<machine, caps, role, known, smallest, place, loopback, beat, tasks, changes>>

Init ==
  /\ machine \in Machines
  /\ caps = Capabilities(machine)
  /\ role = "boot"
  /\ known = FALSE /\ smallest = TRUE
  /\ place = [l \in Loop |-> "none"]
  /\ loopback = "none"
  /\ beat = 0 /\ tasks = 0 /\ changes = 0

Spawned == {l \in Loop : place[l] # "none"}

Holding == {l \in Loop : place[l] = "holding"}

(* A worker is free to poll what is ready and to drive timers and sockets. *)
Free == role # "panicked" /\ Cardinality(Holding) < machine.cores
------------------------------------------------------------------------------
(* The main thread *)

GoTo(r) == role' = r /\ UNCHANGED <<machine, caps, known, smallest, beat, tasks, changes>>

(* The sleep of 5 s at the start, and those of 2 s and 3 s, end. *)
SleepEnds ==
  /\ role \in {"boot", "resting"} /\ Free
  /\ GoTo("evaluate")
  /\ UNCHANGED <<place, loopback>>

Follow ==
  /\ role = "evaluate" /\ known
  /\ GoTo("handshake")
  /\ UNCHANGED <<place, loopback>>

(* Retried, with a sleep each time, until a hub answers; then the task     *)
(* loop is spawned.                                                        *)
Join(s) ==
  /\ role = "handshake" /\ place[s] = "none"
  /\ place' = [place EXCEPT ![s] = "queued"]
  /\ GoTo("joined")
  /\ UNCHANGED loopback

(* Dialling fails after the handshake, or the leader is gone: the flags    *)
(* are cleared.                                                            *)
Leave ==
  /\ \/ role = "handshake"
     \/ role = "joined" /\ ~ known /\ Free
  /\ role' = "resting" /\ known' = FALSE
  /\ UNCHANGED <<machine, caps, smallest, place, loopback, beat, tasks, changes>>

(* Fault: the hub's sockets are taken to be closed when it steps down. *)
LeadRegardless ==
  /\ role = "evaluate" /\ ~ known /\ smallest
  /\ place' = [l \in Loop |-> IF l \in HubLoops THEN "queued" ELSE place[l]]
  /\ loopback' = "queued"
  /\ GoTo("leading")

(* run_as_leader: the hub's loops and the session with itself are spawned. *)
Lead ==
  /\ role = "evaluate" /\ ~ known /\ smallest /\ loopback = "none"
  /\ place' = [l \in Loop |-> IF l \in HubLoops THEN "queued" ELSE place[l]]
  /\ loopback' = "queued"
  /\ GoTo("leading")

(* The ports are taken by the hub this process started before. *)
LeadAgain ==
  /\ role = "evaluate" /\ ~ known /\ smallest /\ loopback # "none"
  /\ GoTo("panicked")
  /\ UNCHANGED <<place, loopback>>

Wait ==
  /\ role = "evaluate" /\ ~ known /\ ~ smallest
  /\ GoTo("resting")
  /\ UNCHANGED <<place, loopback>>

StepDown ==
  /\ role = "leading" /\ ~ smallest /\ Free
  /\ GoTo("evaluate")
  /\ UNCHANGED <<place, loopback>>
------------------------------------------------------------------------------
(* What is spawned *)

(* Fault: only a leader announces itself. *)
BroadcastAsLeader ==
  /\ Free /\ role = "leading"
  /\ beat' = 1 - beat
  /\ UNCHANGED <<machine, caps, role, known, smallest, place, loopback, tasks, changes>>

(* The two seconds are over and the announcement goes out. *)
Broadcast ==
  /\ Free
  /\ beat' = 1 - beat
  /\ UNCHANGED <<machine, caps, role, known, smallest, place, loopback, tasks, changes>>

Poll(l) ==
  /\ place[l] = "queued" /\ Free
  /\ place' = [place EXCEPT ![l] = "holding"]
  /\ UNCHANGED <<machine, caps, role, known, smallest, loopback, beat, tasks, changes>>

(* The half second the leader gives its hub before it dials it is over.    *)
HalfSecond ==
  /\ loopback = "queued" /\ Free
  /\ loopback' = "dialing"
  /\ UNCHANGED <<machine, caps, role, known, smallest, place, beat, tasks, changes>>

(* Fault: the whole hub is dialled, the medium's port included. *)
OpenLoopbackToAll ==
  /\ loopback = "dialing" /\ Free /\ place["auth"] = "holding"
  /\ \/ /\ \A l \in HubLoops : place[l] = "holding"
        /\ loopback' = "joined"
        /\ place' = [place EXCEPT !["own"] = "queued"]
     \/ /\ \E l \in HubLoops : place[l] # "holding"
        /\ loopback' = "failed"
        /\ UNCHANGED place
  /\ UNCHANGED <<machine, caps, role, known, smallest, beat, tasks, changes>>

(* The handshake is repeated until the hub's authentication is served; the *)
(* heartbeat port, where the loop that listens on it has not run yet,      *)
(* refuses the dial, and nothing tries again.                              *)
OpenLoopback ==
  /\ loopback = "dialing" /\ Free /\ place["auth"] = "holding"
  /\ \/ /\ place["heartbeat"] = "holding"
        /\ loopback' = "joined"
        /\ place' = [place EXCEPT !["own"] = "queued"]
     \/ /\ place["heartbeat"] # "holding"
        /\ loopback' = "failed"
        /\ UNCHANGED place
  /\ UNCHANGED <<machine, caps, role, known, smallest, beat, tasks, changes>>

(* A task it can do makes the loop await; one that is rejected does not.   *)
(* Neither the end of the session nor that of the leader stops the loop.   *)
Execute(l, c) ==
  /\ l \notin HubLoops /\ place[l] = "holding" /\ role # "panicked"
  /\ c \in Runnable(machine) /\ tasks < MaxTasks
  /\ place' = [place EXCEPT ![l] = "executing"]
  /\ tasks' = tasks + 1
  /\ UNCHANGED <<machine, caps, role, known, smallest, loopback, beat, changes>>

Resume(l) ==
  /\ place[l] = "executing" /\ Free
  /\ place' = [place EXCEPT ![l] = "holding"]
  /\ UNCHANGED <<machine, caps, role, known, smallest, loopback, beat, tasks, changes>>
------------------------------------------------------------------------------
(* The world around *)

(* Announcements are heard by the listener; peers expire by themselves. *)
Hear ==
  /\ Free
  /\ known' \in {known, TRUE} /\ smallest' \in {smallest, FALSE}
  /\ <<known', smallest'>> # <<known, smallest>>
  /\ UNCHANGED <<machine, caps, role, place, loopback, beat, tasks, changes>>

Expire ==
  /\ known' \in {known, FALSE} /\ smallest' \in {smallest, TRUE}
  /\ <<known', smallest'>> # <<known, smallest>>
  /\ UNCHANGED <<machine, caps, role, place, loopback, beat, tasks, changes>>

(* Software comes and goes; the profile was made at the start. *)
Change(m) ==
  /\ changes < MaxChanges
  /\ m # machine /\ m.os = machine.os /\ m.cores = machine.cores
  /\ machine' = m /\ changes' = changes + 1
  /\ UNCHANGED <<caps, role, known, smallest, place, loopback, beat, tasks>>
------------------------------------------------------------------------------
MainStep == \/ SleepEnds \/ Follow \/ (role = "joined" /\ Leave)
            \/ Lead \/ LeadAgain \/ Wait \/ StepDown

Next == \/ MainStep
        \/ (\E s \in Session : Join(s)) \/ (role = "handshake" /\ Leave)
        \/ Broadcast \/ HalfSecond \/ OpenLoopback
        \/ \E l \in Loop : Poll(l) \/ Resume(l) \/ \E c \in Asked : Execute(l, c)
        \/ Hear \/ Expire
        \/ \E m \in Machines : Change(m)

Spec == Init /\ [][Next]_nodeVars

(* The main thread and every spawned loop run when they can.  Nobody has   *)
(* to announce anything to this node, to answer it or to give it a task.   *)
Fairness ==
  /\ WF_nodeVars(MainStep)
  /\ WF_nodeVars(Broadcast) /\ WF_nodeVars(HalfSecond) /\ WF_nodeVars(OpenLoopback)
  /\ \A l \in Loop : WF_nodeVars(Poll(l)) /\ WF_nodeVars(Resume(l))

FairSpec == Spec /\ Fairness
------------------------------------------------------------------------------
(* Properties *)

(* Types, and which loops have been spawned once the node has led. *)
TypeOK ==
  /\ machine \in Machines
  /\ caps \subseteq {Execution(a) : a \in App}
  /\ role \in {"boot", "evaluate", "handshake", "joined", "resting", "leading", "panicked"}
  /\ known \in BOOLEAN /\ smallest \in BOOLEAN
  /\ place \in [Loop -> {"none", "queued", "holding", "executing"}]
  /\ loopback \in {"none", "queued", "dialing", "joined", "failed"}
  /\ \A l \in HubLoops : place[l] # "none" <=> loopback # "none"
  /\ place["own"] # "none" <=> loopback = "joined"
  /\ Cardinality(Holding) <= machine.cores
  /\ beat \in 0..1 /\ tasks \in 0..MaxTasks /\ changes \in 0..MaxChanges

(* The scout and the probes search for software each in its own way: until *)
(* something is installed, what the worker would accept has been offered,  *)
(* and a working tool that was offered and has an executor is accepted.    *)
OffersWhatItRuns ==
  changes = 0 /\ machine.os # "windows" => Runnable(machine) \subseteq caps
RunsWhatItOffers ==
  changes = 0 => \A t \in KnownTools :
    /\ Execution(t.name) \in caps /\ t.name \in Executed
    /\ t.exe \notin machine.broken /\ \E d \in SearchDirs(machine) : t.exe \in machine.files[d]
    => Execution(t.name) \in Runnable(machine)

Full == Cardinality(Spawned) >= machine.cores
Announces == []<>(beat = 0) /\ []<>(beat = 1)

(* transport/mod.rs: the node is announced "every 2 s".  It is, whatever   *)
(* its role, while fewer loops have been spawned than there are workers.   *)
AnnouncesWhileRoom == [](~ Full /\ role # "panicked") => Announces

(* transport/mod.rs: "every 2 s", a leader and a machine of any size       *)
(* included.                                                               *)
AlwaysAnnounces == [](role # "panicked") => Announces

(* A leader that has workers left comes to dial its own hub, and if by     *)
(* then the two loops it needs are there, it gets to work for it.          *)
Reachable == {"auth", "heartbeat"} \subseteq Holding

LeaderWorks ==
  /\ (loopback = "queued" /\ ~ Full)
       ~> (loopback \in {"joined", "failed"} \/ Full \/ role = "panicked")
  /\ (loopback = "dialing" /\ Reachable /\ ~ Full)
       ~> (loopback = "joined" \/ Full \/ role = "panicked")
==============================================================================
