------------------------------- MODULE Election -------------------------------
(***************************************************************************)
(* Leader election of the unified node: the view a process keeps of its    *)
(* peers (election/mod.rs), the mDNS announcements that feed it            *)
(* (transport/mod.rs) and the role loop of main.rs.                        *)
(*                                                                         *)
(* Time is abstracted to what the timers are for.  A process that keeps    *)
(* announcing every 2 s does not reach the 10 s PEER_TIMEOUT of those who  *)
(* hear it; one that is silent does (Expire).  A Deaf node may also miss   *)
(* announcements long enough for a live peer to expire.  A sleep of the    *)
(* role loop is the freedom to take its next step later.  It is tokio's    *)
(* timer that ends a sleep, though, and on a Crowded machine the hub's and *)
(* the sessions' loops, which never yield, may leave no worker to turn it  *)
(* (Node.tla): then the process announces, hears and decides nothing any   *)
(* more, while its hub goes on (FallSilent).                               *)
(*                                                                         *)
(* An entry that is neither live nor flagged behaves like no entry at all, *)
(* so a view is two sets of peers.  A restarted process draws a new UUID:  *)
(* a crashed node does not come back.                                      *)
(***************************************************************************)
EXTENDS Integers, FiniteSets

CONSTANTS
  Node,        \* node ids, ordered as their strings are
  Late,        \* nodes that may start some time after the others
  Deaf,        \* nodes that may miss a live peer's announcements for 10 s
  Crowded,     \* nodes whose loops may come to occupy every tokio worker
  MaxCrashes   \* bound: nodes that may crash

ASSUME ElectionAssumption ==
  /\ Node \subseteq Nat /\ Late \subseteq Node
  /\ Deaf \subseteq Node /\ Crowded \subseteq Node
  /\ MaxCrashes \in Nat

VARIABLES
  role,     \* role[i]: where the role loop of i is
  live,     \* live[i]: peers i has heard from within PEER_TIMEOUT
  flagged,  \* flagged[i]: peers whose entry has is_leader and an address set
  leader,   \* leader[i]: the node i joins or has joined, meaningful while it follows
  hub,      \* nodes whose process holds the hub's sockets
  mute,     \* nodes whose timers have stopped for good
  expected, \* expected[i]: nodes already announcing when i started
  missed    \* history: nodes that have missed a live peer's announcements

vars == <<role, live, flagged, leader, hub, mute, expected, missed>>
history == <<expected, missed>>

Roles == {"off", "boot", "evaluate", "elect", "handshake", "dialing", "joined", "leading",
          "crashed", "panicked"}
Silent == {"off", "crashed", "panicked"}
Running == {i \in Node : role[i] \notin Silent}
Announcing == Running \ mute

Init == /\ \E late \in SUBSET Late :
             /\ role = [i \in Node |-> IF i \in late THEN "off" ELSE "boot"]
             /\ expected = [i \in Node |-> Node \ (late \cup {i})]
        /\ live = [i \in Node |-> {}]
        /\ flagged = [i \in Node |-> {}]
        /\ leader = [i \in Node |-> i]
        /\ hub = {}
        /\ mute = {}
        /\ missed = {}
------------------------------------------------------------------------------
(* ElectionState *)

CurrentLeaders(i) == flagged[i] \cap live[i]
(* Fault: one larger peer is taken for the whole swarm. *)
IShouldBeLeaderAny(i) == live[i] = {} \/ \E j \in live[i] : i <= j

IShouldBeLeader(i) == \A j \in live[i] : i <= j

(* Fault: every announcement is taken for a leader's. *)
ObservePeerAsLeader(i, j) ==
  /\ live' = [live EXCEPT ![i] = @ \cup {j}]
  /\ flagged' = [flagged EXCEPT ![i] = @ \cup {j}]

(* observe_peer refreshes the entry and leaves its leader flag as it is. *)
ObservePeer(i, j) ==
  /\ live' = [live EXCEPT ![i] = @ \cup {j}]
  /\ UNCHANGED flagged

(* Fault: the leader's address is not kept, so it is nobody's leader. *)
ObserveLeaderNoAddress(i, j) ==
  /\ live' = [live EXCEPT ![i] = @ \cup {j}]
  /\ UNCHANGED flagged

ObserveLeader(i, j) ==
  /\ live' = [live EXCEPT ![i] = @ \cup {j}]
  /\ flagged' = [flagged EXCEPT ![i] = @ \cup {j}]
------------------------------------------------------------------------------
(* Announcements and their absence *)

(* Fault: a node takes its own announcements for a peer's. *)
HearSelfToo(i, j) ==
  /\ i \in Announcing /\ j \in Announcing
  /\ ObservePeer(i, j)
  /\ UNCHANGED <<role, leader, hub, mute, history>>

HearPeer(i, j) ==
  /\ i # j /\ i \in Announcing /\ j \in Announcing
  /\ ObservePeer(i, j)
  /\ UNCHANGED <<role, leader, hub, mute, history>>

HearLeader(i, j) ==
  /\ i # j /\ i \in Announcing /\ j \in Announcing /\ role[j] = "leading"
  /\ ObserveLeader(i, j)
  /\ UNCHANGED <<role, leader, hub, mute, history>>

(* The peer has been silent for 10 s, ...                                  *)
Forget(i, j) ==
  /\ i \in Announcing /\ j \in live[i]
  /\ live' = [live EXCEPT ![i] = @ \ {j}]
  /\ UNCHANGED <<role, flagged, leader, hub, mute, expected>>

Expire(i, j) == j \notin Announcing /\ Forget(i, j) /\ UNCHANGED missed

(* ... or its announcements were lost.                                     *)
Miss(i, j) == i \in Deaf /\ j \in Announcing /\ Forget(i, j) /\ missed' = missed \cup {i}
------------------------------------------------------------------------------
(* The role loop *)

GoTo(i, r) == role' = [role EXCEPT ![i] = r]

Start(i) ==
  /\ role[i] = "off"
  /\ GoTo(i, "boot")
  /\ expected' = [expected EXCEPT ![i] = Announcing]
  /\ UNCHANGED <<live, flagged, leader, hub, mute, missed>>

(* Fault: the role is decided without listening first. *)
BootAtOnce(i) ==
  /\ role[i] = "boot"
  /\ GoTo(i, "evaluate")
  /\ UNCHANGED <<live, flagged, leader, hub, mute, history>>

(* Five seconds are enough to hear every peer that was there from the start. *)
BootDone(i) ==
  /\ role[i] = "boot"
  /\ \/ /\ (expected[i] \cap Announcing) \subseteq live[i]
        /\ UNCHANGED missed
     \/ /\ i \in Deaf /\ ~ (expected[i] \cap Announcing) \subseteq live[i]
        /\ missed' = missed \cup {i}
  /\ GoTo(i, "evaluate")
  /\ UNCHANGED <<live, flagged, leader, hub, mute, expected>>

(* current_leader: any live flagged peer; the map is walked in any order. *)
Follow(i) ==
  /\ role[i] = "evaluate"
  /\ \E j \in CurrentLeaders(i) : leader' = [leader EXCEPT ![i] = j]
  /\ GoTo(i, "handshake")
  /\ UNCHANGED <<live, flagged, hub, mute, history>>

(* i_should_be_leader is asked after current_leader has let the lock go. *)
NoLeader(i) ==
  /\ role[i] = "evaluate"
  /\ CurrentLeaders(i) = {}
  /\ GoTo(i, "elect")
  /\ UNCHANGED <<live, flagged, leader, hub, mute, history>>

Lead(i) ==
  /\ role[i] = "elect" /\ IShouldBeLeader(i) /\ i \notin hub
  /\ GoTo(i, "leading")
  /\ hub' = hub \cup {i}
  /\ UNCHANGED <<live, flagged, leader, mute, history>>

(* start_servers expects to listen, but an earlier hub of this process     *)
(* still owns the ports.  The role loop is gone and with it the process's  *)
(* announcements; the old hub's loops never yield, so it may still answer. *)
PortsTaken(i) ==
  /\ role[i] = "elect" /\ IShouldBeLeader(i) /\ i \in hub
  /\ GoTo(i, "panicked")
  /\ UNCHANGED <<live, flagged, leader, hub, mute, history>>

Wait(i) ==
  /\ role[i] = "elect" /\ ~ IShouldBeLeader(i)
  /\ GoTo(i, "evaluate")
  /\ UNCHANGED <<live, flagged, leader, hub, mute, history>>

(* The handshake is retried until a hub answers; one that has stepped down *)
(* still does.                                                             *)
Authenticated(i) ==
  /\ role[i] = "handshake" /\ leader[i] \in hub
  /\ GoTo(i, "dialing")
  /\ UNCHANGED <<live, flagged, leader, hub, mute, history>>

(* The heartbeat and task sockets are dialled, ... *)
Joined(i) ==
  /\ role[i] = "dialing" /\ leader[i] \in hub
  /\ GoTo(i, "joined")
  /\ UNCHANGED <<live, flagged, leader, hub, mute, history>>

(* ... which fails when the hub has just gone, and ends run_as_follower.   *)
DialFails(i) ==
  /\ role[i] = "dialing" /\ leader[i] \notin hub
  /\ flagged' = [flagged EXCEPT ![i] = {}]
  /\ GoTo(i, "evaluate")
  /\ UNCHANGED <<live, leader, hub, mute, history>>

(* run_as_follower returns when no leader at all is known, and the role    *)
(* loop clears every flag.                                                 *)
Leave(i) ==
  /\ role[i] = "joined" /\ CurrentLeaders(i) = {}
  /\ flagged' = [flagged EXCEPT ![i] = {}]
  /\ GoTo(i, "evaluate")
  /\ UNCHANGED <<live, leader, hub, mute, history>>

(* The tasks of the hub hold it too: its sockets stay. *)
StepDown(i) ==
  /\ role[i] = "leading" /\ ~ IShouldBeLeader(i)
  /\ GoTo(i, "evaluate")
  /\ UNCHANGED <<live, flagged, leader, hub, mute, history>>

(* The last free worker is taken by a loop: of the hub, or of a session.   *)
FallSilent(i) ==
  /\ i \in Crowded \cap Announcing
  /\ i \in hub \/ role[i] = "joined"
  /\ mute' = mute \cup {i}
  /\ UNCHANGED <<role, live, flagged, leader, hub, history>>

Crash(i) ==
  /\ i \in Running
  /\ Cardinality({j \in Node : role[j] = "crashed"}) < MaxCrashes
  /\ GoTo(i, "crashed")
  /\ hub' = hub \ {i}
  /\ UNCHANGED <<live, flagged, leader, mute, history>>
------------------------------------------------------------------------------
RoleStep(i) ==
  /\ i \notin mute
  /\ \/ BootDone(i) \/ Follow(i) \/ NoLeader(i) \/ Lead(i) \/ PortsTaken(i) \/ Wait(i)
     \/ Authenticated(i) \/ Joined(i) \/ DialFails(i) \/ Leave(i) \/ StepDown(i)

Next == \/ \E i, j \in Node : HearPeer(i, j) \/ HearLeader(i, j) \/ Expire(i, j) \/ Miss(i, j)
        \/ \E i \in Node : Start(i) \/ RoleStep(i) \/ FallSilent(i) \/ Crash(i)

Spec == Init /\ [][Next]_vars

(* Announcements arrive again and again while they are sent, silence is    *)
(* noticed, and the role loop of a process whose timers run goes on; only  *)
(* a hub whose process has fallen silent or panicked need not answer a     *)
(* handshake.  Nobody has to start, to fall silent or to crash.            *)
Fairness ==
  /\ \A i, j \in Node : /\ WF_vars(HearPeer(i, j)) /\ WF_vars(HearLeader(i, j))
                        /\ WF_vars(Expire(i, j))
  /\ \A i \in Node :
       WF_vars(RoleStep(i) /\ (role[i] = "handshake" => leader[i] \in Announcing))

FairSpec == Spec /\ Fairness
------------------------------------------------------------------------------
(* Properties *)

Leading == {i \in Node : role[i] = "leading"}
Following(i) == role[i] \in {"handshake", "dialing", "joined"}

(* Views hold peers only, and only a running hub's owner leads. *)
TypeOK ==
  /\ role \in [Node -> Roles]
  /\ leader \in [Node -> Node]
  /\ live \in [Node -> SUBSET Node] /\ flagged \in [Node -> SUBSET Node]
  /\ \A i \in Node : i \notin live[i] \cup flagged[i]
  /\ expected \in [Node -> SUBSET Node]
  /\ hub \subseteq Node /\ Leading \subseteq hub
  /\ mute \subseteq Crowded /\ missed \subseteq Deaf

(* Whatever is lost or late, nobody ever waits for, or works for, a node   *)
(* that has never led: a flag is only set by the peer that really held a   *)
(* hub, and a hub goes only with its process.                              *)
FollowsRealLeader ==
  \A i \in Node :
    /\ \A j \in flagged[i] : j \in hub \/ role[j] = "crashed"
    /\ Following(i) => leader[i] # i /\ (leader[i] \in hub \/ role[leader[i]] = "crashed")

(* A node that has missed no announcements leads only if every smaller     *)
(* node that was announcing when it started has fallen silent: the         *)
(* listening at boot prevents two leaders among nodes that start together. *)
OnlySmallestLeads ==
  \A i \in Leading \ missed : \A j \in expected[i] : j < i => j \notin Announcing

(* Nodes that start together end up joined to the smallest for good,       *)
(* unless one of them crashes, falls silent or misses announcements.       *)
Disturbed == mute # {} \/ missed # {} \/ \E i \in Node : role[i] = "crashed"

SwarmForms ==
  (\A i \in Node : role[i] # "off")
    => \/ <>[](\E i \in Node : /\ role[i] = "leading" /\ \A j \in Node : i <= j
                               /\ \A j \in Node \ {i} : role[j] = "joined" /\ leader[j] = i)
       \/ <>Disturbed

(* Late starters, crashes and missed announcements may make two nodes lead *)
(* for a while.  Among the nodes whose timers run that ends by itself,     *)
(* unless announcements are missed again and again; a leader that has      *)
(* fallen silent never notices the other one, and stays.                   *)
SplitBrainHeals ==
  \/ <>[](Cardinality(Leading \ mute) <= 1)
  \/ []<><<\E i, j \in Node : Miss(i, j)>>_vars

(* main.rs: "hub Arc dropped here -> sockets close".  A node that lost the *)
(* leadership can take it up again.                                        *)
NeverPanics == \A i \in Node : role[i] # "panicked"

(* ADR-004, failover path: once the LEADER announcements go silent, "all   *)
(* followers see current_leader() -> None".  Nobody stays with a leader    *)
(* that no longer leads, be it because it crashed or because it stepped    *)
(* down.                                                                   *)
StaleLeaderLeft ==
  \A i, j \in Node :
    (Following(i) /\ leader[i] = j /\ role[j] # "leading")
      ~> ~ (Following(i) /\ leader[i] = j /\ role[j] # "leading")
==============================================================================
