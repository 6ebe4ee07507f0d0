--------------------------- MODULE ElectionProofs ---------------------------
(***************************************************************************)
(* Theorems about Election, for any swarm, any late starters, any nodes    *)
(* that miss announcements or fall silent and any number of crashes.       *)
(***************************************************************************)
EXTENDS Election, TLAPS

(* What a node that has listened at boot knows.  The nodes it was to hear  *)
(* from had started, so those that fell silent stay so; the others are in  *)
(* its view unless it has missed announcements.                            *)
Announced == \A i \in Node : \A j \in expected[i] : role[j] # "off"

Heard ==
  \A i \in Node \ missed :
    role[i] \notin Silent \cup {"boot"} => (expected[i] \cap Announcing) \subseteq live[i]

IInv == TypeOK /\ FollowsRealLeader /\ Announced /\ Heard /\ OnlySmallestLeads

(* Initially there are no views, no hubs and no leaders. *)
LEMMA InitOK == Init => IInv
BY DEF Init, IInv, TypeOK, Roles, FollowsRealLeader, Following, Announced, Heard, Announcing, Running, Silent,
       OnlySmallestLeads, Leading

(* An announcement is a running peer's. *)
LEMMA HearPeerOK == ASSUME IInv, NEW i \in Node, NEW j \in Node, HearPeer(i, j) PROVE IInv'
<1> USE DEF history, IInv, HearPeer, ObservePeer
<1>1. TypeOK'
  BY DEF TypeOK, Roles, Leading
<1>2. FollowsRealLeader'
  BY DEF FollowsRealLeader, Following, TypeOK, Leading
<1>3. Announced'
  BY DEF Announced, TypeOK, Running, Silent
<1>4. Heard'
  BY DEF Heard, Announced, Announcing, Running, Silent, TypeOK
<1>5. OnlySmallestLeads'
  BY DEF OnlySmallestLeads, Leading, Heard, Announced, Announcing, Running, Silent, TypeOK
<1> QED
  BY <1>1, <1>2, <1>3, <1>4, <1>5

(* A flag is set by a node that leads, hence holds a hub. *)
LEMMA HearLeaderOK == ASSUME IInv, NEW i \in Node, NEW j \in Node, HearLeader(i, j) PROVE IInv'
<1> USE DEF history, IInv, HearLeader, ObserveLeader
<1>1. TypeOK'
  BY DEF TypeOK, Roles, Leading
<1>2. FollowsRealLeader'
  BY DEF FollowsRealLeader, Following, TypeOK, Leading
<1>3. Announced'
  BY DEF Announced, TypeOK, Running, Silent
<1>4. Heard'
  BY DEF Heard, Announced, Announcing, Running, Silent, TypeOK
<1>5. OnlySmallestLeads'
  BY DEF OnlySmallestLeads, Leading, Heard, Announced, Announcing, Running, Silent, TypeOK
<1> QED
  BY <1>1, <1>2, <1>3, <1>4, <1>5

(* A peer's silence is noticed; a node that goes too far has missed announcements. *)
LEMMA ForgetOK ==
  ASSUME IInv, NEW i \in Node, NEW j \in Node, Expire(i, j) \/ Miss(i, j) PROVE IInv'
<1> USE DEF history, IInv, Expire, Miss, Forget
<1>1. TypeOK'
  <2>1. live' \in [Node -> SUBSET Node] /\ \A k \in Node : live'[k] \subseteq live[k]
    BY DEF TypeOK
  <2>2. \A k \in Node : k \notin live'[k] \cup flagged'[k]
    BY <2>1 DEF TypeOK
  <2>3. hub' \subseteq Node /\ Leading' \subseteq hub'
    BY DEF TypeOK, Leading
  <2>4. /\ role' \in [Node -> Roles] /\ leader' \in [Node -> Node]
        /\ flagged' \in [Node -> SUBSET Node] /\ expected' \in [Node -> SUBSET Node]
    BY DEF TypeOK
  <2> QED
    BY <2>1, <2>4, <2>2, <2>3 DEF TypeOK
<1>2. FollowsRealLeader'
  BY DEF FollowsRealLeader, Following, TypeOK, Leading
<1>3. Announced'
  BY DEF Announced, TypeOK, Running, Silent
<1>4. Heard'
  BY DEF Heard, Announced, Announcing, Running, Silent, TypeOK
<1>5. OnlySmallestLeads'
  BY DEF OnlySmallestLeads, Leading, Heard, Announced, Announcing, Running, Silent, TypeOK
<1> QED
  BY <1>1, <1>2, <1>3, <1>4, <1>5

(* The nodes running now are those a starting node is to hear from. *)
LEMMA StartOK == ASSUME IInv, NEW i \in Node, Start(i) PROVE IInv'
<1> USE DEF history, IInv, Start, GoTo
<1>1. TypeOK'
  <2>1. Announcing \subseteq Node
    BY DEF Announcing, Running
  <2> QED
    BY <2>1 DEF TypeOK, Roles, Leading
<1>2. FollowsRealLeader'
  BY DEF FollowsRealLeader, Following, TypeOK, Leading
<1>3. Announced'
  BY DEF Announced, TypeOK, Announcing, Running, Silent
<1>4. Heard'
  BY DEF Heard, Announced, Announcing, Running, Silent, TypeOK
<1>5. OnlySmallestLeads'
  BY DEF OnlySmallestLeads, Leading, Heard, Announced, Announcing, Running, Silent, TypeOK
<1> QED
  BY <1>1, <1>2, <1>3, <1>4, <1>5

(* Boot ends when they are heard. *)
LEMMA BootDoneOK == ASSUME IInv, NEW i \in Node, BootDone(i) PROVE IInv'
<1> USE DEF history, IInv, BootDone, GoTo
<1>1. TypeOK'
  BY DEF TypeOK, Roles, Leading
<1>2. FollowsRealLeader'
  BY DEF FollowsRealLeader, Following, TypeOK, Leading
<1>3. Announced'
  BY DEF Announced, TypeOK, Running, Silent
<1>4. Heard'
  BY DEF Heard, Announced, Announcing, Running, Silent, TypeOK
<1>5. OnlySmallestLeads'
  BY DEF OnlySmallestLeads, Leading, Heard, Announced, Announcing, Running, Silent, TypeOK
<1> QED
  BY <1>1, <1>2, <1>3, <1>4, <1>5

(* The leader is taken from the flagged peers. *)
LEMMA FollowOK == ASSUME IInv, NEW i \in Node, Follow(i) PROVE IInv'
<1> USE DEF history, IInv, Follow, CurrentLeaders, GoTo
<1>1. TypeOK'
  BY DEF TypeOK, Roles, Leading
<1>2. FollowsRealLeader'
  BY DEF FollowsRealLeader, Following, TypeOK, Leading
<1>3. Announced'
  BY DEF Announced, TypeOK, Running, Silent
<1>4. Heard'
  BY DEF Heard, Announced, Announcing, Running, Silent, TypeOK
<1>5. OnlySmallestLeads'
  BY DEF OnlySmallestLeads, Leading, Heard, Announced, Announcing, Running, Silent, TypeOK
<1> QED
  BY <1>1, <1>2, <1>3, <1>4, <1>5

(* Without a leader in view nobody is followed. *)
LEMMA NoLeaderOK == ASSUME IInv, NEW i \in Node, NoLeader(i) PROVE IInv'
<1> USE DEF history, IInv, NoLeader, GoTo
<1>1. TypeOK'
  BY DEF TypeOK, Roles, Leading
<1>2. FollowsRealLeader'
  BY DEF FollowsRealLeader, Following, TypeOK, Leading
<1>3. Announced'
  BY DEF Announced, TypeOK, Running, Silent
<1>4. Heard'
  BY DEF Heard, Announced, Announcing, Running, Silent, TypeOK
<1>5. OnlySmallestLeads'
  BY DEF OnlySmallestLeads, Leading, Heard, Announced, Announcing, Running, Silent, TypeOK
<1> QED
  BY <1>1, <1>2, <1>3, <1>4, <1>5

(* Every running node that was to be heard is in view and larger. *)
LEMMA LeadOK == ASSUME IInv, NEW i \in Node, Lead(i) PROVE IInv'
<1> USE DEF history, IInv, Lead, IShouldBeLeader, GoTo
<1>1. TypeOK'
  BY DEF TypeOK, Roles, Leading
<1>2. FollowsRealLeader'
  BY DEF FollowsRealLeader, Following, TypeOK, Leading
<1>3. Announced'
  BY DEF Announced, TypeOK, Running, Silent
<1>4. Heard'
  BY DEF Heard, Announced, Announcing, Running, Silent, TypeOK
<1>5. OnlySmallestLeads'
  <2> SUFFICES ASSUME NEW k \in Leading' \ missed', NEW j \in expected'[k], j < k
               PROVE  j \notin Announcing'
    BY DEF OnlySmallestLeads
  <2>1. k \in Node /\ j \in Node /\ j \in expected[k] /\ k \in Nat /\ j \in Nat
    BY ElectionAssumption DEF Leading, TypeOK
  <2>2. CASE k = i
    <3>1. j \in Announcing => j \in live[i]
      BY <2>1, <2>2 DEF Heard, Silent
    <3>2. j \notin Announcing
      BY <2>1, <2>2, <3>1
    <3> QED
      BY <2>1, <2>2, <3>2 DEF Announcing, Running, TypeOK, Silent
  <2>3. CASE k # i
    <3>1. j \notin Announcing
      BY <2>1, <2>3 DEF OnlySmallestLeads, Leading, TypeOK
    <3> QED
      BY <2>1, <2>3, <3>1 DEF Announcing, Running, Silent, TypeOK
  <2> QED
    BY <2>2, <2>3
<1> QED
  BY <1>1, <1>2, <1>3, <1>4, <1>5

(* A process that panics keeps its hub. *)
LEMMA PortsTakenOK == ASSUME IInv, NEW i \in Node, PortsTaken(i) PROVE IInv'
<1> USE DEF history, IInv, PortsTaken, GoTo
<1>1. TypeOK'
  BY DEF TypeOK, Roles, Leading
<1>2. FollowsRealLeader'
  BY DEF FollowsRealLeader, Following, TypeOK, Leading
<1>3. Announced'
  BY DEF Announced, TypeOK, Running, Silent
<1>4. Heard'
  BY DEF Heard, Announced, Announcing, Running, Silent, TypeOK
<1>5. OnlySmallestLeads'
  BY DEF OnlySmallestLeads, Leading, Heard, Announced, Announcing, Running, Silent, TypeOK
<1> QED
  BY <1>1, <1>2, <1>3, <1>4, <1>5

(* Nothing but the place in the role loop changes. *)
LEMMA WaitOK == ASSUME IInv, NEW i \in Node, Wait(i) PROVE IInv'
<1> USE DEF history, IInv, Wait, GoTo
<1>1. TypeOK'
  BY DEF TypeOK, Roles, Leading
<1>2. FollowsRealLeader'
  BY DEF FollowsRealLeader, Following, TypeOK, Leading
<1>3. Announced'
  BY DEF Announced, TypeOK, Running, Silent
<1>4. Heard'
  BY DEF Heard, Announced, Announcing, Running, Silent, TypeOK
<1>5. OnlySmallestLeads'
  BY DEF OnlySmallestLeads, Leading, Heard, Announced, Announcing, Running, Silent, TypeOK
<1> QED
  BY <1>1, <1>2, <1>3, <1>4, <1>5

(* The leader followed stays the same. *)
LEMMA AuthenticatedOK == ASSUME IInv, NEW i \in Node, Authenticated(i) PROVE IInv'
<1> USE DEF history, IInv, Authenticated, GoTo
<1>1. TypeOK'
  BY DEF TypeOK, Roles, Leading
<1>2. FollowsRealLeader'
  BY DEF FollowsRealLeader, Following, TypeOK, Leading
<1>3. Announced'
  BY DEF Announced, TypeOK, Running, Silent
<1>4. Heard'
  BY DEF Heard, Announced, Announcing, Running, Silent, TypeOK
<1>5. OnlySmallestLeads'
  BY DEF OnlySmallestLeads, Leading, Heard, Announced, Announcing, Running, Silent, TypeOK
<1> QED
  BY <1>1, <1>2, <1>3, <1>4, <1>5

(* The leader followed stays the same. *)
LEMMA JoinedOK == ASSUME IInv, NEW i \in Node, Joined(i) PROVE IInv'
<1> USE DEF history, IInv, Joined, GoTo
<1>1. TypeOK'
  BY DEF TypeOK, Roles, Leading
<1>2. FollowsRealLeader'
  BY DEF FollowsRealLeader, Following, TypeOK, Leading
<1>3. Announced'
  BY DEF Announced, TypeOK, Running, Silent
<1>4. Heard'
  BY DEF Heard, Announced, Announcing, Running, Silent, TypeOK
<1>5. OnlySmallestLeads'
  BY DEF OnlySmallestLeads, Leading, Heard, Announced, Announcing, Running, Silent, TypeOK
<1> QED
  BY <1>1, <1>2, <1>3, <1>4, <1>5

(* Following ends, flags go. *)
LEMMA DialFailsOK == ASSUME IInv, NEW i \in Node, DialFails(i) PROVE IInv'
<1> USE DEF history, IInv, DialFails, GoTo
<1>1. TypeOK'
  BY DEF TypeOK, Roles, Leading
<1>2. FollowsRealLeader'
  BY DEF FollowsRealLeader, Following, TypeOK, Leading
<1>3. Announced'
  BY DEF Announced, TypeOK, Running, Silent
<1>4. Heard'
  BY DEF Heard, Announced, Announcing, Running, Silent, TypeOK
<1>5. OnlySmallestLeads'
  BY DEF OnlySmallestLeads, Leading, Heard, Announced, Announcing, Running, Silent, TypeOK
<1> QED
  BY <1>1, <1>2, <1>3, <1>4, <1>5

(* Following ends, flags go. *)
LEMMA LeaveOK == ASSUME IInv, NEW i \in Node, Leave(i) PROVE IInv'
<1> USE DEF history, IInv, Leave, GoTo
<1>1. TypeOK'
  BY DEF TypeOK, Roles, Leading
<1>2. FollowsRealLeader'
  BY DEF FollowsRealLeader, Following, TypeOK, Leading
<1>3. Announced'
  BY DEF Announced, TypeOK, Running, Silent
<1>4. Heard'
  BY DEF Heard, Announced, Announcing, Running, Silent, TypeOK
<1>5. OnlySmallestLeads'
  BY DEF OnlySmallestLeads, Leading, Heard, Announced, Announcing, Running, Silent, TypeOK
<1> QED
  BY <1>1, <1>2, <1>3, <1>4, <1>5

(* A leader that steps down keeps its hub. *)
LEMMA StepDownOK == ASSUME IInv, NEW i \in Node, StepDown(i) PROVE IInv'
<1> USE DEF history, IInv, StepDown, GoTo
<1>1. TypeOK'
  BY DEF TypeOK, Roles, Leading
<1>2. FollowsRealLeader'
  BY DEF FollowsRealLeader, Following, TypeOK, Leading
<1>3. Announced'
  BY DEF Announced, TypeOK, Running, Silent
<1>4. Heard'
  BY DEF Heard, Announced, Announcing, Running, Silent, TypeOK
<1>5. OnlySmallestLeads'
  BY DEF OnlySmallestLeads, Leading, Heard, Announced, Announcing, Running, Silent, TypeOK
<1> QED
  BY <1>1, <1>2, <1>3, <1>4, <1>5

(* Who falls silent stays as it is. *)
LEMMA FallSilentOK == ASSUME IInv, NEW i \in Node, FallSilent(i) PROVE IInv'
<1> USE DEF history, IInv, FallSilent
<1>1. TypeOK'
  BY DEF TypeOK, Roles, Leading
<1>2. FollowsRealLeader'
  BY DEF FollowsRealLeader, Following, TypeOK, Leading
<1>3. Announced'
  BY DEF Announced, TypeOK, Running, Silent
<1>4. Heard'
  BY DEF Heard, Announced, Announcing, Running, Silent, TypeOK
<1>5. OnlySmallestLeads'
  BY DEF OnlySmallestLeads, Leading, Heard, Announced, Announcing, Running, Silent, TypeOK
<1> QED
  BY <1>1, <1>2, <1>3, <1>4, <1>5

(* A hub goes only with its process. *)
LEMMA CrashOK == ASSUME IInv, NEW i \in Node, Crash(i) PROVE IInv'
<1> USE DEF history, IInv, Crash, GoTo
<1>1. TypeOK'
  BY DEF TypeOK, Roles, Leading
<1>2. FollowsRealLeader'
  BY DEF FollowsRealLeader, Following, TypeOK, Leading
<1>3. Announced'
  BY DEF Announced, TypeOK, Running, Silent
<1>4. Heard'
  BY DEF Heard, Announced, Announcing, Running, Silent, TypeOK
<1>5. OnlySmallestLeads'
  BY DEF OnlySmallestLeads, Leading, Heard, Announced, Announcing, Running, Silent, TypeOK
<1> QED
  BY <1>1, <1>2, <1>3, <1>4, <1>5

(* IInv is inductive. *)
THEOREM Invariance == Spec => []IInv
<1>1. IInv /\ [Next]_vars => IInv'
  <2> SUFFICES ASSUME IInv, [Next]_vars PROVE IInv'
    OBVIOUS
  <2>1. ASSUME NEW i \in Node, NEW j \in Node, HearPeer(i, j) \/ HearLeader(i, j) \/ Expire(i, j) \/ Miss(i, j)
        PROVE  IInv'
    BY <2>1, HearPeerOK, HearLeaderOK, ForgetOK
  <2>2. ASSUME NEW i \in Node, Start(i) \/ FallSilent(i) \/ Crash(i)
        PROVE  IInv'
    BY <2>2, StartOK, FallSilentOK, CrashOK
  <2>3. ASSUME NEW i \in Node, RoleStep(i)
        PROVE  IInv'
    BY <2>3, BootDoneOK, FollowOK, NoLeaderOK, LeadOK, PortsTakenOK, WaitOK, AuthenticatedOK,
       JoinedOK, DialFailsOK, LeaveOK, StepDownOK DEF RoleStep
  <2>4. CASE UNCHANGED vars
    BY <2>4 DEF vars, IInv, TypeOK, FollowsRealLeader, Following, Announced, Heard, Announcing, Running,
                OnlySmallestLeads, Leading
  <2> QED
    BY <2>1, <2>2, <2>3, <2>4 DEF Next
<1> QED
  BY InitOK, <1>1, PTL DEF Spec

(* Nobody is its own peer, and a node leads only while it holds a hub. *)
THEOREM TypeCorrect == Spec => []TypeOK
BY Invariance, PTL DEF IInv

(* Whatever announcements are missed and whoever crashes, a node waits for *)
(* and works for nobody but a node that has led.                           *)
THEOREM LeadersAreReal == Spec => []FollowsRealLeader
BY Invariance, PTL DEF IInv

(* The listening at boot works for every node that hears its peers, even   *)
(* when others do not.                                                     *)
THEOREM LeadsWhenSmallest == Spec => []OnlySmallestLeads
BY Invariance, PTL DEF IInv
==============================================================================
