----------------------------- MODULE MCScheduler -----------------------------
(* Instances of Scheduler for TLC. *)
EXTENDS Scheduler, TLC

CONSTANTS n1, n2, t1, t2, c1, p1, p2, d1, d2

Symmetry == Permutations(NodeId) \cup Permutations(TaskId) \cup Permutations(Dispatcher)

(* A fast capable node and a slow one without capabilities *)
TwoProfiles == {[caps |-> {c1}, lastSeen |-> 1200], [caps |-> {}, lastSeen |-> 400]}

(* One task of each type; the stateful one is picky about its node. *)
MixedSubmissions ==
  {[type |-> "StatelessIdempotent", payload |-> p1, maxRetries |-> 1, required |-> {}],
   [type |-> "StatefulLongRunning", payload |-> p1, maxRetries |-> 1, required |-> {c1}],
   [type |-> "InteractiveLowLatency", payload |-> p1, maxRetries |-> 1, required |-> {}]}
==============================================================================
