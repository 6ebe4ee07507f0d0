------------------------------ MODULE Scheduler ------------------------------
(***************************************************************************)
(* The orchestrator's library: EphemeralRegistry (registry/mod.rs) and     *)
(* ProfileScheduler (scheduler/mod.rs).  Each holds one map behind one     *)
(* RwLock, so every public operation that takes one lock is one action.    *)
(* dispatch_pending_tasks takes the two locks one after the other and is   *)
(* two actions, ListNodes and AssignPending, between which any other       *)
(* thread may run; `snapshot` is the thread's local copy of the registry.  *)
(*                                                                         *)
(* Abstracted: a payload, and the checkpoint that replaces it, is a value  *)
(* of Payload; a profile keeps its capability values and its last_seen; a  *)
(* task's result, failure reason and started_at are dropped.               *)
(***************************************************************************)
EXTENDS Integers, FiniteSets, Functions

CONSTANTS
  NodeId,          \* identifiers nodes register under
  TaskId,          \* identifiers of tasks
  Capability,      \* capability values, e.g. "ffmpeg_execution"
  Payload,         \* payloads and checkpoints
  NoNode,          \* the assignee of a task that is not Running
  Dispatcher,      \* threads that call dispatch_pending_tasks
  Submissions,     \* the tasks clients may submit
  Profiles,        \* the profiles nodes may register with
  Verified,        \* nodes that sign a challenge with a key of trusted thumbprint
  Clock,           \* values of current_time evict_offline_nodes is called with
  EvictionTimeout  \* its timeout_threshold

TaskType == {"StatelessIdempotent", "StatefulLongRunning", "InteractiveLowLatency"}
TaskState == {"Pending", "Running", "Completed", "Failed"}

ASSUME NodeAssumption == NoNode \notin NodeId
ASSUME SubmissionAssumption ==
  Submissions \subseteq [type : TaskType, payload : Payload,
                         maxRetries : Nat, required : SUBSET Capability]
ASSUME ProfileAssumption ==
  Profiles \subseteq [caps : SUBSET Capability, lastSeen : Nat]
ASSUME ClockAssumption == Clock \subseteq Nat /\ EvictionTimeout \in Nat

VARIABLES
  nodes,      \* the registry: a map from registered nodes to their profiles
  tasks,      \* the scheduler: a map from task identifiers to tasks
  snapshot,   \* snapshot[d]: what list_nodes() returned to the pass of d, if one is under way
  attempts,   \* history: dispatches of the task since it was submitted
  unhandled   \* history: departed nodes whose failure has not been handled

vars == <<nodes, tasks, snapshot, attempts, unhandled>>
------------------------------------------------------------------------------
(* Maps and tasks *)

EmptyMap == [x \in {} |-> x]
Put(map, key, val) ==
  [k \in DOMAIN map \cup {key} |-> IF k = key THEN val ELSE map[k]]

Task == [type : TaskType, payload : Payload, maxRetries : Nat, required : SUBSET Capability,
         state : TaskState, node : NodeId \cup {NoNode}, retry : Nat]

(* Task::new(..).with_capabilities(..) *)
NewTask(s) ==
  [type |-> s.type, payload |-> s.payload, maxRetries |-> s.maxRetries,
   required |-> s.required, state |-> "Pending", node |-> NoNode, retry |-> 0]

(* Fault: a task that leaves Running keeps its assignee. *)
SettleKeepsNode(task, state) == [task EXCEPT !.state = state]

(* Every assignment of a state other than Running drops the assignee. *)
Settle(task, state) == [task EXCEPT !.state = state, !.node = NoNode]

(* Fault: retries are not counted. *)
RetryUncounted(task) ==
  IF task.retry < task.maxRetries
  THEN [task EXCEPT !.state = "Pending", !.node = NoNode]
  ELSE Settle(task, "Failed")

(* Fault: one retry too many is granted. *)
RetryOffByOne(task) ==
  IF task.retry <= task.maxRetries
  THEN [task EXCEPT !.state = "Pending", !.node = NoNode, !.retry = @ + 1]
  ELSE Settle(task, "Failed")

(* Fault: a task without retries left stays as it is. *)
RetryOnlyIfAny(task) ==
  IF task.retry < task.maxRetries
  THEN [task EXCEPT !.state = "Pending", !.node = NoNode, !.retry = @ + 1]
  ELSE task

Retry(task) ==
  IF task.retry < task.maxRetries
  THEN [task EXCEPT !.state = "Pending", !.node = NoNode, !.retry = @ + 1]
  ELSE Settle(task, "Failed")

(* ExecutionResult; data carries the checkpoint of CheckpointSaved. *)
Success == [kind |-> "Success"]
RetryNeeded == [kind |-> "RetryNeeded"]
ImmediateFailure == [kind |-> "ImmediateFailure"]
CheckpointSaved(data) == [kind |-> "CheckpointSaved", data |-> data]
ExecutionResult == {Success, RetryNeeded, ImmediateFailure}
                     \cup {CheckpointSaved(p) : p \in Payload}

(* update_task_progress, for a task that exists: the state is not looked at. *)
OnResult(task, result) ==
  CASE result.kind = "Success"          -> Settle(task, "Completed")
    [] result.kind = "CheckpointSaved"  -> [task EXCEPT !.payload = result.data]
    [] result.kind = "RetryNeeded"      -> Retry(task)
    [] result.kind = "ImmediateFailure" -> Settle(task, "Failed")

(* Fault: interactive tasks are retried as well. *)
NodeLostRetriesAll(task) == Retry(task)

(* Fault: recovery starts over with some other payload. *)
NodeLostStartsOver(task) ==
  IF task.type = "InteractiveLowLatency" THEN Settle(task, "Failed")
  ELSE [Retry(task) EXCEPT !.payload = CHOOSE p \in Payload : p # task.payload]

(* handle_node_failure, for a task Running on the lost node. *)
NodeLost(task) ==
  IF task.type = "InteractiveLowLatency" THEN Settle(task, "Failed") ELSE Retry(task)

(* schedule_task: what running task on node yields, read from the registry alone. *)
ScheduleTask(registry, task, node, checkpoint) ==
  IF node \notin DOMAIN registry
  THEN IF task.type = "InteractiveLowLatency" THEN ImmediateFailure ELSE RetryNeeded
  ELSE CASE task.type = "StatelessIdempotent" ->
              IF registry[node].lastSeen < 1000 THEN RetryNeeded ELSE Success
         [] task.type = "StatefulLongRunning" -> CheckpointSaved(checkpoint)
         [] task.type = "InteractiveLowLatency" ->
              IF registry[node].lastSeen < 500 THEN ImmediateFailure ELSE Success
------------------------------------------------------------------------------
(* Which node a pass assigns each task to *)

(* node_matches_capabilities over a registry snapshot *)
Capable(seen, task) == {n \in DOMAIN seen : task.required \subseteq seen[n].caps}

(* Fault: the state of the task is not checked under the lock. *)
DispatchableAny(seen) == {t \in DOMAIN tasks : Capable(seen, tasks[t]) # {}}

Dispatchable(seen) ==
  {t \in DOMAIN tasks : tasks[t].state = "Pending" /\ Capable(seen, tasks[t]) # {}}

(* The order in which a HashMap happens to be walked *)
Orders(S) == {o \in [S -> 0..(Cardinality(S) - 1)] :
                \A a, b \in S : o[a] = o[b] => a = b}

Rank(order, S, x) == Cardinality({y \in S : order[y] < order[x]})

(* Fault: the counter is never incremented. *)
RoundRobinStuck(seen, target, index, order) ==
  \A t \in DOMAIN target : Rank(order, Capable(seen, tasks[t]), target[t]) = 0

(* One counter runs over all the dispatched tasks and is reduced modulo    *)
(* the number of nodes capable of the task at hand.                        *)
RoundRobin(seen, target, index, order) ==
  \A t \in DOMAIN target :
    LET C == Capable(seen, tasks[t])
    IN  Rank(order, C, target[t]) = index[t] % Cardinality(C)

Targets(seen) ==
  {target \in [Dispatchable(seen) -> DOMAIN seen] :
     /\ \A t \in Dispatchable(seen) : target[t] \in Capable(seen, tasks[t])
     /\ \E index \in Orders(Dispatchable(seen)), order \in Orders(DOMAIN seen) :
          RoundRobin(seen, target, index, order)}
------------------------------------------------------------------------------
(* Initial state and actions *)

Init == /\ nodes = EmptyMap
        /\ tasks = EmptyMap
        /\ snapshot = [d \in Dispatcher |-> EmptyMap]
        /\ attempts = [t \in TaskId |-> 0]
        /\ unhandled = {}

Register(n, profile) ==
  /\ nodes' = Put(nodes, n, profile)
  /\ unhandled' = unhandled \ {n}
  /\ UNCHANGED <<tasks, snapshot, attempts>>

(* A rejected node leaves the registry alone. *)
AuthenticateAndRegister(n, profile) == n \in Verified /\ Register(n, profile)

Retain(kept) ==
  /\ nodes' = Restrict(nodes, kept)
  /\ unhandled' = unhandled \cup (DOMAIN nodes \ kept)
  /\ UNCHANGED <<tasks, snapshot, attempts>>

Unregister(n) == n \in DOMAIN nodes /\ Retain(DOMAIN nodes \ {n})

(* A last_seen in the future keeps the node. *)
EvictOffline(now) ==
  Retain({n \in DOMAIN nodes : now >= nodes[n].lastSeen
                                 => now - nodes[n].lastSeen < EvictionTimeout})

Submit(t, s) ==
  /\ tasks' = Put(tasks, t, NewTask(s))
  /\ attempts' = [attempts EXCEPT ![t] = 0]
  /\ UNCHANGED <<nodes, snapshot, unhandled>>

Progress(t, result) ==
  /\ t \in DOMAIN tasks
  /\ tasks' = [tasks EXCEPT ![t] = OnResult(tasks[t], result)]
  /\ UNCHANGED <<nodes, snapshot, attempts, unhandled>>

HandleNodeFailure(n) ==
  /\ tasks' = [t \in DOMAIN tasks |->
                 IF tasks[t].state = "Running" /\ tasks[t].node = n
                 THEN NodeLost(tasks[t]) ELSE tasks[t]]
  /\ unhandled' = unhandled \ {n}
  /\ UNCHANGED <<nodes, snapshot, attempts>>

Idle(d) == DOMAIN snapshot[d] = {}

(* dispatch_pending_tasks up to its early return *)
ListNodes(d) ==
  /\ Idle(d)
  /\ DOMAIN nodes # {}
  /\ snapshot' = [snapshot EXCEPT ![d] = nodes]
  /\ UNCHANGED <<nodes, tasks, attempts, unhandled>>

Assign(d, target) ==
  /\ tasks' = [t \in DOMAIN tasks |->
                 IF t \in DOMAIN target
                 THEN [tasks[t] EXCEPT !.state = "Running", !.node = target[t]]
                 ELSE tasks[t]]
  /\ attempts' = [t \in TaskId |-> IF t \in DOMAIN target THEN attempts[t] + 1
                                                          ELSE attempts[t]]
  /\ snapshot' = [snapshot EXCEPT ![d] = EmptyMap]
  /\ UNCHANGED <<nodes, unhandled>>

AssignPending(d) ==
  /\ ~ Idle(d)
  /\ \E target \in Targets(snapshot[d]) : Assign(d, target)

Next == \/ \E n \in NodeId, profile \in Profiles : Register(n, profile)
        \/ \E n \in NodeId, profile \in Profiles : AuthenticateAndRegister(n, profile)
        \/ \E n \in NodeId : Unregister(n)
        \/ \E now \in Clock : EvictOffline(now)
        \/ \E t \in TaskId, s \in Submissions : Submit(t, s)
        \/ \E t \in TaskId, result \in ExecutionResult : Progress(t, result)
        \/ \E n \in NodeId : HandleNodeFailure(n)
        \/ \E d \in Dispatcher : ListNodes(d)
        \/ \E d \in Dispatcher : AssignPending(d)

Spec == Init /\ [][Next]_vars
------------------------------------------------------------------------------
(* Properties *)

(* Every map holds values of its type, and a task has an assignee exactly  *)
(* while it is Running (in the code the node is a field of that variant).  *)
TypeOK ==
  /\ DOMAIN nodes \subseteq NodeId /\ nodes \in [DOMAIN nodes -> Profiles]
  /\ DOMAIN tasks \subseteq TaskId /\ tasks \in [DOMAIN tasks -> Task]
  /\ \A t \in DOMAIN tasks : tasks[t].node # NoNode <=> tasks[t].state = "Running"
  /\ DOMAIN snapshot = Dispatcher
  /\ \A d \in Dispatcher : /\ DOMAIN snapshot[d] \subseteq NodeId
                           /\ snapshot[d] \in [DOMAIN snapshot[d] -> Profiles]
  /\ attempts \in [TaskId -> Nat]
  /\ unhandled \subseteq NodeId

(* max_retries bounds the executions of a submitted task: through any      *)
(* sequence of failures, late results and racing passes it is dispatched   *)
(* at most max_retries + 1 times.                                          *)
AttemptsBounded ==
  \A t \in DOMAIN tasks : attempts[t] <= tasks[t].maxRetries + 1

(* Its inductive form: each dispatch but the last was paid for by a retry. *)
AttemptsPaidFor ==
  \A t \in DOMAIN tasks :
    /\ tasks[t].retry <= tasks[t].maxRetries
    /\ attempts[t] <= tasks[t].retry + (IF tasks[t].state = "Pending" THEN 0 ELSE 1)

(* The two places that decide what the loss of a node means for a task     *)
(* agree: the verdict of schedule_task on an absent node, fed to           *)
(* update_task_progress, leaves the task as handle_node_failure would.     *)
RecoveryAgrees ==
  \A t \in DOMAIN tasks, n \in NodeId \ DOMAIN nodes, p \in Payload :
    tasks[t].state = "Running" /\ tasks[t].node = n
      => OnResult(tasks[t], ScheduleTask(nodes, tasks[t], n, p)) = NodeLost(tasks[t])

(* A task that is put back in the queue resumes from its last checkpoint:  *)
(* the step that consumes a retry changes neither payload nor what the     *)
(* task asks for.                                                          *)
RecoveryKeepsCheckpoint ==
  [][\A t \in DOMAIN tasks \cap DOMAIN tasks' :
       tasks'[t].retry > tasks[t].retry
         => /\ tasks'[t].payload = tasks[t].payload
            /\ tasks'[t].type = tasks[t].type
            /\ tasks'[t].required = tasks[t].required]_vars

(* The tasks a step starts, and the load it puts on a node *)
Started == {t \in DOMAIN tasks \cap DOMAIN tasks' :
              tasks[t].state = "Pending" /\ tasks'[t].state = "Running"}
Load(n) == Cardinality({t \in Started : tasks'[t].node = n})

(* One pass over tasks that the same nodes can run spreads them evenly.    *)
BalancedPass ==
  [][\A d \in Dispatcher :
       LET seen == snapshot[d]
           C == UNION {Capable(seen, tasks[t]) : t \in Started}
       IN  (snapshot'[d] # seen /\ \A t \in Started : Capable(seen, tasks[t]) = C)
             => \A m, n \in C : Load(m) <= Load(n) + 1]_vars

(* Running tasks whose node is gone and whose failure was handled already *)
Orphans == {t \in DOMAIN tasks : /\ tasks[t].state = "Running"
                                 /\ tasks[t].node \notin DOMAIN nodes \cup unhandled}

(* ADR-003 promises that the tasks of a departed node are rescheduled.     *)
(* handle_node_failure sees to that whatever the tasks went through: only  *)
(* a pass whose registry snapshot still holds the node can hand it a task  *)
(* afterwards, which then stays Running with no one to notice.             *)
OrphansAreStalePasses ==
  [][\A t \in Orphans' \ Orphans :
       \E d \in Dispatcher : /\ tasks'[t].node \in DOMAIN snapshot[d]
                             /\ snapshot'[d] # snapshot[d]]_vars
------------------------------------------------------------------------------
(* Scheduler implements RetryBudget *)

AbsPhase == [t \in TaskId |->
  IF t \notin DOMAIN tasks THEN "none"
  ELSE CASE tasks[t].state = "Pending" -> "waiting"
         [] tasks[t].state = "Running" -> "started"
         [] OTHER -> "settled"]
AbsBudget == [t \in TaskId |->
  IF t \notin DOMAIN tasks THEN 0 ELSE tasks[t].maxRetries - tasks[t].retry]

Promise == INSTANCE RetryBudget
             WITH Budgets <- {s.maxRetries : s \in Submissions},
                  phase <- AbsPhase, budget <- AbsBudget

(* Every behaviour of the scheduler is one of RetryBudget: a dispatch is a *)
(* start of waiting tasks, a retry by either path costs one unit.          *)
KeepsPromise == Promise!Spec
==============================================================================
