--------------------------- MODULE SchedulerProofs ---------------------------
(***************************************************************************)
(* Theorems about Scheduler, for any sets of nodes, tasks, capabilities,   *)
(* payloads and dispatching threads.  The inductive invariant is TypeOK    *)
(* with AttemptsPaidFor; the lemmas say what the operators on one task     *)
(* do, the steps of the proofs only carry them to the task map.            *)
(***************************************************************************)
EXTENDS Scheduler, TLAPS

(* A task of the map, as TypeOK describes it *)
WellFormed(task) == task \in Task /\ (task.node # NoNode <=> task.state = "Running")

(* What AttemptsPaidFor says of one task dispatched a times *)
PaidFor(task, a) ==
  /\ task.retry <= task.maxRetries
  /\ a <= task.retry + (IF task.state = "Pending" THEN 0 ELSE 1)
------------------------------------------------------------------------------
(* Task::new yields a Pending task without an assignee and with no retry used. *)
LEMMA NewTaskFacts ==
  ASSUME NEW s \in Submissions
  PROVE  WellFormed(NewTask(s)) /\ PaidFor(NewTask(s), 0)
BY SubmissionAssumption DEF WellFormed, PaidFor, NewTask, Task, TaskState

(* The failure that ends a task keeps what it asks for and its payload. *)
LEMMA FailedFacts ==
  ASSUME NEW task, WellFormed(task)
  PROVE  /\ WellFormed(Settle(task, "Failed"))
         /\ Settle(task, "Failed").state = "Failed"
         /\ Settle(task, "Failed").retry = task.retry
         /\ Settle(task, "Failed").maxRetries = task.maxRetries
         /\ Settle(task, "Failed").payload = task.payload
         /\ Settle(task, "Failed").type = task.type
         /\ Settle(task, "Failed").required = task.required
BY DEF WellFormed, Settle, Task, TaskState

(* A retry either consumes one unit of the budget and queues the task      *)
(* again with its payload, or fails it with the budget used up.            *)
LEMMA RetryFacts ==
  ASSUME NEW task, WellFormed(task)
  PROVE  /\ WellFormed(Retry(task))
         /\ Retry(task).maxRetries = task.maxRetries
         /\ Retry(task).payload = task.payload
         /\ Retry(task).type = task.type
         /\ Retry(task).required = task.required
         /\ \/ /\ task.retry < task.maxRetries
               /\ Retry(task).retry = task.retry + 1 /\ Retry(task).state = "Pending"
            \/ Retry(task).retry = task.retry /\ Retry(task).state = "Failed"
<1>1. CASE task.retry < task.maxRetries
  <2> DEFINE again == [task EXCEPT !.state = "Pending", !.node = NoNode, !.retry = @ + 1]
  <2>1. Retry(task) = again
    BY <1>1 DEF Retry
  <2>2. task \in Task /\ task.retry + 1 \in Nat
    BY DEF WellFormed, Task
  <2>3. again \in Task
    BY <2>2 DEF Task, TaskState
  <2>4. /\ again.state = "Pending" /\ again.node = NoNode /\ again.retry = task.retry + 1
        /\ again.maxRetries = task.maxRetries /\ again.payload = task.payload
        /\ again.type = task.type /\ again.required = task.required
    BY <2>2 DEF Task
  <2> QED
    BY <1>1, <2>1, <2>3, <2>4 DEF WellFormed
<1>2. CASE ~ (task.retry < task.maxRetries)
  <2>1. Retry(task) = Settle(task, "Failed")
    BY <1>2 DEF Retry
  <2> QED
    BY <2>1, FailedFacts
<1> QED
  BY <1>1, <1>2

(* What any report does to a task *)
LEMMA OnResultFacts ==
  ASSUME NEW task, WellFormed(task), NEW result \in ExecutionResult
  PROVE  /\ WellFormed(OnResult(task, result))
         /\ OnResult(task, result).maxRetries = task.maxRetries
         /\ OnResult(task, result).type = task.type
         /\ OnResult(task, result).required = task.required
         /\ \/ OnResult(task, result).retry = task.retry
               /\ OnResult(task, result).state \in {task.state, "Completed", "Failed"}
            \/ /\ task.retry < task.maxRetries
               /\ OnResult(task, result).retry = task.retry + 1
               /\ OnResult(task, result).state = "Pending"
               /\ OnResult(task, result).payload = task.payload
<1>1. CASE result = Success
  <2>1. OnResult(task, result) = Settle(task, "Completed")
    BY <1>1 DEF OnResult, Success
  <2> QED
    BY <2>1 DEF WellFormed, Settle, Task, TaskState
<1>2. CASE result = RetryNeeded
  BY <1>2, RetryFacts DEF OnResult, RetryNeeded
<1>3. CASE result = ImmediateFailure
  <2>1. OnResult(task, result) = Settle(task, "Failed")
    BY <1>3 DEF OnResult, ImmediateFailure
  <2> QED
    BY <2>1, FailedFacts
<1>4. ASSUME NEW p \in Payload, result = CheckpointSaved(p)
      PROVE  OnResult(task, result) = [task EXCEPT !.payload = p]
  BY <1>4 DEF OnResult, CheckpointSaved
<1>5. ASSUME NEW p \in Payload, result = CheckpointSaved(p)
      PROVE  /\ WellFormed(OnResult(task, result))
             /\ OnResult(task, result).maxRetries = task.maxRetries
             /\ OnResult(task, result).type = task.type
             /\ OnResult(task, result).required = task.required
             /\ OnResult(task, result).retry = task.retry
             /\ OnResult(task, result).state = task.state
  BY <1>4, <1>5 DEF WellFormed, Task
<1> QED
  BY <1>1, <1>2, <1>3, <1>5 DEF ExecutionResult

(* What the loss of its node does to a task *)
LEMMA NodeLostFacts ==
  ASSUME NEW task, WellFormed(task)
  PROVE  /\ WellFormed(NodeLost(task))
         /\ NodeLost(task).maxRetries = task.maxRetries
         /\ NodeLost(task).payload = task.payload
         /\ NodeLost(task).type = task.type
         /\ NodeLost(task).required = task.required
         /\ \/ NodeLost(task).retry = task.retry /\ NodeLost(task).state = "Failed"
            \/ /\ task.retry < task.maxRetries
               /\ NodeLost(task).retry = task.retry + 1
               /\ NodeLost(task).state = "Pending"
<1>1. CASE task.type = "InteractiveLowLatency"
  <2>1. NodeLost(task) = Settle(task, "Failed")
    BY <1>1 DEF NodeLost
  <2> QED
    BY <2>1, FailedFacts
<1>2. CASE task.type # "InteractiveLowLatency"
  <2>1. NodeLost(task) = Retry(task)
    BY <1>2 DEF NodeLost
  <2> QED
    BY <2>1, RetryFacts
<1> QED
  BY <1>1, <1>2

(* A pass assigns only dispatchable tasks, each to a capable node it saw. *)
LEMMA TargetFacts ==
  ASSUME NEW seen, NEW target \in Targets(seen)
  PROVE  /\ DOMAIN target = Dispatchable(seen)
         /\ \A t \in DOMAIN target : /\ t \in DOMAIN tasks
                                     /\ tasks[t].state = "Pending"
                                     /\ target[t] \in Capable(seen, tasks[t])
                                     /\ target[t] \in DOMAIN seen
BY DEF Targets, Dispatchable, Capable
------------------------------------------------------------------------------
(* The invariant in the form the steps use: one statement per task *)
TasksOK ==
  /\ DOMAIN tasks \subseteq TaskId
  /\ tasks = [t \in DOMAIN tasks |-> tasks[t]]
  /\ \A t \in DOMAIN tasks : WellFormed(tasks[t])
  /\ \A t \in DOMAIN tasks : PaidFor(tasks[t], attempts[t])
  /\ attempts \in [TaskId -> Nat]

RegistryOK ==
  /\ DOMAIN nodes \subseteq NodeId /\ nodes \in [DOMAIN nodes -> Profiles]
  /\ DOMAIN snapshot = Dispatcher
  /\ \A d \in Dispatcher : /\ DOMAIN snapshot[d] \subseteq NodeId
                           /\ snapshot[d] \in [DOMAIN snapshot[d] -> Profiles]
  /\ unhandled \subseteq NodeId

IInv == TypeOK /\ AttemptsPaidFor

LEMMA IInvParts == IInv <=> TasksOK /\ RegistryOK
BY DEF IInv, TypeOK, AttemptsPaidFor, TasksOK, RegistryOK, WellFormed, PaidFor

LEMMA InitOK == Init => TasksOK /\ RegistryOK
<1> SUFFICES ASSUME Init PROVE TasksOK /\ RegistryOK
  OBVIOUS
<1>1. DOMAIN EmptyMap = {}
  BY DEF EmptyMap
<1>2. TasksOK
  BY <1>1 DEF Init, EmptyMap, TasksOK
<1>3. RegistryOK
  BY <1>1 DEF Init, EmptyMap, RegistryOK
<1> QED
  BY <1>2, <1>3

(* Actions that leave the task map alone *)
LEMMA TasksStutter == TasksOK /\ UNCHANGED <<tasks, attempts>> => TasksOK'
BY DEF TasksOK, PaidFor

(* Actions that leave the registry and its copies alone *)
LEMMA RegistryStutter == RegistryOK /\ UNCHANGED <<nodes, snapshot, unhandled>> => RegistryOK'
BY DEF RegistryOK

LEMMA RetainOK ==
  ASSUME TasksOK, RegistryOK, NEW kept, kept \subseteq DOMAIN nodes, Retain(kept)
  PROVE  TasksOK' /\ RegistryOK'
<1>1. TasksOK'
  BY TasksStutter DEF Retain
<1>2. DOMAIN nodes' = kept /\ nodes' \in [kept -> Profiles]
  BY DEF Retain, Restrict, RegistryOK
<1>3. RegistryOK'
  BY <1>2 DEF Retain, RegistryOK
<1> QED
  BY <1>1, <1>3

LEMMA RegisterOK ==
  ASSUME TasksOK, RegistryOK, NEW n \in NodeId, NEW p \in Profiles, Register(n, p)
  PROVE  TasksOK' /\ RegistryOK'
<1>1. TasksOK'
  BY TasksStutter DEF Register
<1>2. DOMAIN nodes' = DOMAIN nodes \cup {n} /\ nodes' \in [DOMAIN nodes' -> Profiles]
  BY DEF Register, Put, RegistryOK
<1>3. RegistryOK'
  BY <1>2 DEF Register, RegistryOK
<1> QED
  BY <1>1, <1>3

LEMMA SubmitOK ==
  ASSUME TasksOK, RegistryOK, NEW t \in TaskId, NEW s \in Submissions, Submit(t, s)
  PROVE  TasksOK' /\ RegistryOK'
<1>1. RegistryOK'
  BY RegistryStutter DEF Submit
<1>2. /\ DOMAIN tasks' = DOMAIN tasks \cup {t}
      /\ tasks' = [k \in DOMAIN tasks' |-> tasks'[k]]
      /\ tasks'[t] = NewTask(s)
      /\ \A k \in DOMAIN tasks \ {t} : tasks'[k] = tasks[k]
  BY DEF Submit, Put
<1>3. attempts' \in [TaskId -> Nat] /\ attempts'[t] = 0
      /\ \A k \in TaskId \ {t} : attempts'[k] = attempts[k]
  BY DEF Submit, TasksOK
<1>4. ASSUME NEW k \in DOMAIN tasks'
      PROVE  WellFormed(tasks'[k]) /\ PaidFor(tasks'[k], attempts'[k])
  <2>1. CASE k = t
    BY <2>1, <1>2, <1>3, NewTaskFacts
  <2>2. CASE k # t
    BY <2>2, <1>2, <1>3, <1>4 DEF TasksOK
  <2> QED
    BY <2>1, <2>2
<1>5. TasksOK'
  BY <1>2, <1>3, <1>4 DEF TasksOK
<1> QED
  BY <1>1, <1>5

LEMMA ProgressOK ==
  ASSUME TasksOK, RegistryOK, NEW t \in TaskId, NEW result \in ExecutionResult,
         Progress(t, result)
  PROVE  TasksOK' /\ RegistryOK'
<1>1. RegistryOK'
  BY RegistryStutter DEF Progress
<1>2. /\ t \in DOMAIN tasks /\ DOMAIN tasks' = DOMAIN tasks
      /\ tasks' = [k \in DOMAIN tasks' |-> tasks'[k]]
      /\ tasks'[t] = OnResult(tasks[t], result)
      /\ \A k \in DOMAIN tasks \ {t} : tasks'[k] = tasks[k]
      /\ attempts' = attempts
  BY DEF Progress, TasksOK
<1>3. WellFormed(tasks[t]) /\ PaidFor(tasks[t], attempts[t]) /\ attempts[t] \in Nat
  BY <1>2 DEF TasksOK
<1>4. WellFormed(OnResult(tasks[t], result))
  BY <1>3, OnResultFacts
<1>5. PaidFor(OnResult(tasks[t], result), attempts[t])
  BY <1>3, OnResultFacts DEF PaidFor, WellFormed, Task
<1>6. TasksOK'
  BY <1>2, <1>4, <1>5 DEF TasksOK
<1> QED
  BY <1>1, <1>6

LEMMA HandleNodeFailureOK ==
  ASSUME TasksOK, RegistryOK, NEW n \in NodeId, HandleNodeFailure(n)
  PROVE  TasksOK' /\ RegistryOK'
<1>1. RegistryOK'
  BY DEF HandleNodeFailure, RegistryOK
<1>2. /\ DOMAIN tasks' = DOMAIN tasks
      /\ tasks' = [k \in DOMAIN tasks' |-> tasks'[k]]
      /\ \A k \in DOMAIN tasks : \/ tasks'[k] = tasks[k]
                                 \/ tasks'[k] = NodeLost(tasks[k]) /\ tasks[k].state = "Running"
      /\ attempts' = attempts
  BY DEF HandleNodeFailure
<1>3. ASSUME NEW k \in DOMAIN tasks, tasks[k].state = "Running"
      PROVE  WellFormed(NodeLost(tasks[k])) /\ PaidFor(NodeLost(tasks[k]), attempts[k])
  <2>1. WellFormed(tasks[k]) /\ PaidFor(tasks[k], attempts[k]) /\ attempts[k] \in Nat
    BY DEF TasksOK
  <2> QED
    BY <1>3, <2>1, NodeLostFacts DEF PaidFor, WellFormed, Task
<1>4. TasksOK'
  BY <1>2, <1>3 DEF TasksOK
<1> QED
  BY <1>1, <1>4

LEMMA AssignPendingOK ==
  ASSUME TasksOK, RegistryOK, NEW d \in Dispatcher, AssignPending(d)
  PROVE  TasksOK' /\ RegistryOK'
<1>1. PICK target \in Targets(snapshot[d]) : Assign(d, target)
  BY DEF AssignPending
<1>2. DOMAIN EmptyMap = {} /\ EmptyMap \in [{} -> Profiles]
  BY DEF EmptyMap
<1>3. RegistryOK'
  BY <1>1, <1>2 DEF Assign, RegistryOK
<1>4. /\ DOMAIN tasks' = DOMAIN tasks
      /\ tasks' = [k \in DOMAIN tasks' |-> tasks'[k]]
      /\ \A k \in DOMAIN tasks \ DOMAIN target : tasks'[k] = tasks[k]
      /\ \A k \in DOMAIN tasks \cap DOMAIN target :
           tasks'[k] = [tasks[k] EXCEPT !.state = "Running", !.node = target[k]]
  BY <1>1 DEF Assign
<1>5. /\ attempts' \in [TaskId -> Nat]
      /\ \A k \in TaskId \ DOMAIN target : attempts'[k] = attempts[k]
      /\ \A k \in TaskId \cap DOMAIN target : attempts'[k] = attempts[k] + 1
  <2>1. attempts' = [k \in TaskId |-> IF k \in DOMAIN target THEN attempts[k] + 1
                                                             ELSE attempts[k]]
    BY <1>1 DEF Assign
  <2>2. \A k \in TaskId : attempts[k] \in Nat /\ attempts[k] + 1 \in Nat
    BY DEF TasksOK
  <2>3. attempts' \in [TaskId -> Nat]
    BY <2>1, <2>2
  <2> QED
    BY <2>1, <2>3
<1>6. ASSUME NEW k \in DOMAIN tasks \cap DOMAIN target
      PROVE  WellFormed(tasks'[k]) /\ PaidFor(tasks'[k], attempts'[k])
  <2>1. WellFormed(tasks[k]) /\ PaidFor(tasks[k], attempts[k]) /\ attempts[k] \in Nat
    BY DEF TasksOK
  <2>2. tasks[k].state = "Pending" /\ target[k] \in NodeId
    BY <1>1, TargetFacts DEF RegistryOK
  <2>3. target[k] # NoNode
    BY <2>2, NodeAssumption
  <2>4. WellFormed(tasks'[k])
    <3>1. tasks'[k] = [tasks[k] EXCEPT !.state = "Running", !.node = target[k]]
      BY <1>4
    <3>2. tasks[k] \in Task /\ "Running" \in TaskState
      BY <2>1 DEF WellFormed, TaskState
    <3>3. tasks'[k] \in Task /\ tasks'[k].state = "Running" /\ tasks'[k].node = target[k]
      BY <2>2, <3>1, <3>2 DEF Task
    <3> QED
      BY <2>3, <3>3 DEF WellFormed
  <2>5. PaidFor(tasks'[k], attempts'[k])
    <3>1. tasks'[k].retry = tasks[k].retry /\ tasks'[k].maxRetries = tasks[k].maxRetries
          /\ tasks'[k].state = "Running" /\ tasks[k].retry \in Nat
      BY <1>4, <2>1 DEF WellFormed, Task
    <3>2. attempts'[k] = attempts[k] + 1
      BY <1>5 DEF TasksOK
    <3> QED
      BY <2>1, <2>2, <3>1, <3>2 DEF PaidFor
  <2> QED
    BY <2>4, <2>5
<1>7. TasksOK'
  BY <1>4, <1>6, <1>5 DEF TasksOK
<1> QED
  BY <1>3, <1>7

LEMMA ListNodesOK ==
  ASSUME TasksOK, RegistryOK, NEW d \in Dispatcher, ListNodes(d)
  PROVE  TasksOK' /\ RegistryOK'
<1>1. TasksOK'
  BY TasksStutter DEF ListNodes
<1>2. RegistryOK'
  BY DEF ListNodes, RegistryOK
<1> QED
  BY <1>1, <1>2

(* Every step of the scheduler preserves the invariant. *)
LEMMA NextOK == TasksOK /\ RegistryOK /\ [Next]_vars => TasksOK' /\ RegistryOK'
<1> SUFFICES ASSUME TasksOK, RegistryOK, [Next]_vars PROVE TasksOK' /\ RegistryOK'
  OBVIOUS
<1>1. ASSUME NEW n \in NodeId, NEW p \in Profiles, Register(n, p)
      PROVE  TasksOK' /\ RegistryOK'
  BY <1>1, RegisterOK
<1>0. ASSUME NEW n \in NodeId, NEW p \in Profiles, AuthenticateAndRegister(n, p)
      PROVE  TasksOK' /\ RegistryOK'
  BY <1>0, RegisterOK DEF AuthenticateAndRegister
<1>2. ASSUME NEW n \in NodeId, Unregister(n) PROVE TasksOK' /\ RegistryOK'
  BY <1>2, RetainOK DEF Unregister
<1>3. ASSUME NEW now \in Clock, EvictOffline(now) PROVE TasksOK' /\ RegistryOK'
  BY <1>3, RetainOK DEF EvictOffline
<1>4. ASSUME NEW t \in TaskId, NEW s \in Submissions, Submit(t, s)
      PROVE  TasksOK' /\ RegistryOK'
  BY <1>4, SubmitOK
<1>5. ASSUME NEW t \in TaskId, NEW r \in ExecutionResult, Progress(t, r)
      PROVE  TasksOK' /\ RegistryOK'
  BY <1>5, ProgressOK
<1>6. ASSUME NEW n \in NodeId, HandleNodeFailure(n) PROVE TasksOK' /\ RegistryOK'
  BY <1>6, HandleNodeFailureOK
<1>7. ASSUME NEW d \in Dispatcher, ListNodes(d) PROVE TasksOK' /\ RegistryOK'
  BY <1>7, ListNodesOK
<1>8. ASSUME NEW d \in Dispatcher, AssignPending(d) PROVE TasksOK' /\ RegistryOK'
  BY <1>8, AssignPendingOK
<1>9. CASE UNCHANGED vars
  BY <1>9, TasksStutter, RegistryStutter DEF vars
<1> QED
  BY <1>0, <1>1, <1>2, <1>3, <1>4, <1>5, <1>6, <1>7, <1>8, <1>9 DEF Next

(* TypeOK and AttemptsPaidFor together are inductive. *)
LEMMA Invariance == Spec => []IInv
<1>1. Init => IInv
  BY InitOK, IInvParts
<1>2. IInv /\ [Next]_vars => IInv'
  <2>1. TasksOK' /\ RegistryOK' => IInv'
    BY IInvParts, PTL
  <2> QED
    BY <2>1, NextOK, IInvParts
<1> QED
  BY <1>1, <1>2, PTL DEF Spec

(* The registry and the task map keep their types, and a task has an       *)
(* assignee exactly while it is Running.                                   *)
THEOREM TypeCorrect == Spec => []TypeOK
<1>1. IInv => TypeOK
  BY DEF IInv
<1> QED
  BY <1>1, Invariance, PTL

(* Every dispatch of a task but the last was paid for by a retry. *)
THEOREM AttemptsArePaidFor == Spec => []AttemptsPaidFor
<1>1. IInv => AttemptsPaidFor
  BY DEF IInv
<1> QED
  BY <1>1, Invariance, PTL

(* No task is dispatched more than max_retries + 1 times. *)
THEOREM AttemptsAreBounded == Spec => []AttemptsBounded
<1>1. IInv => AttemptsBounded
  <2> SUFFICES ASSUME IInv, NEW t \in DOMAIN tasks
               PROVE  attempts[t] <= tasks[t].maxRetries + 1
    BY DEF AttemptsBounded
  <2>1. WellFormed(tasks[t]) /\ PaidFor(tasks[t], attempts[t]) /\ attempts[t] \in Nat
    BY IInvParts DEF TasksOK
  <2> QED
    BY <2>1 DEF PaidFor, WellFormed, Task
<1> QED
  BY <1>1, Invariance, PTL
------------------------------------------------------------------------------
(* schedule_task and handle_node_failure agree on what losing a node means. *)
THEOREM RecoveryPathsAgree == Spec => []RecoveryAgrees
<1>1. IInv => RecoveryAgrees
  <2> SUFFICES ASSUME IInv, NEW t \in DOMAIN tasks, NEW n \in NodeId \ DOMAIN nodes,
                      NEW p \in Payload, tasks[t].state = "Running", tasks[t].node = n
               PROVE  OnResult(tasks[t], ScheduleTask(nodes, tasks[t], n, p))
                        = NodeLost(tasks[t])
    BY DEF RecoveryAgrees
  <2>1. CASE tasks[t].type = "InteractiveLowLatency"
    BY <2>1 DEF OnResult, ScheduleTask, NodeLost, ImmediateFailure
  <2>2. CASE tasks[t].type # "InteractiveLowLatency"
    BY <2>2 DEF OnResult, ScheduleTask, NodeLost, RetryNeeded
  <2> QED
    BY <2>1, <2>2
<1> QED
  BY <1>1, Invariance, PTL
------------------------------------------------------------------------------
(* What a step does to a task that stays in the map *)
Unharmed(t) ==
  tasks'[t].retry > tasks[t].retry => /\ tasks'[t].payload = tasks[t].payload
                                      /\ tasks'[t].type = tasks[t].type
                                      /\ tasks'[t].required = tasks[t].required

LEMMA UnharmedStep ==
  ASSUME TasksOK, [Next]_vars, NEW t \in DOMAIN tasks \cap DOMAIN tasks'
  PROVE  Unharmed(t)
<1>1. WellFormed(tasks[t]) /\ tasks[t].retry \in Nat
  BY DEF TasksOK, WellFormed, Task
<1>2. CASE tasks'[t] = tasks[t]
  BY <1>1, <1>2 DEF Unharmed
<1>3. ASSUME NEW k \in TaskId, NEW s \in Submissions, Submit(k, s) PROVE Unharmed(t)
  <2>1. CASE k = t
    BY <1>1, <1>3, <2>1 DEF Submit, Put, NewTask, Unharmed
  <2>2. CASE k # t
    BY <1>2, <1>3, <2>2 DEF Submit, Put
  <2> QED
    BY <2>1, <2>2
<1>4. ASSUME NEW k \in TaskId, NEW r \in ExecutionResult, Progress(k, r) PROVE Unharmed(t)
  <2>1. CASE k = t
    <3>1. tasks'[t] = OnResult(tasks[t], r)
      BY <1>4, <2>1 DEF Progress
    <3> QED
      BY <1>1, <3>1, OnResultFacts DEF Unharmed
  <2>2. CASE k # t
    BY <1>2, <1>4, <2>2 DEF Progress
  <2> QED
    BY <2>1, <2>2
<1>5. ASSUME NEW n \in NodeId, HandleNodeFailure(n) PROVE Unharmed(t)
  <2>1. CASE tasks'[t] = NodeLost(tasks[t])
    BY <1>1, <2>1, NodeLostFacts DEF Unharmed
  <2> QED
    BY <1>2, <1>5, <2>1 DEF HandleNodeFailure
<1>6. ASSUME NEW d \in Dispatcher, AssignPending(d) PROVE Unharmed(t)
  <2>1. PICK target \in Targets(snapshot[d]) : Assign(d, target)
    BY <1>6 DEF AssignPending
  <2>2. CASE t \in DOMAIN target
    <3>1. tasks'[t] = [tasks[t] EXCEPT !.state = "Running", !.node = target[t]]
      BY <2>1, <2>2 DEF Assign
    <3>2. tasks'[t].retry = tasks[t].retry
      BY <1>1, <3>1 DEF WellFormed, Task
    <3> QED
      BY <1>1, <3>2 DEF Unharmed
  <2>3. CASE t \notin DOMAIN target
    BY <1>2, <2>1, <2>3 DEF Assign
  <2> QED
    BY <2>2, <2>3
<1>7. CASE UNCHANGED tasks
  BY <1>2, <1>7
<1> QED
  BY <1>3, <1>4, <1>5, <1>6, <1>7
     DEF Next, vars, Register, AuthenticateAndRegister, Unregister, EvictOffline, Retain, ListNodes

(* A retry, by either recovery path, resumes from the last checkpoint. *)
THEOREM RetriesKeepCheckpoints == Spec => RecoveryKeepsCheckpoint
<1>1. ASSUME IInv, [Next]_vars
      PROVE  [\A t \in DOMAIN tasks \cap DOMAIN tasks' : Unharmed(t)]_vars
  BY <1>1, IInvParts, UnharmedStep
<1>2. IInv /\ [Next]_vars
        => [\A t \in DOMAIN tasks \cap DOMAIN tasks' :
              tasks'[t].retry > tasks[t].retry
                => /\ tasks'[t].payload = tasks[t].payload
                   /\ tasks'[t].type = tasks[t].type
                   /\ tasks'[t].required = tasks[t].required]_vars
  BY <1>1 DEF Unharmed
<1> QED
  BY <1>2, Invariance, PTL DEF Spec, RecoveryKeepsCheckpoint
------------------------------------------------------------------------------
(* A step other than an assignment puts no task on a node. *)
StaysOnNode(t) ==
  tasks'[t].state = "Running"
    => t \in DOMAIN tasks /\ tasks[t].state = "Running" /\ tasks'[t].node = tasks[t].node

(* Nor does any report. *)
LEMMA ReportsKeepNode ==
  ASSUME NEW task, WellFormed(task), NEW result \in ExecutionResult,
         OnResult(task, result).state = "Running"
  PROVE  task.state = "Running" /\ OnResult(task, result).node = task.node
<1>1. CASE result = Success
  <2>1. OnResult(task, result) = Settle(task, "Completed")
    BY <1>1 DEF OnResult, Success
  <2>2. Settle(task, "Completed").state = "Completed"
    BY DEF WellFormed, Settle, Task
  <2> QED
    BY <2>1, <2>2
<1>2. CASE result = RetryNeeded
  <2>1. OnResult(task, result) = Retry(task)
    BY <1>2 DEF OnResult, RetryNeeded
  <2> QED
    BY <2>1, RetryFacts
<1>3. CASE result = ImmediateFailure
  BY <1>3, FailedFacts DEF OnResult, ImmediateFailure
<1>4. ASSUME NEW p \in Payload, result = CheckpointSaved(p)
      PROVE  task.state = "Running" /\ OnResult(task, result).node = task.node
  <2>1. OnResult(task, result) = [task EXCEPT !.payload = p]
    BY <1>4 DEF OnResult, CheckpointSaved
  <2> QED
    BY <2>1 DEF WellFormed, Task
<1> QED
  BY <1>1, <1>2, <1>3, <1>4 DEF ExecutionResult

(* What a node of the registry that is gone left behind is in unhandled. *)
LEMMA WatchedNodesStay ==
  ASSUME NEW n, n \in DOMAIN nodes \cup unhandled,
         \/ UNCHANGED <<nodes, unhandled>>
         \/ \E m \in NodeId, p \in Profiles : Register(m, p)
         \/ \E kept \in SUBSET DOMAIN nodes : Retain(kept)
  PROVE  n \in DOMAIN nodes' \cup unhandled'
<1>1. CASE UNCHANGED <<nodes, unhandled>>
  BY <1>1
<1>2. ASSUME NEW m \in NodeId, NEW p \in Profiles, Register(m, p)
      PROVE  n \in DOMAIN nodes' \cup unhandled'
  <2>1. DOMAIN nodes' = DOMAIN nodes \cup {m} /\ unhandled' = unhandled \ {m}
    BY <1>2 DEF Register, Put
  <2> QED
    BY <2>1
<1>3. ASSUME NEW kept \in SUBSET DOMAIN nodes, Retain(kept)
      PROVE  n \in DOMAIN nodes' \cup unhandled'
  <2>1. DOMAIN nodes' = kept /\ unhandled' = unhandled \cup (DOMAIN nodes \ kept)
    BY <1>3 DEF Retain, Restrict
  <2> QED
    BY <2>1
<1> QED
  BY <1>1, <1>2, <1>3

(* Steps that neither assign nor handle a failure create no orphan. *)
LEMMA NoNewOrphan ==
  ASSUME NEW t \in Orphans', StaysOnNode(t),
         \/ UNCHANGED <<nodes, unhandled>>
         \/ \E m \in NodeId, p \in Profiles : Register(m, p)
         \/ \E kept \in SUBSET DOMAIN nodes : Retain(kept)
  PROVE  t \in Orphans
<1>1. /\ t \in DOMAIN tasks /\ tasks[t].state = "Running"
      /\ tasks'[t].node = tasks[t].node
      /\ tasks'[t].node \notin DOMAIN nodes' \cup unhandled'
  BY DEF Orphans, StaysOnNode
<1>2. tasks[t].node \notin DOMAIN nodes \cup unhandled
  BY <1>1, WatchedNodesStay
<1> QED
  BY <1>1, <1>2 DEF Orphans

LEMMA OrphanStep ==
  ASSUME TasksOK, RegistryOK, [Next]_vars, NEW t \in Orphans' \ Orphans
  PROVE  \E d \in Dispatcher : /\ tasks'[t].node \in DOMAIN snapshot[d]
                               /\ snapshot'[d] # snapshot[d]
<1> DEFINE Goal == \E d \in Dispatcher : /\ tasks'[t].node \in DOMAIN snapshot[d]
                                         /\ snapshot'[d] # snapshot[d]
<1>0. t \in DOMAIN tasks' /\ tasks'[t].state = "Running"
  BY DEF Orphans
<1>1. ASSUME UNCHANGED tasks,
             \/ UNCHANGED <<nodes, unhandled>>
             \/ \E m \in NodeId, p \in Profiles : Register(m, p)
             \/ \E kept \in SUBSET DOMAIN nodes : Retain(kept)
      PROVE  Goal
  BY <1>0, <1>1, NoNewOrphan DEF StaysOnNode
<1>2. ASSUME NEW k \in TaskId, NEW s \in Submissions, Submit(k, s) PROVE Goal
  <2>1. t # k
    BY <1>0, <1>2 DEF Submit, Put, NewTask
  <2>2. t \in DOMAIN tasks /\ tasks'[t] = tasks[t]
    BY <1>0, <1>2, <2>1 DEF Submit, Put
  <2> QED
    BY <1>2, <2>2, NoNewOrphan DEF StaysOnNode, Submit
<1>3. ASSUME NEW k \in TaskId, NEW r \in ExecutionResult, Progress(k, r) PROVE Goal
  <2>1. DOMAIN tasks' = DOMAIN tasks /\ t \in DOMAIN tasks
    BY <1>0, <1>3 DEF Progress
  <2>2. WellFormed(tasks[t])
    BY <2>1 DEF TasksOK
  <2>3. tasks'[t] = IF t = k THEN OnResult(tasks[t], r) ELSE tasks[t]
    BY <1>3, <2>1 DEF Progress
  <2>4. StaysOnNode(t)
    BY <1>0, <2>1, <2>2, <2>3, ReportsKeepNode DEF StaysOnNode
  <2> QED
    BY <1>3, <2>4, NoNewOrphan DEF Progress
<1>4. ASSUME NEW n \in NodeId, HandleNodeFailure(n) PROVE Goal
  <2>1. t \in DOMAIN tasks /\ WellFormed(tasks[t])
    BY <1>0, <1>4 DEF HandleNodeFailure, TasksOK
  <2>2. ~ (tasks[t].state = "Running" /\ tasks[t].node = n)
    <3>1. NodeLost(tasks[t]).state # "Running"
      BY <2>1, NodeLostFacts
    <3> QED
      BY <1>0, <1>4, <2>1, <3>1 DEF HandleNodeFailure
  <2>3. tasks'[t] = tasks[t] /\ nodes' = nodes /\ unhandled' = unhandled \ {n}
    BY <1>4, <2>1, <2>2 DEF HandleNodeFailure
  <2>4. tasks[t].state = "Running" /\ tasks[t].node # n
        /\ tasks[t].node \notin DOMAIN nodes \cup (unhandled \ {n})
    BY <1>0, <2>2, <2>3 DEF Orphans
  <2>5. t \in Orphans
    BY <2>1, <2>4 DEF Orphans
  <2> QED
    BY <2>5
<1>5. ASSUME NEW d \in Dispatcher, AssignPending(d) PROVE Goal
  <2>1. PICK target \in Targets(snapshot[d]) : Assign(d, target)
    BY <1>5 DEF AssignPending
  <2>2. CASE t \in DOMAIN target
    <3>1. t \in DOMAIN tasks /\ tasks[t] \in Task /\ target[t] \in DOMAIN snapshot[d]
      BY <2>1, <2>2, TargetFacts DEF TasksOK, WellFormed
    <3>2. tasks'[t].node = target[t]
      BY <2>1, <2>2, <3>1 DEF Assign, Task
    <3>3. snapshot'[d] = EmptyMap
      BY <2>1 DEF Assign, RegistryOK
    <3>4. snapshot'[d] # snapshot[d]
      BY <3>1, <3>3 DEF EmptyMap
    <3> QED
      BY <3>1, <3>2, <3>4
  <2>3. CASE t \notin DOMAIN target
    <3>1. t \in DOMAIN tasks /\ tasks'[t] = tasks[t] /\ UNCHANGED <<nodes, unhandled>>
      BY <1>0, <2>1, <2>3 DEF Assign
    <3> QED
      BY <1>0, <3>1, NoNewOrphan DEF StaysOnNode
  <2> QED
    BY <2>2, <2>3
<1>6. ASSUME NEW n \in NodeId, Unregister(n) PROVE Goal
  BY <1>1, <1>6 DEF Unregister, Retain
<1>7. ASSUME NEW now \in Clock, EvictOffline(now) PROVE Goal
  BY <1>1, <1>7 DEF EvictOffline, Retain
<1>8. ASSUME NEW n \in NodeId, NEW p \in Profiles,
             Register(n, p) \/ AuthenticateAndRegister(n, p)
      PROVE  Goal
  BY <1>1, <1>8 DEF AuthenticateAndRegister, Register
<1>9. ASSUME NEW d \in Dispatcher, ListNodes(d) PROVE Goal
  BY <1>1, <1>9 DEF ListNodes
<1>10. CASE UNCHANGED vars
  BY <1>1, <1>10 DEF vars
<1> QED
  BY <1>2, <1>3, <1>4, <1>5, <1>6, <1>7, <1>8, <1>9, <1>10 DEF Next

(* Only a pass whose snapshot still holds the node hands it a task that    *)
(* nobody recovers.                                                        *)
THEOREM OrphansOnlyByStalePasses == Spec => OrphansAreStalePasses
<1>1. IInv /\ [Next]_vars
        => [\A t \in Orphans' \ Orphans :
              \E d \in Dispatcher : /\ tasks'[t].node \in DOMAIN snapshot[d]
                                    /\ snapshot'[d] # snapshot[d]]_vars
  BY IInvParts, OrphanStep
<1> QED
  BY <1>1, Invariance, PTL DEF Spec, OrphansAreStalePasses
------------------------------------------------------------------------------
(* A step that only retries or settles tasks is Promise!Recover. *)
LEMMA RecoverStep ==
  ASSUME TasksOK, DOMAIN tasks' = DOMAIN tasks,
         \A t \in DOMAIN tasks :
           /\ tasks'[t].maxRetries = tasks[t].maxRetries
           /\ \/ /\ tasks'[t].retry = tasks[t].retry
                 /\ tasks'[t].state \in {tasks[t].state, "Completed", "Failed"}
              \/ /\ tasks[t].retry < tasks[t].maxRetries
                 /\ tasks'[t].retry = tasks[t].retry + 1
                 /\ tasks'[t].state = "Pending"
  PROVE  \E R, S \in SUBSET TaskId : Promise!Recover(R, S)
<1> DEFINE R == {t \in DOMAIN tasks : tasks'[t].retry = tasks[t].retry + 1}
           S == {t \in DOMAIN tasks \ R : tasks'[t].state \in {"Completed", "Failed"}}
<1>1. \A t \in DOMAIN tasks : tasks[t].retry \in Nat /\ tasks[t].maxRetries \in Nat
                               /\ tasks[t].state \in TaskState
  BY DEF TasksOK, WellFormed, Task
<1>2. R \in SUBSET TaskId /\ S \in SUBSET TaskId /\ R \cap S = {}
  BY DEF TasksOK
<1>3. \A t \in R : AbsPhase[t] # "none" /\ AbsBudget[t] > 0
                   /\ AbsPhase'[t] = "waiting" /\ AbsBudget'[t] = AbsBudget[t] - 1
  BY <1>1, <1>2 DEF AbsPhase, AbsBudget, TaskState
<1>4. \A t \in S : AbsPhase[t] # "none" /\ AbsPhase'[t] = "settled"
                   /\ AbsBudget'[t] = AbsBudget[t]
  BY <1>1, <1>2 DEF AbsPhase, AbsBudget, TaskState
<1>5. \A t \in TaskId \ (R \cup S) : AbsPhase'[t] = AbsPhase[t] /\ AbsBudget'[t] = AbsBudget[t]
  BY <1>1 DEF AbsPhase, AbsBudget
<1>6. AbsPhase' = [t \in TaskId |-> IF t \in R THEN "waiting"
                                    ELSE IF t \in S THEN "settled" ELSE AbsPhase[t]]
  BY <1>2, <1>3, <1>4, <1>5 DEF AbsPhase
<1>7. AbsBudget' = [t \in TaskId |-> IF t \in R THEN AbsBudget[t] - 1 ELSE AbsBudget[t]]
  BY <1>2, <1>3, <1>4, <1>5 DEF AbsBudget
<1>8. Promise!Recover(R, S)
  BY <1>2, <1>3, <1>4, <1>6, <1>7 DEF Promise!Recover
<1> QED
  BY <1>2, <1>8

LEMMA SubmitStep ==
  ASSUME NEW t \in TaskId, NEW s \in Submissions, Submit(t, s)
  PROVE  Promise!Submit(t)
<1>1. /\ DOMAIN tasks' = DOMAIN tasks \cup {t} /\ tasks'[t] = NewTask(s)
      /\ \A k \in DOMAIN tasks \ {t} : tasks'[k] = tasks[k]
  BY DEF Submit, Put
<1>2. NewTask(s).state = "Pending" /\ NewTask(s).maxRetries = s.maxRetries /\ NewTask(s).retry = 0
  BY DEF NewTask
<1>3. AbsPhase' = [AbsPhase EXCEPT ![t] = "waiting"]
  BY <1>1, <1>2 DEF AbsPhase
<1>4. s.maxRetries \in Nat
  BY SubmissionAssumption
<1>5. AbsBudget' = [AbsBudget EXCEPT ![t] = s.maxRetries]
  <2>1. AbsBudget'[t] = s.maxRetries
    BY <1>1, <1>2, <1>4 DEF AbsBudget
  <2>2. \A k \in TaskId \ {t} : AbsBudget'[k] = AbsBudget[k]
    BY <1>1 DEF AbsBudget
  <2> QED
    BY <2>1, <2>2 DEF AbsBudget
<1> QED
  BY <1>3, <1>5 DEF Promise!Submit

LEMMA AssignStep ==
  ASSUME TasksOK, NEW d \in Dispatcher, AssignPending(d)
  PROVE  \E T \in SUBSET TaskId : Promise!Start(T)
<1>1. PICK target \in Targets(snapshot[d]) : Assign(d, target)
  BY DEF AssignPending
<1> DEFINE T == DOMAIN target
<1>2. T \subseteq DOMAIN tasks /\ \A t \in T : tasks[t].state = "Pending"
  BY TargetFacts
<1>3. /\ DOMAIN tasks' = DOMAIN tasks
      /\ \A t \in DOMAIN tasks \ T : tasks'[t] = tasks[t]
      /\ \A t \in T : tasks'[t] = [tasks[t] EXCEPT !.state = "Running", !.node = target[t]]
  BY <1>1, <1>2 DEF Assign
<1>4. \A t \in T : /\ tasks'[t].state = "Running"
                   /\ tasks'[t].retry = tasks[t].retry
                   /\ tasks'[t].maxRetries = tasks[t].maxRetries
  <2> SUFFICES ASSUME NEW t \in T
               PROVE  /\ tasks'[t].state = "Running"
                      /\ tasks'[t].retry = tasks[t].retry
                      /\ tasks'[t].maxRetries = tasks[t].maxRetries
    OBVIOUS
  <2>1. tasks[t] \in Task
    BY <1>2 DEF TasksOK, WellFormed
  <2>2. tasks'[t] = [tasks[t] EXCEPT !.state = "Running", !.node = target[t]]
    BY <1>1, <1>2 DEF Assign
  <2> QED
    BY <2>1, <2>2 DEF Task
<1>5. T \in SUBSET TaskId
  BY <1>2 DEF TasksOK
<1>6. \A t \in T : AbsPhase[t] = "waiting"
  BY <1>2, <1>5 DEF AbsPhase
<1>7. AbsPhase' = [t \in TaskId |-> IF t \in T THEN "started" ELSE AbsPhase[t]]
  <2>1. \A t \in T : AbsPhase'[t] = "started"
    BY <1>2, <1>3, <1>4, <1>5 DEF AbsPhase
  <2>2. \A t \in TaskId \ T : AbsPhase'[t] = AbsPhase[t]
    BY <1>3 DEF AbsPhase
  <2>3. AbsPhase' = [t \in TaskId |-> AbsPhase'[t]]
    BY DEF AbsPhase
  <2> QED
    BY <2>1, <2>2, <2>3
<1>8. AbsBudget' = AbsBudget
  <2>1. \A t \in DOMAIN tasks : /\ tasks'[t].retry = tasks[t].retry
                                /\ tasks'[t].maxRetries = tasks[t].maxRetries
    BY <1>3, <1>4
  <2>2. DOMAIN tasks' = DOMAIN tasks
    BY <1>3
  <2> QED
    BY <2>1, <2>2 DEF AbsBudget
<1> QED
  BY <1>5, <1>6, <1>7, <1>8 DEF Promise!Start

LEMMA PromiseStep ==
  TasksOK /\ [Next]_vars => [Promise!Next]_(Promise!vars)
<1> SUFFICES ASSUME TasksOK, [Next]_vars PROVE [Promise!Next]_(Promise!vars)
  OBVIOUS
<1>1. ASSUME NEW t \in TaskId, NEW s \in Submissions, Submit(t, s)
      PROVE  Promise!Next
  BY <1>1, SubmitStep DEF Promise!Next
<1>2. ASSUME NEW t \in TaskId, NEW r \in ExecutionResult, Progress(t, r)
      PROVE  Promise!Next
  <2>1. WellFormed(tasks[t])
    BY <1>2 DEF Progress, TasksOK
  <2>2. /\ DOMAIN tasks' = DOMAIN tasks /\ tasks'[t] = OnResult(tasks[t], r)
        /\ \A k \in DOMAIN tasks \ {t} : tasks'[k] = tasks[k]
    BY <1>2 DEF Progress, TasksOK
  <2>3. \E R, S \in SUBSET TaskId : Promise!Recover(R, S)
    BY <2>1, <2>2, OnResultFacts, RecoverStep
  <2> QED
    BY <2>3 DEF Promise!Next
<1>3. ASSUME NEW n \in NodeId, HandleNodeFailure(n) PROVE Promise!Next
  <2>1. \A t \in DOMAIN tasks : WellFormed(tasks[t])
    BY DEF TasksOK
  <2>2. /\ DOMAIN tasks' = DOMAIN tasks
        /\ \A k \in DOMAIN tasks : tasks'[k] = tasks[k] \/ tasks'[k] = NodeLost(tasks[k])
    BY <1>3 DEF HandleNodeFailure
  <2>3. \E R, S \in SUBSET TaskId : Promise!Recover(R, S)
    BY <2>1, <2>2, NodeLostFacts, RecoverStep
  <2> QED
    BY <2>3 DEF Promise!Next
<1>4. ASSUME NEW d \in Dispatcher, AssignPending(d) PROVE Promise!Next
  BY <1>4, AssignStep DEF Promise!Next
<1>5. CASE UNCHANGED tasks
  BY <1>5 DEF Promise!vars, AbsPhase, AbsBudget
<1> QED
  BY <1>1, <1>2, <1>3, <1>4, <1>5
     DEF Next, vars, Register, AuthenticateAndRegister, Unregister, EvictOffline, Retain, ListNodes

(* The scheduler implements RetryBudget. *)
THEOREM ImplementsRetryBudget == Spec => KeepsPromise
<1>1. Init => Promise!Init
  BY DEF Init, EmptyMap, Promise!Init, AbsPhase, AbsBudget
<1>2. IInv /\ [Next]_vars => [Promise!Next]_(Promise!vars)
  BY IInvParts, PromiseStep
<1> QED
  BY <1>1, <1>2, Invariance, PTL DEF Spec, KeepsPromise, Promise!Spec
==============================================================================
