----------------------------- MODULE RetryBudget -----------------------------
(***************************************************************************)
(* What the scheduler promises about retries, without nodes, capabilities  *)
(* or locks.  A submission fixes how many further attempts a task may get; *)
(* every start after the first is paid for by one unit of that budget.     *)
(* Scheduler.tla implements this module under the mapping in               *)
(* SchedulerProofs.tla and MCScheduler.tla.                                *)
(***************************************************************************)
EXTENDS Integers

CONSTANTS TaskId,   \* identifiers of tasks
          Budgets   \* retry budgets a submission may come with, natural numbers

VARIABLES phase,    \* phase[t]: "none", "waiting", "started" or "settled"
          budget    \* budget[t]: retries the task still has

vars == <<phase, budget>>

Phases == {"none", "waiting", "started", "settled"}

Init == /\ phase = [t \in TaskId |-> "none"]
        /\ budget = [t \in TaskId |-> 0]

(* A submission, which may replace an older task of the same identifier. *)
Submit(t) == /\ phase' = [phase EXCEPT ![t] = "waiting"]
             /\ \E b \in Budgets : budget' = [budget EXCEPT ![t] = b]

(* One dispatch pass starts any set of waiting tasks. *)
Start(T) == /\ \A t \in T : phase[t] = "waiting"
            /\ phase' = [t \in TaskId |-> IF t \in T THEN "started" ELSE phase[t]]
            /\ UNCHANGED budget

(* The tasks of R are put back in the queue, each paying one unit of its   *)
(* budget; those of S are settled for good or ill.                         *)
Recover(R, S) ==
  /\ R \cap S = {}
  /\ \A t \in R : phase[t] # "none" /\ budget[t] > 0
  /\ \A t \in S : phase[t] # "none"
  /\ phase' = [t \in TaskId |-> IF t \in R THEN "waiting"
                                ELSE IF t \in S THEN "settled" ELSE phase[t]]
  /\ budget' = [t \in TaskId |-> IF t \in R THEN budget[t] - 1 ELSE budget[t]]

Next == \/ \E t \in TaskId : Submit(t)
        \/ \E T \in SUBSET TaskId : Start(T)
        \/ \E R, S \in SUBSET TaskId : Recover(R, S)

Spec == Init /\ [][Next]_vars
==============================================================================
