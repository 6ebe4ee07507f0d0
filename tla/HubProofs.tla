------------------------------ MODULE HubProofs ------------------------------
(***************************************************************************)
(* Theorems about Hub, for any workers, tasks, submissions, crashes and    *)
(* sizes of the pipes.  A step of the hub is a step of the scheduler, so   *)
(* what SchedulerProofs says of the steps of the one holds for the other.  *)
(*                                                                         *)
(* The inductive invariant follows a task from the pass that assigned it   *)
(* to the end: into an outbox, over one pipe, to one worker and, as        *)
(* reports, back to the hub.  It is stated over the sets of tasks at each  *)
(* of these places, so that the sequences stay in the lemmas on queues.    *)
(***************************************************************************)
EXTENDS Hub, SchedulerProofs, FiniteSetTheorems, SequenceTheorems

(* Queues of frames and of reports *)
TasksIn(q) == {q[i].task : i \in DOMAIN q}
DecidedIn(q) == {q[i].task : i \in {j \in DOMAIN q : q[j].status # "Running"}}

(* A pipe holds no task twice; after the outcome of a task a queue of      *)
(* reports holds nothing of it.                                            *)
NoRepeat(q) == \A i, j \in DOMAIN q : q[i].task = q[j].task => i = j
OutcomeLast(q) ==
  \A i, j \in DOMAIN q : i < j /\ q[i].status # "Running" => q[j].task # q[i].task

(* The tasks at each place *)
Unsent(d) == {f.task : f \in outbox[d]}
OnPipe(w) == TasksIn(pipe[w])
AtWork(w) == {run[w].task} \ {NoTask}
Reported(w) == TasksIn(progress[w])
Decided(w) == DecidedIn(progress[w])

SocketsOK ==
  /\ worker \in [NodeId -> {"joining", "profiled", "pulling", "stopped", "crashed"}]
  /\ profiles \subseteq NodeId /\ linked \subseteq NodeId
  /\ pipe \in [NodeId -> Seq(Frame)] /\ \A w \in NodeId : Len(pipe[w]) <= PipeCap
  /\ progress \in [NodeId -> Seq(Report)]
  /\ run \in [NodeId -> {NoRun} \cup [task : TaskId, stage : Stages]]
  /\ published \in [TaskId -> SUBSET Status]
  /\ lost \subseteq TaskId

ThreadsOK ==
  /\ thread \in [Dispatcher -> {"idle", "list", "assign", "push"}]
  /\ outbox \in [Dispatcher -> SUBSET Frame]
  /\ \A d \in Dispatcher : /\ Idle(d) <=> thread[d] # "assign"
                           /\ thread[d] # "push" => outbox[d] = {}
  /\ serving \in TaskId \cup {NoTask}
  /\ serving # NoTask => thread[Medium] # "idle"

Orderly ==
  /\ \A d \in Dispatcher : \A f, g \in outbox[d] : f.task = g.task => f = g
  /\ \A w \in NodeId : NoRepeat(pipe[w]) /\ OutcomeLast(progress[w])

(* A task is at one place, and what is reported of it comes from the       *)
(* worker that executes it and has not decided it yet.                     *)
Apart ==
  /\ \A d, e \in Dispatcher : d # e => Unsent(d) \cap Unsent(e) = {}
  /\ \A w, x \in NodeId : w # x => /\ OnPipe(w) \cap OnPipe(x) = {}
                                   /\ AtWork(w) \cap AtWork(x) = {}
                                   /\ Reported(w) \cap Reported(x) = {}
                                   /\ AtWork(w) \cap Reported(x) = {}
  /\ \A d \in Dispatcher, w \in NodeId :
       Unsent(d) \cap (OnPipe(w) \cup AtWork(w) \cup Reported(w)) = {}
  /\ \A w, x \in NodeId : OnPipe(w) \cap (AtWork(x) \cup Reported(x)) = {}
  /\ \A w \in NodeId : AtWork(w) \cap Decided(w) = {}

(* Whatever is at some place or reported is Running. *)
Alive == {t \in DOMAIN tasks : tasks[t].state = "Running"}

InPlayRuns ==
  /\ \A d \in Dispatcher : Unsent(d) \subseteq Alive
  /\ \A w \in NodeId : OnPipe(w) \cup AtWork(w) \cup Reported(w) \subseteq Alive

(* And what is Running is at some place, decided, or given up. *)
Accounted(t) ==
  \/ \E d \in Dispatcher : t \in Unsent(d)
  \/ \E w \in NodeId : t \in OnPipe(w) \cup AtWork(w) \cup Decided(w)
  \/ "Failed" \in published[t]
  \/ t \in lost

AllAccounted == \A t \in Alive : Accounted(t)

(* Nothing the hub hands to its scheduler makes it retry a task. *)
NeverRetried == \A t \in DOMAIN tasks : tasks[t].retry = 0

(* A task has one outcome, and when the hub has told of it the task is at  *)
(* no place any more and does not wait for a pass either.                  *)
Begun == {t \in DOMAIN tasks : tasks[t].state # "Pending"}

Concluded ==
  \A t \in TaskId : \A s \in published[t] \ {"Running"} :
    /\ published[t] \ {"Running"} = {s}
    /\ t \in Begun
    /\ \A d \in Dispatcher : t \notin Unsent(d)
    /\ \A w \in NodeId : t \notin OnPipe(w) \cup AtWork(w) \cup Reported(w)

Ledger == Apart /\ InPlayRuns /\ AllAccounted /\ Concluded

Delivery == SocketsOK /\ ThreadsOK /\ Orderly /\ Ledger /\ NeverRetried

HubInv == TasksOK /\ RegistryOK /\ Delivery
------------------------------------------------------------------------------
(* Queues *)

(* What a queue holds after one more entry *)
LEMMA AppendFacts ==
  ASSUME NEW S, NEW q \in Seq(S), NEW e \in S
  PROVE  /\ Append(q, e) \in Seq(S) /\ Len(Append(q, e)) = Len(q) + 1
         /\ TasksIn(Append(q, e)) = TasksIn(q) \cup {e.task}
         /\ DecidedIn(Append(q, e))
              = DecidedIn(q) \cup (IF e.status # "Running" THEN {e.task} ELSE {})
         /\ NoRepeat(q) /\ e.task \notin TasksIn(q) => NoRepeat(Append(q, e))
         /\ OutcomeLast(q) /\ e.task \notin DecidedIn(q) => OutcomeLast(Append(q, e))
<1> DEFINE r == Append(q, e)
           n == Len(q)
<1>1. /\ n \in Nat /\ DOMAIN q = 1..n /\ r \in Seq(S) /\ Len(r) = n + 1 /\ DOMAIN r = 1..(n + 1)
      /\ \A i \in 1..n : r[i] = q[i]
      /\ r[n + 1] = e
  BY AppendProperties, LenProperties
<1> HIDE DEF r, n
<1>2. TasksIn(r) = TasksIn(q) \cup {e.task}
  BY <1>1 DEF TasksIn
<1>3. DecidedIn(r) = DecidedIn(q) \cup (IF e.status # "Running" THEN {e.task} ELSE {})
  BY <1>1 DEF DecidedIn
<1>4. NoRepeat(q) /\ e.task \notin TasksIn(q) => NoRepeat(r)
  BY <1>1 DEF NoRepeat, TasksIn
<1>5. OutcomeLast(q) /\ e.task \notin DecidedIn(q) => OutcomeLast(r)
  BY <1>1 DEF OutcomeLast, DecidedIn
<1> QED
  BY <1>1, <1>2, <1>3, <1>4, <1>5 DEF r, n

(* What is left of it without its first entry *)
LEMMA TailFacts ==
  ASSUME NEW S, NEW q \in Seq(S), q # <<>>
  PROVE  /\ Head(q) \in S /\ Tail(q) \in Seq(S) /\ Len(Tail(q)) <= Len(q)
         /\ TasksIn(q) = TasksIn(Tail(q)) \cup {Head(q).task}
         /\ DecidedIn(q) = DecidedIn(Tail(q))
                             \cup (IF Head(q).status # "Running" THEN {Head(q).task} ELSE {})
         /\ NoRepeat(q) => NoRepeat(Tail(q)) /\ Head(q).task \notin TasksIn(Tail(q))
         /\ OutcomeLast(q) => /\ OutcomeLast(Tail(q))
                              /\ Head(q).status # "Running" => Head(q).task \notin TasksIn(Tail(q))
<1> DEFINE r == Tail(q)
           n == Len(q)
<1>1. /\ n \in Nat \ {0} /\ DOMAIN q = 1..n /\ q[1] = Head(q) /\ Head(q) \in S
      /\ r \in Seq(S) /\ Len(r) = n - 1 /\ DOMAIN r = 1..(n - 1)
      /\ \A i \in 1..(n - 1) : r[i] = q[i + 1]
  <2>1. n \in Nat \ {0} /\ DOMAIN q = 1..n
    BY EmptySeq, LenProperties
  <2>2. r \in Seq(S) /\ Len(r) = n - 1 /\ Head(q) \in S /\ \A i \in 1..(n - 1) : r[i] = q[i + 1]
    BY HeadTailProperties
  <2> QED
    BY <2>1, <2>2, LenProperties
<1> HIDE DEF r, n
<1>2. \A i \in 1..n : i = 1 \/ (i - 1 \in 1..(n - 1) /\ q[i] = r[i - 1])
  BY <1>1
<1>3. \A i \in 1..(n - 1) : i + 1 \in 1..n /\ i + 1 > 1 /\ r[i] = q[i + 1]
  BY <1>1
<1>4. TasksIn(q) = TasksIn(r) \cup {Head(q).task}
  <2>1. TasksIn(q) \subseteq TasksIn(r) \cup {Head(q).task}
    <3>1. ASSUME NEW i \in 1..n, i # 1 PROVE q[i].task \in TasksIn(r)
      BY <1>1, <1>2, <3>1 DEF TasksIn
    <3>2. ASSUME NEW i \in DOMAIN q PROVE q[i].task \in TasksIn(r) \cup {Head(q).task}
      BY <1>1, <3>1, <3>2
    <3>3. ASSUME NEW t \in TasksIn(q) PROVE t \in TasksIn(r) \cup {Head(q).task}
      <4>1. PICK i \in DOMAIN q : t = q[i].task
        BY DEF TasksIn
      <4> QED
        BY <3>2, <4>1
    <3> QED
      BY <3>3
  <2>2. TasksIn(r) \subseteq TasksIn(q)
    <3>1. ASSUME NEW i \in DOMAIN r PROVE i + 1 \in DOMAIN q /\ r[i].task = q[i + 1].task
      BY <1>1, <1>3, <3>1
    <3> QED
      BY <3>1 DEF TasksIn
  <2>3. Head(q).task \in TasksIn(q)
    BY <1>1 DEF TasksIn
  <2> QED
    BY <2>1, <2>2, <2>3
<1>5. DecidedIn(q) = DecidedIn(r) \cup (IF Head(q).status # "Running" THEN {Head(q).task} ELSE {})
  <2>1. ASSUME NEW i \in 1..n, q[i].status # "Running", i # 1 PROVE q[i].task \in DecidedIn(r)
    BY <1>1, <1>2, <2>1 DEF DecidedIn
  <2>2. DecidedIn(q)
          \subseteq DecidedIn(r) \cup (IF Head(q).status # "Running" THEN {Head(q).task} ELSE {})
    BY <1>1, <2>1 DEF DecidedIn
  <2>3. DecidedIn(r) \subseteq DecidedIn(q)
    BY <1>1, <1>3 DEF DecidedIn
  <2>4. Head(q).status # "Running" => Head(q).task \in DecidedIn(q)
    BY <1>1 DEF DecidedIn
  <2> QED
    BY <2>2, <2>3, <2>4
<1>6. ASSUME NoRepeat(q) PROVE NoRepeat(r) /\ Head(q).task \notin TasksIn(r)
  <2>1. ASSUME NEW i \in 1..(n - 1), NEW j \in 1..(n - 1), r[i].task = r[j].task PROVE i = j
    <3>1. i + 1 \in DOMAIN q /\ j + 1 \in DOMAIN q /\ q[i + 1].task = q[j + 1].task
      BY <1>1, <2>1
    <3>2. i + 1 = j + 1
      BY <1>6, <3>1 DEF NoRepeat
    <3> QED
      BY <3>2
  <2>2. ASSUME NEW i \in 1..(n - 1) PROVE r[i].task # q[1].task
    <3>1. 1 \in DOMAIN q /\ i + 1 \in DOMAIN q /\ 1 # i + 1 /\ r[i] = q[i + 1]
      BY <1>1
    <3> QED
      BY <1>6, <3>1 DEF NoRepeat
  <2>3. NoRepeat(r)
    BY <1>1, <2>1 DEF NoRepeat
  <2>4. Head(q).task \notin TasksIn(r)
    BY <1>1, <2>2 DEF TasksIn
  <2> QED
    BY <2>3, <2>4
<1>7. ASSUME OutcomeLast(q)
      PROVE  OutcomeLast(r) /\ (Head(q).status # "Running" => Head(q).task \notin TasksIn(r))
  <2>1. ASSUME NEW i \in 1..(n - 1), NEW j \in 1..(n - 1), i < j, r[i].status # "Running"
        PROVE  r[j].task # r[i].task
    <3>1. i + 1 \in DOMAIN q /\ j + 1 \in DOMAIN q /\ i + 1 < j + 1
      BY <1>1, <2>1
    <3>2. r[i] = q[i + 1] /\ r[j] = q[j + 1]
      BY <1>1
    <3> QED
      BY <1>7, <2>1, <3>1, <3>2 DEF OutcomeLast
  <2>2. OutcomeLast(r)
    BY <1>1, <2>1 DEF OutcomeLast
  <2>3. ASSUME NEW i \in 1..(n - 1), q[1].status # "Running" PROVE r[i].task # q[1].task
    <3>1. 1 \in DOMAIN q /\ i + 1 \in DOMAIN q /\ 1 < i + 1 /\ r[i] = q[i + 1]
      BY <1>1
    <3> QED
      BY <1>7, <2>3, <3>1 DEF OutcomeLast
  <2> QED
    BY <1>1, <2>2, <2>3 DEF TasksIn
<1> QED
  BY <1>1, <1>4, <1>5, <1>6, <1>7 DEF r, n

(* What arrives of it when the rest is lost *)
LEMMA PrefixFacts ==
  ASSUME NEW S, NEW q \in Seq(S), NEW k \in 0..Len(q)
  PROVE  /\ SubSeq(q, 1, k) \in Seq(S)
         /\ TasksIn(SubSeq(q, 1, k)) \subseteq TasksIn(q)
         /\ DecidedIn(SubSeq(q, 1, k)) \subseteq DecidedIn(q)
         /\ DecidedIn(q) \subseteq DecidedIn(SubSeq(q, 1, k)) \cup {q[i].task : i \in (k + 1)..Len(q)}
         /\ {q[i].task : i \in (k + 1)..Len(q)} \subseteq TasksIn(q)
         /\ OutcomeLast(q) => OutcomeLast(SubSeq(q, 1, k))
<1> DEFINE r == SubSeq(q, 1, k)
           n == Len(q)
<1>1. n \in Nat /\ DOMAIN q = 1..n /\ k \in Nat /\ k <= n
  BY LenProperties
<1>2. \A i \in 1..k : q[i] \in S
  BY <1>1, ElementOfSeq
<1>3. r \in Seq(S) /\ DOMAIN r = 1..k /\ \A i \in 1..k : r[i] = q[i]
  <2>1. r \in Seq(S) /\ Len(r) = k /\ \A i \in 1..k : r[i] = q[i]
    BY <1>1, <1>2, SubSeqProperties
  <2> QED
    BY <2>1, LenProperties
<1> HIDE DEF r, n
<1>4. TasksIn(r) \subseteq TasksIn(q) /\ DecidedIn(r) \subseteq DecidedIn(q)
  BY <1>1, <1>3 DEF TasksIn, DecidedIn
<1>5. DecidedIn(q) \subseteq DecidedIn(r) \cup {q[i].task : i \in (k + 1)..n}
  BY <1>1, <1>3 DEF DecidedIn
<1>6. {q[i].task : i \in (k + 1)..n} \subseteq TasksIn(q)
  BY <1>1 DEF TasksIn
<1>7. OutcomeLast(q) => OutcomeLast(r)
  BY <1>1, <1>3 DEF OutcomeLast
<1> QED
  BY <1>3, <1>4, <1>5, <1>6, <1>7 DEF r, n

(* An empty queue *)
LEMMA EmptyFacts ==
  ASSUME NEW S
  PROVE  /\ <<>> \in Seq(S) /\ Len(<<>>) = 0 /\ TasksIn(<<>>) = {} /\ DecidedIn(<<>>) = {}
         /\ NoRepeat(<<>>) /\ OutcomeLast(<<>>)
BY EmptySeq DEF TasksIn, DecidedIn, NoRepeat, OutcomeLast
------------------------------------------------------------------------------
(* The ledger: how tasks move from place to place *)

SameUnsent == \A d \in Dispatcher : Unsent(d)' = Unsent(d)
SamePipes == \A w \in NodeId : OnPipe(w)' = OnPipe(w)
SameWork == \A w \in NodeId : AtWork(w)' = AtWork(w)
SameReports == \A w \in NodeId : Reported(w)' = Reported(w) /\ Decided(w)' = Decided(w)

SameStates == Alive' = Alive /\ Begun' = Begun

(* A place changes only with its variable. *)
LEMMA Frames ==
  /\ UNCHANGED outbox => SameUnsent
  /\ UNCHANGED pipe => SamePipes
  /\ UNCHANGED run => SameWork
  /\ UNCHANGED progress => SameReports
BY DEF SameUnsent, SamePipes, SameWork, SameReports, Unsent, OnPipe, AtWork, Reported, Decided

(* Nothing moves. *)
LEMMA NoMove ==
  ASSUME Ledger, SameUnsent, SamePipes, SameWork, SameReports, SameStates,
         UNCHANGED <<published, lost>>
  PROVE  Ledger'
<1>1. Apart'
  BY DEF Ledger, Apart, SameUnsent, SamePipes, SameWork, SameReports
<1>2. InPlayRuns'
  BY DEF Ledger, InPlayRuns, SameUnsent, SamePipes, SameWork, SameReports, SameStates
<1>3. AllAccounted'
  BY DEF Ledger, AllAccounted, Accounted, SameUnsent, SamePipes, SameWork, SameReports, SameStates
<1>4. Concluded'
  BY DEF Ledger, Concluded, SameUnsent, SamePipes, SameWork, SameReports, SameStates
<1> QED
  BY <1>1, <1>2, <1>3, <1>4 DEF Ledger

(* A pass takes tasks that were not Running into an empty outbox. *)
LEMMA MoveOut ==
  ASSUME Ledger, SamePipes, SameWork, SameReports, UNCHANGED <<published, lost>>,
         NEW d \in Dispatcher, NEW T, T \cap Begun = {}, T \cap Alive = {},
         Alive' = Alive \cup T, Begun' = Begun \cup T,
         Unsent(d) = {}, Unsent(d)' = T,
         \A e \in Dispatcher \ {d} : Unsent(e)' = Unsent(e)
  PROVE  Ledger'
<1>1. Apart'
  BY DEF Ledger, Apart, InPlayRuns, SamePipes, SameWork, SameReports
<1>2. InPlayRuns'
  BY DEF Ledger, InPlayRuns, SamePipes, SameWork, SameReports
<1>3. AllAccounted'
  BY DEF Ledger, AllAccounted, Accounted, SamePipes, SameWork, SameReports
<1>4. Concluded'
  BY DEF Ledger, Concluded, SamePipes, SameWork, SameReports
<1> QED
  BY <1>1, <1>2, <1>3, <1>4 DEF Ledger

(* A frame goes from an outbox onto a pipe. *)
LEMMA MoveToPipe ==
  ASSUME Ledger, SameWork, SameReports, SameStates, UNCHANGED <<published, lost>>,
         NEW d \in Dispatcher, NEW w \in NodeId, NEW t \in Unsent(d),
         Unsent(d)' = Unsent(d) \ {t}, OnPipe(w)' = OnPipe(w) \cup {t},
         \A e \in Dispatcher \ {d} : Unsent(e)' = Unsent(e),
         \A x \in NodeId \ {w} : OnPipe(x)' = OnPipe(x)
  PROVE  Ledger'
<1>1. Apart'
  BY DEF Ledger, Apart, SameWork, SameReports
<1>2. InPlayRuns'
  BY DEF Ledger, InPlayRuns, SameWork, SameReports, SameStates
<1>3. AllAccounted'
  BY DEF Ledger, AllAccounted, Accounted, SameWork, SameReports, SameStates
<1>4. Concluded'
  BY DEF Ledger, Concluded, SameWork, SameReports, SameStates
<1> QED
  BY <1>1, <1>2, <1>3, <1>4 DEF Ledger

(* A worker at rest takes a frame off its pipe. *)
LEMMA MoveToWork ==
  ASSUME Ledger, SameUnsent, SameReports, SameStates, UNCHANGED <<published, lost>>,
         NEW w \in NodeId, NEW t \in OnPipe(w), AtWork(w) = {},
         Decided(w) \subseteq Reported(w),
         OnPipe(w)' = OnPipe(w) \ {t}, AtWork(w)' = {t},
         \A x \in NodeId \ {w} : OnPipe(x)' = OnPipe(x) /\ AtWork(x)' = AtWork(x)
  PROVE  Ledger'
<1>1. Apart'
  BY DEF Ledger, Apart, SameUnsent, SameReports
<1>2. InPlayRuns'
  BY DEF Ledger, InPlayRuns, SameUnsent, SameReports, SameStates
<1>3. AllAccounted'
  BY DEF Ledger, AllAccounted, Accounted, SameUnsent, SameReports, SameStates
<1>4. Concluded'
  BY DEF Ledger, Concluded, SameUnsent, SameReports, SameStates
<1> QED
  BY <1>1, <1>2, <1>3, <1>4 DEF Ledger

(* A worker reports on its task, and leaves it when it reports the outcome. *)
LEMMA MoveToReport ==
  ASSUME Ledger, SameUnsent, SamePipes, SameStates, UNCHANGED <<published, lost>>,
         NEW w \in NodeId, NEW t \in AtWork(w), NEW O, O = {} \/ O = {t},
         AtWork(w)' = AtWork(w) \ O,
         Reported(w)' = Reported(w) \cup {t}, Decided(w)' = Decided(w) \cup O,
         \A x \in NodeId \ {w} : /\ AtWork(x)' = AtWork(x)
                                 /\ Reported(x)' = Reported(x) /\ Decided(x)' = Decided(x),
         \A x \in NodeId : \A k \in AtWork(x) : AtWork(x) = {k}
  PROVE  Ledger'
<1>1. Apart'
  BY DEF Ledger, Apart, SameUnsent, SamePipes
<1>2. InPlayRuns'
  BY DEF Ledger, InPlayRuns, SameUnsent, SamePipes, SameStates
<1>3. AllAccounted'
  BY DEF Ledger, AllAccounted, Accounted, SameUnsent, SamePipes, SameStates
<1>4. Concluded'
  BY DEF Ledger, Concluded, SameUnsent, SamePipes, SameStates
<1> QED
  BY <1>1, <1>2, <1>3, <1>4 DEF Ledger

(* The hub takes a report that says no outcome. *)
LEMMA MoveNews ==
  ASSUME Ledger, SameUnsent, SamePipes, SameWork, SameStates, UNCHANGED lost, Alive \subseteq TaskId,
         \A t \in TaskId : /\ published[t] \subseteq published'[t]
                           /\ published'[t] \ {"Running"} = published[t] \ {"Running"},
         NEW w \in NodeId, Reported(w)' \subseteq Reported(w), Decided(w)' = Decided(w),
         \A x \in NodeId \ {w} : Reported(x)' = Reported(x) /\ Decided(x)' = Decided(x)
  PROVE  Ledger'
<1>1. Apart'
  BY DEF Ledger, Apart, SameUnsent, SamePipes, SameWork
<1>2. InPlayRuns'
  BY DEF Ledger, InPlayRuns, SameUnsent, SamePipes, SameWork, SameStates
<1>3. AllAccounted'
  BY DEF Ledger, AllAccounted, Accounted, SameUnsent, SamePipes, SameWork, SameStates
<1>4. Concluded'
  BY DEF Ledger, Concluded, SameUnsent, SamePipes, SameWork, SameStates
<1> QED
  BY <1>1, <1>2, <1>3, <1>4 DEF Ledger

(* The hub takes an outcome: it completes the task or has told of its failure. *)
LEMMA MoveOutcome ==
  ASSUME Ledger, SameUnsent, SamePipes, SameWork, UNCHANGED lost, Alive \subseteq TaskId,
         published \in [TaskId -> SUBSET Status],
         NEW w \in NodeId, NEW t \in Decided(w), t \notin Reported(w)',
         NEW s \in {"Completed", "Failed"}, published' = [published EXCEPT ![t] = @ \cup {s}],
         Begun' = Begun, IF s = "Completed" THEN Alive' = Alive \ {t} ELSE Alive' = Alive,
         Decided(w) \subseteq Reported(w),
         Reported(w) = Reported(w)' \cup {t}, Decided(w) = Decided(w)' \cup {t},
         \A x \in NodeId \ {w} : Reported(x)' = Reported(x) /\ Decided(x)' = Decided(x)
  PROVE  Ledger'
<1>1. Apart'
  BY DEF Ledger, Apart, SameUnsent, SamePipes, SameWork
<1>2. InPlayRuns'
  BY DEF Ledger, InPlayRuns, Apart, SameUnsent, SamePipes, SameWork
<1>3. AllAccounted'
  BY DEF Ledger, AllAccounted, Accounted, SameUnsent, SamePipes, SameWork
<1>4. Concluded'
  <2>1. t \in Reported(w) /\ t \in TaskId /\ t \in Begun
    BY DEF Ledger, InPlayRuns, Alive, Begun
  <2>2. published[t] \ {"Running"} = {}
    BY <2>1 DEF Ledger, Concluded
  <2>3. published'[t] \ {"Running"} = {s}
    BY <2>1, <2>2
  <2>4. \A k \in TaskId \ {t} : published'[k] = published[k]
    OBVIOUS
  <2>5. /\ \A d \in Dispatcher : t \notin Unsent(d)'
        /\ \A x \in NodeId : t \notin OnPipe(x)' \cup AtWork(x)' \cup Reported(x)'
    BY <2>1 DEF Ledger, Apart, SameUnsent, SamePipes, SameWork
  <2>6. ASSUME NEW k \in TaskId \ {t}, NEW o \in published'[k] \ {"Running"}
        PROVE  /\ published'[k] \ {"Running"} = {o}
               /\ k \in Begun'
               /\ \A d \in Dispatcher : k \notin Unsent(d)'
               /\ \A x \in NodeId : k \notin OnPipe(x)' \cup AtWork(x)' \cup Reported(x)'
    BY <2>4, <2>6 DEF Ledger, Concluded, SameUnsent, SamePipes, SameWork
  <2> QED
    BY <2>1, <2>3, <2>5, <2>6 DEF Concluded
<1> QED
  BY <1>1, <1>2, <1>3, <1>4 DEF Ledger

(* A task loop ends with its task and some of its reports. *)
LEMMA MoveVanish ==
  ASSUME Ledger, SameUnsent, SamePipes, SameStates, UNCHANGED published,
         NEW w \in NodeId, AtWork(w)' = {}, AtWork(w) \subseteq lost', lost \subseteq lost',
         Reported(w)' \subseteq Reported(w), Decided(w)' \subseteq Decided(w),
         Decided(w) \subseteq Decided(w)' \cup lost',
         \A x \in NodeId \ {w} : /\ AtWork(x)' = AtWork(x)
                                 /\ Reported(x)' = Reported(x) /\ Decided(x)' = Decided(x)
  PROVE  Ledger'
<1>1. Apart'
  BY DEF Ledger, Apart, SameUnsent, SamePipes
<1>2. InPlayRuns'
  BY DEF Ledger, InPlayRuns, SameUnsent, SamePipes, SameStates
<1>3. AllAccounted'
  BY DEF Ledger, AllAccounted, Accounted, SameUnsent, SamePipes, SameStates
<1>4. Concluded'
  BY DEF Ledger, Concluded, SameUnsent, SamePipes, SameStates
<1> QED
  BY <1>1, <1>2, <1>3, <1>4 DEF Ledger

(* A pipe nobody pulls from any more is discarded. *)
LEMMA MoveDiscard ==
  ASSUME Ledger, SameUnsent, SameWork, SameReports, SameStates, UNCHANGED published,
         NEW w \in NodeId, OnPipe(w)' = {}, lost \cup OnPipe(w) \subseteq lost',
         \A x \in NodeId \ {w} : OnPipe(x)' = OnPipe(x)
  PROVE  Ledger'
<1>1. Apart'
  BY DEF Ledger, Apart, SameUnsent, SameWork, SameReports
<1>2. InPlayRuns'
  BY DEF Ledger, InPlayRuns, SameUnsent, SameWork, SameReports, SameStates
<1>3. AllAccounted'
  BY DEF Ledger, AllAccounted, Accounted, SameUnsent, SameWork, SameReports, SameStates
<1>4. Concluded'
  BY DEF Ledger, Concluded, SameUnsent, SameWork, SameReports, SameStates
<1> QED
  BY <1>1, <1>2, <1>3, <1>4 DEF Ledger
------------------------------------------------------------------------------
(* Steps on which no task moves *)

(* What keeps the tasks keeps what is said of them alone. *)
LEMMA SameTasks == UNCHANGED tasks => SameStates /\ (NeverRetried => NeverRetried')
BY DEF SameStates, Alive, Begun, NeverRetried

(* A thread, a profile or the lifecycle of a worker changes, and no place. *)
LEMMA QuietMoves ==
  ASSUME Ledger, Orderly, NeverRetried, UNCHANGED <<tasks, pipe, run, progress, outbox, published, lost>>
  PROVE  Orderly' /\ Ledger' /\ NeverRetried'
<1>1. SameUnsent /\ SamePipes /\ SameWork /\ SameReports
  BY Frames
<1>2. Ledger'
  BY <1>1, NoMove, SameTasks
<1>3. Orderly'
  BY DEF Orderly
<1> QED
  BY <1>2, <1>3, SameTasks
LEMMA WakeSenderOK ==
  ASSUME Delivery, WakeSender
  PROVE  Delivery' /\ UNCHANGED vars
<1>1. UNCHANGED <<vars, worker, profiles, linked, pipe, run, progress, outbox, serving,
                  published, lost>>
  BY DEF WakeSender
<1>2. Orderly' /\ Ledger' /\ NeverRetried'
  BY <1>1, QuietMoves DEF Delivery, vars
<1>3. SocketsOK'
  BY <1>1 DEF Delivery, SocketsOK
<1>4. ThreadsOK'
  <2>1. \A d \in Dispatcher : Idle(d)' = Idle(d)
    BY <1>1 DEF Idle, vars
  <2>2. thread' = [thread EXCEPT ![Sender] = "list"] /\ thread[Sender] = "idle"
    BY DEF WakeSender
  <2> QED
    BY <1>1, <2>1, <2>2, HubAssumption DEF Delivery, ThreadsOK
<1> QED
  BY <1>1, <1>2, <1>3, <1>4 DEF Delivery

LEMMA ListOK ==
  ASSUME Delivery, TasksOK, RegistryOK, NEW d \in Dispatcher, List(d)
  PROVE  Delivery' /\ ListNodes(d)
<1>1. /\ UNCHANGED <<worker, profiles, linked, pipe, run, progress, outbox, serving,
                     published, lost>>
      /\ ListNodes(d) /\ UNCHANGED tasks
  BY DEF List, ListNodes
<1>2. Orderly' /\ Ledger' /\ NeverRetried'
  BY <1>1, QuietMoves DEF Delivery
<1>3. SocketsOK'
  BY <1>1 DEF Delivery, SocketsOK
<1>4. ThreadsOK'
  <2>1. snapshot' = [snapshot EXCEPT ![d] = nodes] /\ DOMAIN nodes # {}
    BY <1>1 DEF ListNodes
  <2>2. ~ Idle(d)' /\ \A e \in Dispatcher \ {d} : Idle(e)' = Idle(e)
    BY <2>1 DEF Idle, RegistryOK
  <2>3. thread' = [thread EXCEPT ![d] = "assign"] /\ thread[d] = "list"
    BY DEF List
  <2>4. thread' \in [Dispatcher -> {"idle", "list", "assign", "push"}]
    BY <2>3 DEF Delivery, ThreadsOK
  <2>5. \A e \in Dispatcher : /\ Idle(e)' <=> thread'[e] # "assign"
                              /\ thread'[e] # "push" => outbox'[e] = {}
    BY <1>1, <2>2, <2>3 DEF Delivery, ThreadsOK
  <2>6. serving # NoTask => thread'[Medium] # "idle"
    BY <2>3 DEF Delivery, ThreadsOK
  <2> QED
    BY <1>1, <2>4, <2>5, <2>6 DEF Delivery, ThreadsOK
<1> QED
  BY <1>1, <1>2, <1>3, <1>4 DEF Delivery

LEMMA EndPassOK ==
  ASSUME Delivery, NEW d \in Dispatcher, EndPass(d)
  PROVE  Delivery' /\ UNCHANGED vars
<1>1. /\ UNCHANGED <<vars, worker, profiles, linked, pipe, run, progress, outbox, published, lost>>
      /\ thread[d] = "push" /\ outbox[d] = {} /\ thread' = [thread EXCEPT ![d] = "idle"]
      /\ serving' = IF d = Medium THEN NoTask ELSE serving
  BY DEF EndPass
<1>2. Orderly' /\ Ledger' /\ NeverRetried'
  BY <1>1, QuietMoves DEF Delivery, vars
<1>3. SocketsOK'
  BY <1>1 DEF Delivery, SocketsOK
<1>4. ThreadsOK'
  <2>1. \A e \in Dispatcher : Idle(e)' = Idle(e)
    BY <1>1 DEF Idle, vars
  <2> QED
    BY <1>1, <2>1 DEF Delivery, ThreadsOK
<1> QED
  BY <1>1, <1>2, <1>3, <1>4 DEF Delivery

LEMMA ReceiveProfileOK ==
  ASSUME Delivery, NEW w \in NodeId, ReceiveProfile(w)
  PROVE  Delivery' /\ Register(w, Profile(w)) /\ Profile(w) \in Profiles
<1>1. /\ UNCHANGED <<tasks, snapshot, worker, linked, pipe, run, progress, thread, outbox,
                     serving, published, lost>>
      /\ profiles' = profiles \ {w} /\ Register(w, Profile(w))
  BY DEF ReceiveProfile, Register
<1>2. Orderly' /\ Ledger' /\ NeverRetried'
  BY <1>1, QuietMoves DEF Delivery
<1>3. SocketsOK'
  BY <1>1 DEF Delivery, SocketsOK
<1>4. ThreadsOK'
  BY <1>1 DEF Delivery, ThreadsOK, Idle
<1> QED
  BY <1>1, <1>2, <1>3, <1>4, HubAssumption DEF Delivery

LEMMA JoinOK ==
  ASSUME Delivery, NEW w \in NodeId, Join(w) \/ Dial(w)
  PROVE  Delivery' /\ UNCHANGED vars
<1>1. UNCHANGED <<vars, pipe, run, progress, thread, outbox, serving, published, lost>>
  BY DEF Join, Dial
<1>2. Orderly' /\ Ledger' /\ NeverRetried'
  BY <1>1, QuietMoves DEF Delivery, vars
<1>3. SocketsOK'
  BY <1>1 DEF Delivery, SocketsOK, Join, Dial
<1>4. ThreadsOK'
  BY <1>1 DEF Delivery, ThreadsOK, Idle, vars
<1> QED
  BY <1>1, <1>2, <1>3, <1>4 DEF Delivery

LEMMA ServeSubmitOK ==
  ASSUME Delivery, NEW t \in TaskId, NEW s \in Submissions, ServeSubmit(t, s)
  PROVE  Delivery' /\ Submit(t, s)
<1>1. /\ UNCHANGED <<snapshot, worker, profiles, linked, pipe, run, progress, outbox, published, lost>>
      /\ Submit(t, s) /\ t \notin DOMAIN tasks /\ serving' = t
      /\ thread[Medium] = "idle" /\ thread' = [thread EXCEPT ![Medium] = "list"]
  BY DEF ServeSubmit, Submit
<1>2. /\ DOMAIN tasks' = DOMAIN tasks \cup {t} /\ tasks'[t] = NewTask(s)
      /\ \A k \in DOMAIN tasks : tasks'[k] = tasks[k]
  BY <1>1 DEF Submit, Put
<1>3. tasks'[t].state = "Pending" /\ tasks'[t].retry = 0
  BY <1>2 DEF NewTask
<1>4. SameStates
  BY <1>2, <1>3 DEF SameStates, Alive, Begun
<1>5. NeverRetried'
  BY <1>2, <1>3 DEF Delivery, NeverRetried
<1>6. Ledger'
  BY <1>1, <1>4, Frames, NoMove DEF Delivery
<1>7. Orderly' /\ SocketsOK'
  BY <1>1 DEF Delivery, Orderly, SocketsOK
<1>8. ThreadsOK'
  <2>1. \A e \in Dispatcher : Idle(e)' = Idle(e)
    BY <1>1 DEF Idle
  <2> QED
    BY <1>1, <2>1, HubAssumption DEF Delivery, ThreadsOK
<1> QED
  BY <1>1, <1>5, <1>6, <1>7, <1>8 DEF Delivery
------------------------------------------------------------------------------
(* Steps on which tasks move *)

(* A pass takes into its outbox the frames of the tasks it assigns, which  *)
(* were Pending when it looked at them under the lock.                     *)
LEMMA AssignFramesOK ==
  ASSUME Delivery, TasksOK, RegistryOK, NEW d \in Dispatcher, AssignFrames(d)
  PROVE  Delivery' /\ AssignPending(d)
<1>1. PICK target \in Targets(snapshot[d]) :
        /\ Assign(d, target)
        /\ outbox' = [outbox EXCEPT ![d] =
                        {[task |-> t, target |-> target[t]] : t \in DOMAIN target}]
  BY DEF AssignFrames
<1>2. /\ UNCHANGED <<worker, profiles, linked, pipe, run, progress, serving, published, lost>>
      /\ thread[d] = "assign" /\ thread' = [thread EXCEPT ![d] = "push"]
  BY DEF AssignFrames
<1> DEFINE T == DOMAIN target
           F == {[task |-> t, target |-> target[t]] : t \in T}
<1>3. \A t \in T : t \in DOMAIN tasks /\ tasks[t].state = "Pending" /\ target[t] \in DOMAIN snapshot[d]
  BY TargetFacts
<1>4. AssignPending(d)
  BY <1>1, <1>2 DEF AssignPending, Delivery, ThreadsOK
<1>5. outbox[d] = {} /\ outbox'[d] = F /\ \A e \in Dispatcher \ {d} : outbox'[e] = outbox[e]
  BY <1>1, <1>2 DEF Delivery, ThreadsOK
<1>6. Unsent(d) = {} /\ Unsent(d)' = T /\ \A e \in Dispatcher \ {d} : Unsent(e)' = Unsent(e)
  <2>1. Unsent(d) = {} /\ \A e \in Dispatcher \ {d} : Unsent(e)' = Unsent(e)
    BY <1>5 DEF Unsent
  <2>2. {f.task : f \in F} = T
    <3>1. \A f \in F : f.task \in T
      OBVIOUS
    <3>2. ASSUME NEW t \in T PROVE \E f \in F : f.task = t
      <4>1. [task |-> t, target |-> target[t]] \in F
        OBVIOUS
      <4> QED
        BY <4>1
    <3> HIDE DEF F
    <3> QED
      BY <3>1, <3>2
  <2> QED
    BY <1>5, <2>1, <2>2 DEF Unsent
<1>7. /\ DOMAIN tasks' = DOMAIN tasks
      /\ \A t \in DOMAIN tasks \ T : tasks'[t] = tasks[t]
      /\ \A t \in T : tasks'[t].state = "Running" /\ tasks'[t].retry = tasks[t].retry
  <2>1. /\ DOMAIN tasks' = DOMAIN tasks
        /\ \A t \in DOMAIN tasks \ T : tasks'[t] = tasks[t]
        /\ \A t \in T : tasks'[t] = [tasks[t] EXCEPT !.state = "Running", !.node = target[t]]
    BY <1>1, <1>3 DEF Assign
  <2>2. \A t \in T : tasks[t] \in Task
    BY <1>3 DEF TasksOK, WellFormed
  <2>3. ASSUME NEW t \in T
        PROVE  tasks'[t].state = "Running" /\ tasks'[t].retry = tasks[t].retry
    BY <2>1, <2>2 DEF Task
  <2> QED
    BY <2>1, <2>3
<1>8. NeverRetried'
  BY <1>3, <1>7 DEF Delivery, NeverRetried
<1>9. /\ T \cap Begun = {} /\ Begun' = Begun \cup T
      /\ T \cap Alive = {} /\ Alive' = Alive \cup T
  BY <1>3, <1>7 DEF Begun, Alive
<1>10. Ledger'
  <2>1. SamePipes /\ SameWork /\ SameReports
    BY <1>2, Frames
  <2> QED
    BY <1>2, <1>6, <1>9, <2>1, MoveOut DEF Delivery
<1>11. Orderly'
  <2>1. \A e \in Dispatcher : \A f, g \in outbox'[e] : f.task = g.task => f = g
    BY <1>5 DEF Delivery, Orderly
  <2> QED
    BY <1>2, <2>1 DEF Delivery, Orderly
<1>12. SocketsOK'
  BY <1>2 DEF Delivery, SocketsOK
<1>13. ThreadsOK'
  <2>1. F \subseteq Frame
    BY <1>3 DEF Frame, TasksOK, RegistryOK
  <2>2. outbox' \in [Dispatcher -> SUBSET Frame]
    BY <1>1, <2>1 DEF Delivery, ThreadsOK
  <2>3. thread' \in [Dispatcher -> {"idle", "list", "assign", "push"}]
    BY <1>2 DEF Delivery, ThreadsOK
  <2>4. Idle(d)' /\ \A e \in Dispatcher \ {d} : Idle(e)' = Idle(e)
    BY <1>1 DEF Assign, Idle, EmptyMap, RegistryOK
  <2>5. \A e \in Dispatcher : /\ Idle(e)' <=> thread'[e] # "assign"
                              /\ thread'[e] # "push" => outbox'[e] = {}
    BY <1>2, <1>5, <2>4 DEF Delivery, ThreadsOK
  <2>6. serving # NoTask => thread'[Medium] # "idle"
    BY <1>2 DEF Delivery, ThreadsOK
  <2> QED
    BY <1>2, <2>2, <2>3, <2>5, <2>6 DEF Delivery, ThreadsOK
<1> QED
  BY <1>4, <1>8, <1>10, <1>11, <1>12, <1>13 DEF Delivery

(* A frame is pushed to whichever worker has room. *)
LEMMA PushOK ==
  ASSUME Delivery, NEW d \in Dispatcher, NEW w \in NodeId, Push(d, w)
  PROVE  Delivery' /\ UNCHANGED vars
<1>1. PICK f \in outbox[d] : /\ pipe' = [pipe EXCEPT ![w] = Append(@, f)]
                             /\ outbox' = [outbox EXCEPT ![d] = @ \ {f}]
  BY DEF Push
<1>2. /\ UNCHANGED <<vars, worker, profiles, linked, run, progress, thread, serving, published, lost>>
      /\ thread[d] = "push" /\ Len(pipe[w]) < PipeCap
  BY DEF Push
<1>3. f \in Frame /\ pipe[w] \in Seq(Frame) /\ f.task \in Unsent(d)
  BY DEF Delivery, ThreadsOK, SocketsOK, Unsent
<1>4. /\ pipe'[w] = Append(pipe[w], f) /\ \A x \in NodeId \ {w} : pipe'[x] = pipe[x]
      /\ outbox'[d] = outbox[d] \ {f} /\ \A e \in Dispatcher \ {d} : outbox'[e] = outbox[e]
  BY <1>1 DEF Delivery, ThreadsOK, SocketsOK
<1>5. /\ OnPipe(w)' = OnPipe(w) \cup {f.task} /\ pipe'[w] \in Seq(Frame)
      /\ Len(pipe'[w]) = Len(pipe[w]) + 1
  BY <1>3, <1>4, AppendFacts DEF OnPipe
<1>6. \A x \in NodeId \ {w} : OnPipe(x)' = OnPipe(x)
  BY <1>4 DEF OnPipe
<1>7. Unsent(d)' = Unsent(d) \ {f.task} /\ \A e \in Dispatcher \ {d} : Unsent(e)' = Unsent(e)
  BY <1>4 DEF Unsent, Delivery, Orderly
<1>8. Ledger'
  <2>1. SameWork /\ SameReports /\ SameStates
    BY <1>2, Frames, SameTasks DEF vars
  <2> QED
    BY <1>2, <1>3, <1>5, <1>6, <1>7, <2>1, MoveToPipe DEF Delivery
<1>9. Orderly'
  <2>1. f.task \notin OnPipe(w)
    BY <1>3 DEF Delivery, Ledger, Apart
  <2>2. NoRepeat(pipe'[w])
    BY <1>3, <1>4, <2>1, AppendFacts DEF OnPipe, Delivery, Orderly
  <2>3. \A x \in NodeId : NoRepeat(pipe'[x]) /\ OutcomeLast(progress'[x])
    BY <1>2, <1>4, <2>2 DEF Delivery, Orderly
  <2>4. \A e \in Dispatcher : outbox'[e] \subseteq outbox[e]
    BY <1>4
  <2> QED
    BY <2>3, <2>4 DEF Delivery, Orderly
<1>10. SocketsOK'
  <2>1. pipe' \in [NodeId -> Seq(Frame)]
    BY <1>1, <1>4, <1>5 DEF Delivery, SocketsOK
  <2>2. Len(pipe'[w]) <= PipeCap
    BY <1>2, <1>3, <1>5, LenProperties, HubAssumption
  <2>3. \A x \in NodeId : Len(pipe'[x]) <= PipeCap
    BY <1>4, <2>2 DEF Delivery, SocketsOK
  <2> QED
    BY <1>2, <2>1, <2>3 DEF Delivery, SocketsOK
<1>11. ThreadsOK'
  <2>1. \A e \in Dispatcher : Idle(e)' = Idle(e)
    BY <1>2 DEF Idle, vars
  <2>2. outbox' \in [Dispatcher -> SUBSET Frame]
    BY <1>1 DEF Delivery, ThreadsOK
  <2> QED
    BY <1>2, <1>4, <2>1, <2>2 DEF Delivery, ThreadsOK
<1> QED
  BY <1>2, <1>8, <1>9, <1>10, <1>11, SameTasks DEF Delivery, vars

(* A worker at rest begins with the first task of its pipe. *)
LEMMA PullOK ==
  ASSUME Delivery, NEW w \in NodeId, Pull(w)
  PROVE  Delivery' /\ UNCHANGED vars
<1> DEFINE f == Head(pipe[w])
<1>1. /\ run' = [run EXCEPT ![w] = [task |-> f.task, stage |-> "probe"]]
      /\ pipe' = [pipe EXCEPT ![w] = Tail(@)]
      /\ run[w] = NoRun /\ pipe[w] # <<>>
      /\ UNCHANGED <<vars, worker, profiles, linked, progress, thread, outbox, serving, published, lost>>
  BY DEF Pull
<1>2. /\ pipe'[w] = Tail(pipe[w]) /\ \A x \in NodeId \ {w} : pipe'[x] = pipe[x]
      /\ run'[w] = [task |-> f.task, stage |-> "probe"] /\ \A x \in NodeId \ {w} : run'[x] = run[x]
  BY <1>1 DEF Delivery, SocketsOK
<1>3. pipe[w] \in Seq(Frame) /\ NoRepeat(pipe[w])
  BY DEF Delivery, SocketsOK, Orderly
<1>4. /\ f \in Frame /\ pipe'[w] \in Seq(Frame) /\ Len(pipe'[w]) <= Len(pipe[w])
      /\ OnPipe(w) = OnPipe(w)' \cup {f.task} /\ NoRepeat(pipe'[w]) /\ f.task \notin OnPipe(w)'
  BY <1>1, <1>2, <1>3, TailFacts DEF OnPipe
<1>5. f.task \in OnPipe(w) /\ f.task \in TaskId /\ OnPipe(w)' = OnPipe(w) \ {f.task}
  BY <1>4 DEF Frame
<1>6. AtWork(w) = {} /\ AtWork(w)' = {f.task}
  <2>1. f.task # NoTask
    BY <1>5, HubAssumption
  <2> QED
    BY <1>1, <1>2, <2>1 DEF AtWork, NoRun
<1>7. \A x \in NodeId \ {w} : OnPipe(x)' = OnPipe(x) /\ AtWork(x)' = AtWork(x)
  BY <1>2 DEF OnPipe, AtWork
<1>8. Decided(w) \subseteq Reported(w)
  BY DEF Decided, Reported, DecidedIn, TasksIn
<1>9. Ledger'
  <2>1. SameUnsent /\ SameReports /\ SameStates
    BY <1>1, Frames, SameTasks DEF vars
  <2> QED
    BY <1>1, <1>5, <1>6, <1>7, <1>8, <2>1, MoveToWork DEF Delivery
<1>10. Orderly'
  <2>1. \A x \in NodeId : NoRepeat(pipe'[x])
    BY <1>2, <1>4 DEF Delivery, Orderly
  <2> QED
    BY <1>1, <2>1 DEF Delivery, Orderly
<1>11. SocketsOK'
  <2>1. pipe' \in [NodeId -> Seq(Frame)]
    BY <1>1, <1>2, <1>4 DEF Delivery, SocketsOK
  <2>2. Len(pipe'[w]) <= PipeCap
    <3>1. Len(pipe[w]) \in Nat /\ Len(pipe'[w]) \in Nat /\ PipeCap \in Nat
      BY <1>3, <1>4, LenProperties, HubAssumption
    <3>2. Len(pipe[w]) <= PipeCap
      BY DEF Delivery, SocketsOK
    <3> QED
      BY <1>4, <3>1, <3>2
  <2>3. \A x \in NodeId : Len(pipe'[x]) <= PipeCap
    BY <1>2, <2>2 DEF Delivery, SocketsOK
  <2>4. run' \in [NodeId -> {NoRun} \cup [task : TaskId, stage : Stages]]
    BY <1>1, <1>5 DEF Delivery, SocketsOK, Stages
  <2> QED
    BY <1>1, <2>1, <2>3, <2>4 DEF Delivery, SocketsOK
<1>12. ThreadsOK'
  BY <1>1 DEF Delivery, ThreadsOK, Idle, vars
<1> QED
  BY <1>1, <1>9, <1>10, <1>11, <1>12, SameTasks DEF Delivery, vars

(* A worker reports on the task it executes; the last report it sends of   *)
(* it is the only one that says an outcome.                                *)
LEMMA SendProgressOK ==
  ASSUME Delivery, NEW w \in NodeId, run[w].task # NoTask,
         NEW status \in Status, NEW checkpointed \in BOOLEAN, NEW next \in Stages \cup {"idle"},
         status # "Running" <=> next = "idle",
         SendProgress(w, status, checkpointed, next)
  PROVE  Delivery' /\ UNCHANGED vars
<1> DEFINE t == run[w].task
           r == [task |-> t, status |-> status, checkpointed |-> checkpointed]
           O == IF status # "Running" THEN {t} ELSE {}
<1>1. /\ progress' = [progress EXCEPT ![w] = Append(@, r)]
      /\ run' = [run EXCEPT ![w] = IF next = "idle" THEN NoRun ELSE [@ EXCEPT !.stage = next]]
      /\ UNCHANGED <<vars, worker, profiles, linked, pipe, thread, outbox, serving, published, lost>>
  BY DEF SendProgress
<1>2. /\ progress'[w] = Append(progress[w], r) /\ \A x \in NodeId \ {w} : progress'[x] = progress[x]
      /\ run'[w] = IF next = "idle" THEN NoRun ELSE [run[w] EXCEPT !.stage = next]
      /\ \A x \in NodeId \ {w} : run'[x] = run[x]
  BY <1>1 DEF Delivery, SocketsOK
<1>3. /\ progress[w] \in Seq(Report) /\ OutcomeLast(progress[w])
      /\ run[w] \in [task : TaskId, stage : Stages]
  BY DEF Delivery, SocketsOK, Orderly, NoRun
<1>4. t \in AtWork(w) /\ t \in TaskId /\ r \in Report
  BY <1>3 DEF AtWork, Report
<1>5. /\ progress'[w] \in Seq(Report)
      /\ Reported(w)' = Reported(w) \cup {t} /\ Decided(w)' = Decided(w) \cup O
      /\ t \notin Decided(w) => OutcomeLast(progress'[w])
  <2>1. r.task = t /\ r.status = status
    OBVIOUS
  <2> QED
    BY <1>2, <1>3, <1>4, <2>1, AppendFacts DEF Reported, Decided
<1>6. t \notin Decided(w)
  BY <1>4 DEF Delivery, Ledger, Apart
<1>7. /\ run'[w] \in {NoRun} \cup [task : TaskId, stage : Stages]
      /\ AtWork(w)' = AtWork(w) \ O
  <2>1. CASE next = "idle"
    BY <1>2, <2>1 DEF AtWork, NoRun
  <2>2. CASE next # "idle"
    <3>1. run'[w] = [run[w] EXCEPT !.stage = next] /\ O = {}
      BY <1>2, <2>2
    <3>2. run'[w] \in [task : TaskId, stage : Stages] /\ run'[w].task = run[w].task
      BY <1>3, <2>2, <3>1
    <3> QED
      BY <3>1, <3>2 DEF AtWork
  <2> QED
    BY <2>1, <2>2
<1>8. \A x \in NodeId \ {w} : /\ AtWork(x)' = AtWork(x)
                              /\ Reported(x)' = Reported(x) /\ Decided(x)' = Decided(x)
  BY <1>2 DEF AtWork, Reported, Decided
<1>9. \A x \in NodeId : \A k \in AtWork(x) : AtWork(x) = {k}
  BY DEF AtWork
<1>10. Ledger'
  <2>1. SameUnsent /\ SamePipes /\ SameStates
    BY <1>1, Frames, SameTasks DEF vars
  <2>2. O = {} \/ O = {t}
    OBVIOUS
  <2> HIDE DEF O, t
  <2> QED
    BY <1>1, <1>4, <1>5, <1>7, <1>8, <1>9, <2>1, <2>2, MoveToReport DEF Delivery
<1>11. Orderly'
  BY <1>1, <1>2, <1>5, <1>6 DEF Delivery, Orderly
<1>12. SocketsOK'
  <2>1. progress' \in [NodeId -> Seq(Report)]
    BY <1>1, <1>2, <1>5 DEF Delivery, SocketsOK
  <2>2. run' \in [NodeId -> {NoRun} \cup [task : TaskId, stage : Stages]]
    BY <1>1, <1>2, <1>7 DEF Delivery, SocketsOK
  <2> QED
    BY <1>1, <2>1, <2>2 DEF Delivery, SocketsOK
<1>13. ThreadsOK'
  BY <1>1 DEF Delivery, ThreadsOK, Idle, vars
<1> QED
  BY <1>1, <1>10, <1>11, <1>12, <1>13, SameTasks DEF Delivery, vars

(* The steps of a worker *)
LEMMA WorkerStepOK ==
  ASSUME Delivery, NEW w \in NodeId, WorkerStep(w)
  PROVE  Delivery' /\ UNCHANGED vars
<1>1. CASE Join(w) \/ Dial(w)
  BY <1>1, JoinOK
<1>2. CASE Pull(w)
  BY <1>2, PullOK
<1>3. ASSUME NEW stage \in Stages, At(w, stage) PROVE run[w].task # NoTask
  <2>1. run[w] \in {NoRun} \cup [task : TaskId, stage : Stages]
    BY DEF Delivery, SocketsOK
  <2>2. run[w] # NoRun
    BY <1>3 DEF At, Stages, NoRun
  <2> QED
    BY <2>1, <2>2, HubAssumption
<1>4. /\ "Running" \in Status /\ "Completed" \in Status /\ "Failed" \in Status
      /\ FALSE \in BOOLEAN
      /\ {"probe", "first", "second", "infer"} = Stages
  BY DEF Status, Stages
<1>5. CASE Reject(w)
  BY <1>3, <1>4, <1>5, SendProgressOK DEF Reject
<1>6. CASE BeginGeneric(w)
  <2>1. (tasks[run[w].task].type = "StatefulLongRunning") \in BOOLEAN
    OBVIOUS
  <2> QED
    BY <1>3, <1>4, <1>6, <2>1, SendProgressOK DEF BeginGeneric
<1>7. CASE ContinueGeneric(w)
  BY <1>3, <1>4, <1>7, SendProgressOK DEF ContinueGeneric
<1>8. CASE BeginOllama(w)
  BY <1>3, <1>4, <1>8, SendProgressOK DEF BeginOllama
<1>9. CASE Finish(w)
  BY <1>3, <1>4, <1>9, SendProgressOK DEF Finish
<1>10. CASE OllamaFails(w)
  BY <1>3, <1>4, <1>10, SendProgressOK DEF OllamaFails
<1> QED
  BY <1>1, <1>2, <1>5, <1>6, <1>7, <1>8, <1>9, <1>10 DEF WorkerStep

(* The progress thread takes the oldest report of a worker: a completion   *)
(* settles its task, which is at no other place by then.                   *)
LEMMA ReceiveProgressOK ==
  ASSUME Delivery, TasksOK, NEW w \in NodeId, ReceiveProgress(w)
  PROVE  Delivery' /\ [Next]_vars
<1> DEFINE r == Head(progress[w])
           t == r.task
<1>1. /\ progress[w] # <<>> /\ progress' = [progress EXCEPT ![w] = Tail(@)]
      /\ published' = [published EXCEPT ![t] = @ \cup {r.status}]
      /\ Deliver(r)
      /\ UNCHANGED <<worker, profiles, linked, pipe, run, thread, outbox, serving, lost>>
  BY DEF ReceiveProgress
<1>2. progress'[w] = Tail(progress[w]) /\ \A x \in NodeId \ {w} : progress'[x] = progress[x]
  BY <1>1 DEF Delivery, SocketsOK
<1>3. progress[w] \in Seq(Report) /\ OutcomeLast(progress[w])
  BY DEF Delivery, SocketsOK, Orderly
<1>4. /\ r \in Report /\ progress'[w] \in Seq(Report) /\ OutcomeLast(progress'[w])
      /\ Reported(w) = Reported(w)' \cup {t}
      /\ Decided(w) = Decided(w)' \cup (IF r.status # "Running" THEN {t} ELSE {})
      /\ r.status # "Running" => t \notin Reported(w)'
  BY <1>1, <1>2, <1>3, TailFacts DEF Reported, Decided
<1>5. t \in TaskId /\ r.status \in Status /\ r.checkpointed \in BOOLEAN
  BY <1>4 DEF Report
<1>6. t \in Alive
  BY <1>4 DEF Delivery, Ledger, InPlayRuns
<1>7. tasks[t] \in Task /\ tasks[t].state = "Running" /\ t \in DOMAIN tasks
  BY <1>6 DEF Alive, TasksOK, WellFormed
<1>8. /\ published' \in [TaskId -> SUBSET Status]
      /\ \A k \in TaskId : published[k] \subseteq published'[k]
      /\ r.status \in published'[t]
  BY <1>1, <1>5 DEF Delivery, SocketsOK
<1>9. Alive \subseteq TaskId /\ published \in [TaskId -> SUBSET Status]
  BY DEF Alive, TasksOK, Delivery, SocketsOK
<1>10. \A x \in NodeId \ {w} : Reported(x)' = Reported(x) /\ Decided(x)' = Decided(x)
  BY <1>2 DEF Reported, Decided
<1>11. SameUnsent /\ SamePipes /\ SameWork
  BY <1>1, Frames
<1>12. Decided(w) \subseteq Reported(w)
  BY DEF Decided, Reported, DecidedIn, TasksIn
<1>13. ASSUME r.status = "Completed" PROVE Ledger' /\ NeverRetried' /\ [Next]_vars
  <2>1. Progress(t, Success)
    BY <1>1, <1>13 DEF Deliver
  <2>2. /\ DOMAIN tasks' = DOMAIN tasks
        /\ tasks'[t].state = "Completed" /\ tasks'[t].retry = tasks[t].retry
        /\ \A k \in DOMAIN tasks \ {t} : tasks'[k] = tasks[k]
    BY <1>7, <2>1 DEF Progress, OnResult, Success, Settle, Task
  <2>3. Alive' = Alive \ {t} /\ Begun' = Begun /\ NeverRetried'
    BY <1>7, <2>2 DEF Alive, Begun, NeverRetried, Delivery
  <2>4. Ledger'
    BY <1>1, <1>4, <1>9, <1>10, <1>11, <1>12, <1>13, <2>3, MoveOutcome DEF Delivery
  <2> QED
    BY <1>5, <2>1, <2>3, <2>4 DEF Next, ExecutionResult, Progress
<1>14. ASSUME r.status # "Completed" PROVE Ledger' /\ NeverRetried' /\ [Next]_vars
  <2>1. (r.checkpointed /\ Progress(t, CheckpointSaved(Checkpoint))) \/ UNCHANGED vars
    BY <1>1, <1>14 DEF Deliver
  <2>2. SameStates /\ NeverRetried' /\ [Next]_vars
    <3>1. CASE UNCHANGED vars
      BY <3>1, SameTasks DEF vars, Delivery
    <3>2. CASE Progress(t, CheckpointSaved(Checkpoint))
      <4>1. /\ DOMAIN tasks' = DOMAIN tasks
            /\ tasks'[t].state = tasks[t].state /\ tasks'[t].retry = tasks[t].retry
            /\ \A k \in DOMAIN tasks \ {t} : tasks'[k] = tasks[k]
        BY <1>7, <3>2 DEF Progress, OnResult, CheckpointSaved, Task
      <4>2. CheckpointSaved(Checkpoint) \in ExecutionResult
        BY HubAssumption DEF ExecutionResult
      <4> QED
        BY <1>5, <1>7, <3>2, <4>1, <4>2 DEF SameStates, Alive, Begun, NeverRetried, Delivery, Next
    <3> QED
      BY <2>1, <3>1, <3>2
  <2>3. CASE r.status = "Failed"
    <3>1. Ledger'
      BY <1>1, <1>4, <1>9, <1>10, <1>11, <1>12, <2>2, <2>3, MoveOutcome DEF Delivery, SameStates
    <3> QED
      BY <2>2, <3>1
  <2>4. CASE r.status = "Running"
    <3>1. \A k \in TaskId : published'[k] \ {"Running"} = published[k] \ {"Running"}
      BY <1>1, <1>9, <2>4
    <3>2. Ledger'
      BY <1>1, <1>4, <1>8, <1>9, <1>10, <1>11, <2>2, <2>4, <3>1, MoveNews DEF Delivery
    <3> QED
      BY <2>2, <3>2
  <2> QED
    BY <1>5, <1>14, <2>3, <2>4 DEF Status
<1>15. UNCHANGED snapshot
  BY <1>1 DEF Deliver, Progress, vars
<1>16. Orderly'
  BY <1>1, <1>2, <1>4 DEF Delivery, Orderly
<1>17. SocketsOK'
  <2>1. progress' \in [NodeId -> Seq(Report)]
    BY <1>1, <1>2, <1>4 DEF Delivery, SocketsOK
  <2> QED
    BY <1>1, <1>8, <2>1 DEF Delivery, SocketsOK
<1>18. ThreadsOK'
  BY <1>1, <1>15 DEF Delivery, ThreadsOK, Idle
<1> QED
  BY <1>13, <1>14, <1>16, <1>17, <1>18 DEF Delivery

(* A task loop that ends loses the task at hand and the reports that do    *)
(* not arrive.                                                             *)
LEMMA VanishOK ==
  ASSUME Delivery, NEW w \in NodeId, NEW how \in {"stopped", "crashed"}, Vanish(w, how)
  PROVE  Delivery' /\ UNCHANGED vars
<1>1. PICK k \in 0..Len(progress[w]) :
        /\ progress' = [progress EXCEPT ![w] = SubSeq(@, 1, k)]
        /\ lost' = lost \cup ({run[w].task} \ {NoTask})
                        \cup {progress[w][i].task : i \in (k + 1)..Len(progress[w])}
  BY DEF Vanish
<1>2. /\ worker' = [worker EXCEPT ![w] = how]
      /\ run' = [run EXCEPT ![w] = NoRun]
      /\ UNCHANGED <<vars, profiles, linked, pipe, thread, outbox, serving, published>>
  BY DEF Vanish
<1> DEFINE q == progress[w]
           L == {q[i].task : i \in (k + 1)..Len(q)}
<1>3. q \in Seq(Report) /\ OutcomeLast(q)
  BY DEF Delivery, SocketsOK, Orderly
<1>4. /\ progress'[w] = SubSeq(q, 1, k) /\ \A x \in NodeId \ {w} : progress'[x] = progress[x]
      /\ run'[w] = NoRun /\ \A x \in NodeId \ {w} : run'[x] = run[x]
  BY <1>1, <1>2 DEF Delivery, SocketsOK
<1>5. lost' = lost \cup AtWork(w) \cup L
  BY <1>1 DEF AtWork
<1>6. /\ progress'[w] \in Seq(Report) /\ OutcomeLast(progress'[w])
      /\ Reported(w)' \subseteq Reported(w) /\ Decided(w)' \subseteq Decided(w)
      /\ Decided(w) \subseteq Decided(w)' \cup L /\ L \subseteq Reported(w)
  BY <1>3, <1>4, PrefixFacts DEF Reported, Decided
<1>7. AtWork(w)' = {}
  BY <1>4 DEF AtWork, NoRun
<1>8. \A x \in NodeId \ {w} : /\ AtWork(x)' = AtWork(x)
                              /\ Reported(x)' = Reported(x) /\ Decided(x)' = Decided(x)
  BY <1>4 DEF AtWork, Reported, Decided
<1>9. Ledger'
  <2>1. SameUnsent /\ SamePipes /\ SameStates
    BY <1>2, Frames, SameTasks DEF vars
  <2> HIDE DEF L
  <2>2. AtWork(w) \subseteq lost' /\ lost \subseteq lost' /\ Decided(w) \subseteq Decided(w)' \cup lost'
    BY <1>5, <1>6
  <2> QED
    BY <1>2, <1>6, <1>7, <1>8, <2>1, <2>2, MoveVanish DEF Delivery
<1>10. Orderly'
  BY <1>2, <1>4, <1>6 DEF Delivery, Orderly
<1>11. SocketsOK'
  <2>1. progress' \in [NodeId -> Seq(Report)]
    BY <1>1, <1>4, <1>6 DEF Delivery, SocketsOK
  <2>2. run' \in [NodeId -> {NoRun} \cup [task : TaskId, stage : Stages]]
    BY <1>2 DEF Delivery, SocketsOK
  <2>3. Reported(w) \subseteq TaskId /\ AtWork(w) \subseteq TaskId
    <3>1. \A i \in DOMAIN q : q[i] \in Report
      BY <1>3, ElementOfSeq, LenProperties
    <3>2. run[w] \in {NoRun} \cup [task : TaskId, stage : Stages]
      BY DEF Delivery, SocketsOK
    <3> QED
      BY <3>1, <3>2 DEF Reported, TasksIn, AtWork, Report, NoRun
  <2>4. lost' \subseteq TaskId
    BY <1>5, <1>6, <2>3 DEF Delivery, SocketsOK
  <2>5. worker' \in [NodeId -> {"joining", "profiled", "pulling", "stopped", "crashed"}]
    BY <1>2 DEF Delivery, SocketsOK
  <2> QED
    BY <1>2, <2>1, <2>2, <2>4, <2>5 DEF Delivery, SocketsOK
<1>12. ThreadsOK'
  BY <1>2 DEF Delivery, ThreadsOK, Idle, vars
<1> QED
  BY <1>2, <1>9, <1>10, <1>11, <1>12, SameTasks DEF Delivery, vars

(* A closed pipe loses its frames. *)
LEMMA ClosePipeOK ==
  ASSUME Delivery, NEW w \in NodeId, ClosePipe(w)
  PROVE  Delivery' /\ UNCHANGED vars
<1>1. /\ linked' = linked \ {w} /\ pipe' = [pipe EXCEPT ![w] = <<>>]
      /\ lost' = lost \cup FramesTo(w)
      /\ UNCHANGED <<vars, worker, profiles, run, progress, thread, outbox, serving, published>>
  BY DEF ClosePipe
<1>2. FramesTo(w) = OnPipe(w)
  BY DEF FramesTo, OnPipe, TasksIn
<1>3. pipe'[w] = <<>> /\ \A x \in NodeId \ {w} : pipe'[x] = pipe[x]
  BY <1>1 DEF Delivery, SocketsOK
<1>4. OnPipe(w)' = {} /\ NoRepeat(pipe'[w]) /\ pipe'[w] \in Seq(Frame) /\ Len(pipe'[w]) = 0
  BY <1>3, EmptyFacts DEF OnPipe
<1>5. \A x \in NodeId \ {w} : OnPipe(x)' = OnPipe(x)
  BY <1>3 DEF OnPipe
<1>6. Ledger'
  <2>1. SameUnsent /\ SameWork /\ SameReports /\ SameStates
    BY <1>1, Frames, SameTasks DEF vars
  <2> QED
    BY <1>1, <1>2, <1>4, <1>5, <2>1, MoveDiscard DEF Delivery
<1>7. Orderly'
  <2>1. \A x \in NodeId : NoRepeat(pipe'[x])
    BY <1>3, <1>4 DEF Delivery, Orderly
  <2> QED
    BY <1>1, <2>1 DEF Delivery, Orderly
<1>8. SocketsOK'
  <2>1. pipe' \in [NodeId -> Seq(Frame)]
    BY <1>1, <1>3, <1>4 DEF Delivery, SocketsOK
  <2>2. \A x \in NodeId : Len(pipe'[x]) <= PipeCap
    <3>1. Len(pipe'[w]) <= PipeCap
      BY <1>4, HubAssumption
    <3>2. \A x \in NodeId \ {w} : Len(pipe'[x]) <= PipeCap
      BY <1>3 DEF Delivery, SocketsOK
    <3> QED
      BY <3>1, <3>2
  <2>3. OnPipe(w) \subseteq TaskId
    <3>1. \A i \in DOMAIN pipe[w] : pipe[w][i] \in Frame
      BY ElementOfSeq, LenProperties DEF Delivery, SocketsOK
    <3> QED
      BY <3>1 DEF OnPipe, TasksIn, Frame
  <2>4. lost' \subseteq TaskId
    BY <1>1, <1>2, <2>3 DEF Delivery, SocketsOK
  <2> QED
    BY <1>1, <2>1, <2>2, <2>4 DEF Delivery, SocketsOK
<1>9. ThreadsOK'
  BY <1>1 DEF Delivery, ThreadsOK, Idle, vars
<1> QED
  BY <1>1, <1>6, <1>7, <1>8, <1>9, SameTasks DEF Delivery, vars
------------------------------------------------------------------------------
(* The invariant *)

(* The hub starts with nothing handed out. *)
LEMMA HubInitOK == HubInit => HubInv
<1> SUFFICES ASSUME HubInit PROVE HubInv
  OBVIOUS
<1>1. DOMAIN EmptyMap = {} /\ DOMAIN tasks = {}
  BY DEF EmptyMap, HubInit
<1>2. TasksOK
  BY <1>1 DEF HubInit, EmptyMap, TasksOK
<1>3. RegistryOK
  BY <1>1, HubAssumption DEF HubInit, EmptyMap, RegistryOK
<1>4. SocketsOK
  BY EmptyFacts, HubAssumption DEF HubInit, SocketsOK
<1>5. ThreadsOK
  BY <1>1 DEF HubInit, ThreadsOK, Idle
<1>6. Orderly
  BY EmptyFacts DEF HubInit, Orderly
<1>7. /\ \A d \in Dispatcher : Unsent(d) = {}
      /\ \A w \in NodeId : OnPipe(w) = {} /\ AtWork(w) = {} /\ Reported(w) = {} /\ Decided(w) = {}
  BY EmptyFacts DEF HubInit, Unsent, OnPipe, AtWork, Reported, Decided, NoRun
<1>8. Ledger
  BY <1>1, <1>7 DEF HubInit, Ledger, Apart, InPlayRuns, AllAccounted, Alive, Concluded
<1>9. NeverRetried
  BY <1>1 DEF NeverRetried
<1> QED
  BY <1>2, <1>3, <1>4, <1>5, <1>6, <1>8, <1>9 DEF HubInv, Delivery

(* A step of the hub keeps every task accounted for, and is a step of the  *)
(* scheduler or leaves the scheduler alone.                                *)
LEMMA HubStepOK == HubInv /\ [HubNext]_allVars => Delivery' /\ [Next]_vars
<1> SUFFICES ASSUME HubInv, [HubNext]_allVars PROVE Delivery' /\ [Next]_vars
  OBVIOUS
<1>0. Delivery /\ TasksOK /\ RegistryOK
  BY DEF HubInv
<1>1. CASE WakeSender
  BY <1>0, <1>1, WakeSenderOK
<1>2. ASSUME NEW d \in Dispatcher, List(d) PROVE Delivery' /\ [Next]_vars
  BY <1>0, <1>2, ListOK DEF Next
<1>3. ASSUME NEW d \in Dispatcher, AssignFrames(d) PROVE Delivery' /\ [Next]_vars
  BY <1>0, <1>3, AssignFramesOK DEF Next
<1>4. ASSUME NEW d \in Dispatcher, NEW w \in NodeId, Push(d, w) PROVE Delivery' /\ [Next]_vars
  BY <1>0, <1>4, PushOK
<1>5. ASSUME NEW d \in Dispatcher, EndPass(d) PROVE Delivery' /\ [Next]_vars
  BY <1>0, <1>5, EndPassOK
<1>6. ASSUME NEW w \in NodeId, ReceiveProfile(w) PROVE Delivery' /\ [Next]_vars
  BY <1>0, <1>6, ReceiveProfileOK DEF Next
<1>7. ASSUME NEW w \in NodeId, WorkerStep(w) PROVE Delivery' /\ [Next]_vars
  BY <1>0, <1>7, WorkerStepOK
<1>8. ASSUME NEW w \in NodeId, Crash(w) \/ CutPrompt(w) \/ ClosePipe(w)
      PROVE  Delivery' /\ [Next]_vars
  <2>1. Crash(w) \/ CutPrompt(w) => Vanish(w, "crashed") \/ Vanish(w, "stopped")
    BY DEF Crash, CutPrompt
  <2> QED
    BY <1>0, <1>8, <2>1, VanishOK, ClosePipeOK
<1>9. ASSUME NEW t \in TaskId, NEW s \in Submissions, ServeSubmit(t, s)
      PROVE  Delivery' /\ [Next]_vars
  BY <1>0, <1>9, ServeSubmitOK DEF Next
<1>10. ASSUME NEW w \in NodeId, ReceiveProgress(w) PROVE Delivery' /\ [Next]_vars
  BY <1>0, <1>10, ReceiveProgressOK
<1>11. CASE UNCHANGED allVars
  <2>1. UNCHANGED <<tasks, pipe, run, progress, outbox, published, lost>> /\ UNCHANGED vars
    BY <1>11 DEF allVars, vars, hubVars
  <2>2. Orderly' /\ Ledger' /\ NeverRetried'
    BY <1>0, <2>1, QuietMoves DEF Delivery
  <2>3. SocketsOK' /\ ThreadsOK'
    BY <1>0, <1>11 DEF Delivery, SocketsOK, ThreadsOK, Idle, allVars, vars, hubVars
  <2> QED
    BY <2>1, <2>2, <2>3 DEF Delivery
<1>12. Sender \in Dispatcher /\ Medium \in Dispatcher
  BY HubAssumption
<1> QED
  BY <1>1, <1>2, <1>3, <1>4, <1>5, <1>6, <1>7, <1>8, <1>9, <1>10, <1>11, <1>12
     DEF HubNext, Internal, HubStep

LEMMA HubNextOK == HubInv /\ [HubNext]_allVars => HubInv'
<1>1. HubInv /\ [HubNext]_allVars => TasksOK' /\ RegistryOK' /\ Delivery'
  BY HubStepOK, NextOK DEF HubInv
<1> QED
  BY <1>1 DEF HubInv

LEMMA HubInvariance == HubSpec => []HubInv
BY HubInitOK, HubNextOK, PTL DEF HubSpec
------------------------------------------------------------------------------
(* The theorems *)

(* Types of the hub's state; what a worker executes is in the task map. *)
LEMMA HubTypes == HubInv => HubTypeOK
<1> SUFFICES ASSUME HubInv PROVE HubTypeOK
  OBVIOUS
<1>1. TypeOK
  BY IInvParts DEF HubInv, IInv
<1>2. SocketsOK /\ ThreadsOK /\ InPlayRuns
  BY DEF HubInv, Delivery, Ledger
<1>3. ASSUME NEW w \in NodeId
      PROVE  run[w] \in {NoRun} \cup [task : DOMAIN tasks, stage : Stages]
  <2>1. CASE run[w] = NoRun
    BY <2>1
  <2>2. CASE run[w] \in [task : TaskId, stage : Stages]
    <3>1. run[w].task \in AtWork(w)
      BY <2>2, HubAssumption DEF AtWork
    <3>2. run[w].task \in DOMAIN tasks
      BY <1>2, <3>1 DEF InPlayRuns, Alive
    <3> QED
      BY <2>2, <3>2
  <2> QED
    BY <1>2, <2>1, <2>2 DEF SocketsOK
<1> QED
  BY <1>1, <1>2, <1>3 DEF HubTypeOK, SocketsOK, ThreadsOK

THEOREM HubTypeCorrect == HubSpec => []HubTypeOK
BY HubInvariance, HubTypes, PTL

(* Holders in terms of the places *)
LEMMA HoldersAre ==
  ASSUME NEW t, NEW h
  PROVE  h \in Holders(t) <=> \/ \E d \in Dispatcher : h = <<"outbox", d>> /\ t \in Unsent(d)
                              \/ \E w \in NodeId : h = <<"pipe", w>> /\ t \in OnPipe(w)
                              \/ \E w \in NodeId : h = <<"run", w>> /\ run[w].task = t
<1>1. \A d : (\E f \in outbox[d] : f.task = t) <=> t \in Unsent(d)
  BY DEF Unsent
<1>2. \A w : FramesTo(w) = OnPipe(w)
  BY DEF FramesTo, OnPipe, TasksIn
<1>3. {d \in Dispatcher : \E f \in outbox[d] : f.task = t} = {d \in Dispatcher : t \in Unsent(d)}
  BY <1>1
<1>4. Holders(t) = {<<"outbox", d>> : d \in {d \in Dispatcher : t \in Unsent(d)}}
                     \cup {<<"pipe", w>> : w \in {w \in NodeId : t \in OnPipe(w)}}
                     \cup {<<"run", w>> : w \in {w \in NodeId : run[w].task = t}}
  BY <1>2, <1>3 DEF Holders
<1> QED
  BY <1>4

(* A task is handed to one thread or worker at a time, and only while Running. *)
LEMMA OnePlace == HubInv => SingleDelivery
<1> SUFFICES ASSUME HubInv, NEW t \in DOMAIN tasks
             PROVE  /\ Cardinality(Holders(t)) <= 1
                    /\ Holders(t) # {} => tasks[t].state = "Running"
  BY DEF SingleDelivery
<1>1. Apart /\ InPlayRuns /\ t # NoTask
  BY HubAssumption DEF HubInv, Delivery, Ledger, TasksOK
<1>2. \A w \in NodeId : run[w].task = t <=> t \in AtWork(w)
  BY <1>1 DEF AtWork
<1>3. ASSUME NEW g \in Holders(t), NEW h \in Holders(t) PROVE g = h
  BY <1>1, <1>2, HoldersAre DEF Apart
<1>4. Cardinality(Holders(t)) <= 1
  <2>1. CASE Holders(t) = {}
    BY <2>1, FS_EmptySet
  <2>2. CASE Holders(t) # {}
    <3>1. PICK h \in Holders(t) : Holders(t) = {h}
      BY <1>3, <2>2
    <3> QED
      BY <3>1, FS_Singleton
  <2> QED
    BY <2>1, <2>2
<1>5. ASSUME NEW h \in Holders(t) PROVE tasks[t].state = "Running"
  BY <1>1, <1>2, HoldersAre DEF InPlayRuns, Alive
<1> QED
  BY <1>4, <1>5

THEOREM DeliveredToOne == HubSpec => []SingleDelivery
BY HubInvariance, OnePlace, PTL

(* A Running task is held, its outcome is under way, it is known to have   *)
(* failed, or it went with a task loop.                                    *)
LEMMA NothingForgotten == HubInv => RunningAccounted
<1> SUFFICES ASSUME HubInv, NEW t \in DOMAIN tasks, tasks[t].state = "Running"
             PROVE  Holders(t) # {} \/ Outcome(t) \/ "Failed" \in published[t] \/ t \in lost
  BY DEF RunningAccounted
<1>1. Accounted(t)
  BY DEF HubInv, Delivery, Ledger, AllAccounted, Alive
<1>2. ASSUME NEW d \in Dispatcher, t \in Unsent(d) PROVE Holders(t) # {}
  BY <1>2, HoldersAre
<1>3. ASSUME NEW w \in NodeId, t \in OnPipe(w) PROVE Holders(t) # {}
  BY <1>3, HoldersAre
<1>4. ASSUME NEW w \in NodeId, t \in AtWork(w) PROVE Holders(t) # {}
  BY <1>4, HoldersAre DEF AtWork
<1>5. ASSUME NEW w \in NodeId, t \in Decided(w) PROVE Outcome(t)
  BY <1>5 DEF Outcome, Decided, DecidedIn
<1> QED
  BY <1>1, <1>2, <1>3, <1>4, <1>5 DEF Accounted

THEOREM RunningIsAccounted == HubSpec => []RunningAccounted
BY HubInvariance, NothingForgotten, PTL

(* No task is dispatched a second time. *)
LEMMA OneAttempt == HubInv => HandedOutOnce
<1> SUFFICES ASSUME HubInv, NEW t \in DOMAIN tasks PROVE attempts[t] <= 1
  BY DEF HandedOutOnce
<1>1. attempts[t] \in Nat /\ PaidFor(tasks[t], attempts[t]) /\ tasks[t].retry = 0
  BY DEF HubInv, TasksOK, Delivery, NeverRetried
<1> QED
  BY <1>1 DEF PaidFor

THEOREM AtMostOnce == HubSpec => []HandedOutOnce
BY HubInvariance, OneAttempt, PTL

(* What a step of the hub may do to the task map: a submission under a     *)
(* fresh identifier, a pass, or a report on a Running task.                *)
TaskMapStep ==
  \/ UNCHANGED tasks
  \/ \E k \in TaskId \ DOMAIN tasks, s \in Submissions : Submit(k, s)
  \/ \E d \in Dispatcher : AssignPending(d)
  \/ \E k \in Alive, result \in ExecutionResult : Progress(k, result)

LEMMA TaskMapSteps == HubInv /\ [HubNext]_allVars => TaskMapStep
<1> SUFFICES ASSUME HubInv, [HubNext]_allVars PROVE TaskMapStep
  OBVIOUS
<1>0. Delivery /\ TasksOK /\ RegistryOK
  BY DEF HubInv
<1>1. ASSUME NEW k \in TaskId, NEW s \in Submissions, ServeSubmit(k, s) PROVE TaskMapStep
  BY <1>1 DEF ServeSubmit, TaskMapStep
<1>2. ASSUME NEW d \in Dispatcher, AssignFrames(d) PROVE TaskMapStep
  BY <1>0, <1>2, AssignFramesOK DEF TaskMapStep
<1>3. ASSUME NEW w \in NodeId, ReceiveProgress(w) PROVE TaskMapStep
  <2> DEFINE r == Head(progress[w])
  <2>1. progress[w] # <<>> /\ Deliver(r)
    BY <1>3 DEF ReceiveProgress
  <2>2. r.task \in Reported(w)
    BY <1>0, <2>1, TailFacts DEF Delivery, SocketsOK, Reported
  <2>3. r.task \in Alive
    BY <1>0, <2>2 DEF Delivery, Ledger, InPlayRuns
  <2>4. Success \in ExecutionResult /\ CheckpointSaved(Checkpoint) \in ExecutionResult
    BY HubAssumption DEF ExecutionResult
  <2>5. Progress(r.task, Success) \/ Progress(r.task, CheckpointSaved(Checkpoint)) \/ UNCHANGED tasks
    BY <2>1 DEF Deliver, vars
  <2> QED
    BY <2>3, <2>4, <2>5 DEF TaskMapStep
<1>4. ASSUME NEW d \in Dispatcher, List(d) PROVE UNCHANGED tasks
  BY <1>4 DEF List, ListNodes
<1>5. ASSUME NEW d \in Dispatcher, NEW w \in NodeId, Push(d, w) PROVE UNCHANGED tasks
  BY <1>5 DEF Push, vars
<1>6. ASSUME NEW w \in NodeId, WorkerStep(w) PROVE UNCHANGED tasks
  BY <1>0, <1>6, WorkerStepOK DEF vars
<1>7. ASSUME NEW w \in NodeId, ReceiveProfile(w) \/ Crash(w) \/ CutPrompt(w) \/ ClosePipe(w)
      PROVE  UNCHANGED tasks
  BY <1>7 DEF ReceiveProfile, Register, Crash, CutPrompt, Vanish, ClosePipe, vars
<1>8. WakeSender \/ (\E d \in Dispatcher : EndPass(d)) \/ UNCHANGED allVars => UNCHANGED tasks
  BY DEF WakeSender, EndPass, allVars, vars
<1>9. UNCHANGED tasks => TaskMapStep
  BY DEF TaskMapStep
<1> QED
  BY <1>1, <1>2, <1>3, <1>4, <1>5, <1>6, <1>7, <1>8, <1>9, HubAssumption
     DEF HubNext, Internal, HubStep

(* A completed task is never touched again. *)
LEMMA CompletedStays ==
  ASSUME HubInv, [HubNext]_allVars, NEW t \in DOMAIN tasks, tasks[t].state = "Completed"
  PROVE  tasks'[t] = tasks[t]
<1>1. TaskMapStep
  BY TaskMapSteps
<1>2. ASSUME NEW k \in TaskId \ DOMAIN tasks, NEW s \in Submissions, Submit(k, s)
      PROVE  tasks'[t] = tasks[t]
  BY <1>2 DEF Submit, Put
<1>3. ASSUME NEW d \in Dispatcher, AssignPending(d) PROVE tasks'[t] = tasks[t]
  <2>1. PICK target \in Targets(snapshot[d]) : Assign(d, target)
    BY <1>3 DEF AssignPending
  <2>2. t \notin DOMAIN target
    BY TargetFacts
  <2> QED
    BY <2>1, <2>2 DEF Assign
<1>4. ASSUME NEW k \in Alive, NEW r \in ExecutionResult, Progress(k, r)
      PROVE  tasks'[t] = tasks[t]
  BY <1>4 DEF Alive, Progress
<1> QED
  BY <1>1, <1>2, <1>3, <1>4 DEF TaskMapStep

THEOREM CompletionIsFinal == HubSpec => CompletedIsFinal
<1>1. HubInv /\ [HubNext]_allVars
        => [\A t \in DOMAIN tasks : tasks[t].state = "Completed" => tasks'[t] = tasks[t]]_allVars
  BY CompletedStays
<1> QED
  BY <1>1, HubInvariance, PTL DEF HubSpec, CompletedIsFinal

(* With both its threads dispatching, the hub still implements the promise *)
(* on retries, as the scheduler alone does.                                *)
THEOREM HubKeepsPromise == HubSpec => KeepsPromise
<1>1. HubInit => Promise!Init
  BY DEF HubInit, EmptyMap, Promise!Init, AbsPhase, AbsBudget
<1>2. HubInv /\ [HubNext]_allVars => [Promise!Next]_(Promise!vars)
  BY HubStepOK, PromiseStep DEF HubInv
<1> QED
  BY <1>1, <1>2, HubInvariance, PTL DEF HubSpec, KeepsPromise, Promise!Spec
------------------------------------------------------------------------------
(* What the clients of the hub rely on *)

(* A task stays in the map and stays what was asked for. *)
LEMMA TasksStay ==
  ASSUME HubInv, [HubNext]_allVars, NEW t \in DOMAIN tasks
  PROVE  /\ t \in DOMAIN tasks'
         /\ tasks'[t].type = tasks[t].type /\ tasks'[t].required = tasks[t].required
<1> DEFINE Stays == /\ t \in DOMAIN tasks'
                    /\ tasks'[t].type = tasks[t].type /\ tasks'[t].required = tasks[t].required
<1>0. TasksOK /\ WellFormed(tasks[t])
  BY DEF HubInv, TasksOK
<1>1. TaskMapStep
  BY TaskMapSteps
<1>2. ASSUME NEW k \in TaskId \ DOMAIN tasks, NEW s \in Submissions, Submit(k, s) PROVE Stays
  BY <1>2 DEF Submit, Put
<1>3. ASSUME NEW d \in Dispatcher, AssignPending(d) PROVE Stays
  <2>1. PICK target \in Targets(snapshot[d]) : Assign(d, target)
    BY <1>3 DEF AssignPending
  <2>2. /\ t \in DOMAIN tasks'
        /\ tasks'[t] = tasks[t] \/ tasks'[t] = [tasks[t] EXCEPT !.state = "Running", !.node = target[t]]
    BY <2>1 DEF Assign
  <2> QED
    BY <1>0, <2>2 DEF WellFormed, Task
<1>4. ASSUME NEW k \in Alive, NEW r \in ExecutionResult, Progress(k, r) PROVE Stays
  <2>1. t \in DOMAIN tasks' /\ (tasks'[t] = tasks[t] \/ tasks'[t] = OnResult(tasks[t], r))
    BY <1>4 DEF Progress
  <2> QED
    BY <1>0, <2>1, OnResultFacts
<1> QED
  BY <1>1, <1>2, <1>3, <1>4 DEF TaskMapStep

(* What was published stays published. *)
LEMMA PublishedStays ==
  ASSUME HubInv, [HubNext]_allVars, NEW t \in TaskId
  PROVE  published[t] \subseteq published'[t]
<1>1. published \in [TaskId -> SUBSET Status]
  BY DEF HubInv, Delivery, SocketsOK
<1>2. ASSUME NEW w \in NodeId, ReceiveProgress(w) PROVE published[t] \subseteq published'[t]
  BY <1>1, <1>2 DEF ReceiveProgress
<1>3. ASSUME NEW w \in NodeId, WorkerStep(w) PROVE UNCHANGED published
  BY <1>3 DEF WorkerStep, Join, Dial, Pull, Reject, BeginGeneric, ContinueGeneric, BeginOllama,
              Finish, OllamaFails, SendProgress
<1>4. ASSUME NEW d \in Dispatcher, HubStep(d) \/ EndPass(d) PROVE UNCHANGED published
  BY <1>4 DEF HubStep, List, AssignFrames, Push, EndPass
<1>5. ASSUME NEW w \in NodeId, ReceiveProfile(w) \/ Crash(w) \/ CutPrompt(w) \/ ClosePipe(w)
      PROVE  UNCHANGED published
  BY <1>5 DEF ReceiveProfile, Crash, CutPrompt, Vanish, ClosePipe
<1>6. WakeSender \/ (\E k \in TaskId, s \in Submissions : ServeSubmit(k, s)) \/ UNCHANGED allVars
        => UNCHANGED published
  BY DEF WakeSender, ServeSubmit, allVars, hubVars
<1> QED
  BY <1>2, <1>3, <1>4, <1>5, <1>6, HubAssumption DEF HubNext, Internal

(* The outcome of a task, once told, is the only one it will ever have. *)
LEMMA OutcomesStay ==
  ASSUME HubInv, HubInv', [HubNext]_allVars, NEW t \in TaskId, NEW s \in published[t], s # "Running"
  PROVE  published[t] \ {"Running"} = {s} /\ published'[t] \ {"Running"} = {s}
<1>1. published[t] \subseteq published'[t]
  BY PublishedStays
<1>2. Concluded /\ Concluded'
  BY DEF HubInv, Delivery, Ledger
<1> QED
  BY <1>1, <1>2 DEF Concluded
==============================================================================
