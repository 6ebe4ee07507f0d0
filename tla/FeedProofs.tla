------------------------------ MODULE FeedProofs ------------------------------
(***************************************************************************)
(* The outcome of a task is never pushed out of the feed of the client     *)
(* that waits for it, as long as the buffer has room for what all other    *)
(* tasks of the hub can have reported.                                     *)
(*                                                                         *)
(* The buffer drops its oldest message.  After the outcome of a task       *)
(* nothing more is said of that task, so when its outcome is the oldest    *)
(* message, all the others are about other tasks; and no task has more     *)
(* than MaxReports reports in its life.  The inductive invariant counts    *)
(* them: those in the feed, those under way, and those the execution is    *)
(* still going to send.                                                    *)
(***************************************************************************)
EXTENDS MediumProofs

(* "Running" twice and an outcome: the most execute_task sends of one task *)
MaxReports == 3

RoomForAll == MaxReports * (Cardinality(DOMAIN tasks) - 1) < FeedCap

(* How many messages of a queue are about t *)
Places(q, t) == {i \in DOMAIN q : q[i].task = t}
Count(q, t) == Cardinality(Places(q, t))

(* The reports w may still send of t *)
StillToSend == [idle |-> 0, probe |-> 3, first |-> 2, second |-> 1, infer |-> 1]
Left(w, t) == IF run[w].task = t THEN StillToSend[run[w].stage] ELSE 0
Coming(w, t) == Count(progress[w], t) + Left(w, t)

Allowance ==
  \A w \in NodeId, t \in TaskId :
    /\ Coming(w, t) <= MaxReports
    /\ \A c \in Client : Count(feed[c], t) + Coming(w, t) <= MaxReports

(* Nothing was heard of a task that no worker has pulled yet. *)
Pulled(t) == /\ t \in Begun
             /\ \A d \in Dispatcher : t \notin Unsent(d)
             /\ \A w \in NodeId : t \notin OnPipe(w)
Unheard == \A t \in TaskId : published[t] # {} => Pulled(t)

(* After the outcome of a task a feed holds nothing of it. *)
FeedsOrdered == \A c \in Client : OutcomeLast(feed[c])

(* The task c watches, or is going to watch unless it gives up *)
Awaits(c, t) ==
  \/ at[c] = "watching" /\ watched[c] = t
  \/ answer[c] = t
  \/ /\ served # NoRequest /\ serving = t
     /\ served.from = c /\ ticket[c] = served.number

Kept == \A c \in Client, t \in TaskId :
          Awaits(c, t) /\ Outcomes(t) # {} => t \in DecidedIn(feed[c])

FeedInv == /\ IsFiniteSet(DOMAIN tasks)
           /\ Allowance /\ Unheard /\ FeedsOrdered
           /\ RoomForAll => Kept
------------------------------------------------------------------------------
(* Counting messages *)

(* There are finitely many, and none only where the task does not occur. *)
LEMMA CountFacts ==
  ASSUME NEW S, NEW q \in Seq(S), NEW t
  PROVE  /\ IsFiniteSet(Places(q, t)) /\ Count(q, t) \in Nat
         /\ Count(q, t) = 0 <=> t \notin TasksIn(q)
<1>1. Len(q) \in Nat /\ DOMAIN q = 1..Len(q)
  BY LenProperties
<1>2. IsFiniteSet(1..Len(q)) /\ Places(q, t) \subseteq 1..Len(q)
  BY <1>1, FS_Interval DEF Places
<1>3. IsFiniteSet(Places(q, t))
  BY <1>2, FS_Subset
<1>4. Places(q, t) = {} <=> t \notin TasksIn(q)
  BY DEF Places, TasksIn
<1> QED
  BY <1>3, <1>4, FS_CardinalityType, FS_EmptySet DEF Count

LEMMA CountEmpty == ASSUME NEW t PROVE Count(<<>>, t) = 0
<1>1. Places(<<>>, t) = {}
  BY DEF Places
<1> QED
  BY <1>1, FS_EmptySet DEF Count

(* One more message adds one to the messages of its task, *)
LEMMA CountAppend ==
  ASSUME NEW S, NEW q \in Seq(S), NEW e \in S, NEW t
  PROVE  Count(Append(q, e), t) = Count(q, t) + (IF e.task = t THEN 1 ELSE 0)
<1> DEFINE n == Len(q)
           r == Append(q, e)
<1>1. /\ n \in Nat /\ DOMAIN q = 1..n /\ DOMAIN r = 1..(n + 1)
      /\ r[n + 1] = e /\ \A i \in 1..n : r[i] = q[i]
  BY AppendProperties, LenProperties
<1>2. IsFiniteSet(Places(q, t)) /\ Count(q, t) \in Nat
  BY CountFacts
<1> HIDE DEF n, r
<1>3. n + 1 \notin Places(q, t)
  BY <1>1 DEF Places
<1>4. CASE e.task = t
  <2>1. Places(r, t) = Places(q, t) \cup {n + 1}
    BY <1>1, <1>4 DEF Places
  <2> QED
    BY <1>2, <1>3, <1>4, <2>1, FS_AddElement DEF Count, r
<1>5. CASE e.task # t
  <2>1. Places(r, t) = Places(q, t)
    BY <1>1, <1>5 DEF Places
  <2> QED
    BY <1>2, <1>5, <2>1 DEF Count, r
<1> QED
  BY <1>4, <1>5

(* the oldest one takes one away, *)
LEMMA CountTail ==
  ASSUME NEW S, NEW q \in Seq(S), q # <<>>, NEW t
  PROVE  Count(Tail(q), t) + (IF Head(q).task = t THEN 1 ELSE 0) <= Count(q, t)
<1> DEFINE n == Len(q)
           r == Tail(q)
           P == Places(q, t)
           f == [i \in Places(r, t) |-> i + 1]
<1>1. /\ n \in Nat \ {0} /\ DOMAIN q = 1..n /\ DOMAIN r = 1..(n - 1) /\ r \in Seq(S)
      /\ q[1] = Head(q) /\ \A i \in 1..(n - 1) : r[i] = q[i + 1]
  <2>1. n \in Nat \ {0} /\ DOMAIN q = 1..n
    BY EmptySeq, LenProperties
  <2>2. r \in Seq(S) /\ Len(r) = n - 1 /\ \A i \in 1..(n - 1) : r[i] = q[i + 1]
    BY HeadTailProperties
  <2> QED
    BY <2>1, <2>2, LenProperties
<1>2. IsFiniteSet(P) /\ Cardinality(P) \in Nat /\ Cardinality(Places(r, t)) \in Nat
  BY <1>1, CountFacts DEF Count
<1> HIDE DEF n, r
<1>3. /\ \A i \in Places(r, t) : i \in Int /\ i + 1 \in P \ {1}
      /\ 1 \in P <=> q[1].task = t
  BY <1>1 DEF Places
<1>4. f \in [Places(r, t) -> P \ {1}] /\ \A i, j \in Places(r, t) : f[i] = f[j] => i = j
  BY <1>3
<1> HIDE DEF f, P
<1>5. f \in Injection(Places(r, t), P \ {1})
  BY <1>4 DEF Injection, IsInjective
<1>6. /\ IsFiniteSet(P \ {1})
      /\ Cardinality(P \ {1}) = IF 1 \in P THEN Cardinality(P) - 1 ELSE Cardinality(P)
  BY <1>2, FS_RemoveElement
<1>7. Cardinality(Places(r, t)) <= Cardinality(P \ {1})
  BY <1>5, <1>6, FS_Injection
<1>8. Cardinality(Places(r, t)) + (IF q[1].task = t THEN 1 ELSE 0) <= Cardinality(P)
  BY <1>2, <1>3, <1>6, <1>7
<1> QED
  BY <1>1, <1>8 DEF Count, P, r

(* and a loss adds none. *)
LEMMA CountPrefix ==
  ASSUME NEW S, NEW q \in Seq(S), NEW k \in 0..Len(q), NEW t
  PROVE  Count(SubSeq(q, 1, k), t) <= Count(q, t)
<1> DEFINE r == SubSeq(q, 1, k)
<1>1. Len(q) \in Nat /\ DOMAIN q = 1..Len(q) /\ k \in Nat /\ k <= Len(q)
  BY LenProperties
<1>2. DOMAIN r = 1..k /\ \A i \in 1..k : r[i] = q[i]
  <2>1. \A i \in 1..k : q[i] \in S
    BY <1>1, ElementOfSeq
  <2>2. r \in Seq(S) /\ Len(r) = k /\ \A i \in 1..k : r[i] = q[i]
    BY <1>1, <2>1, SubSeqProperties
  <2> QED
    BY <2>2, LenProperties
<1> HIDE DEF r
<1>3. Places(r, t) \subseteq Places(q, t)
  BY <1>1, <1>2 DEF Places
<1>4. Cardinality(Places(r, t)) <= Cardinality(Places(q, t))
  BY <1>3, CountFacts, FS_Subset
<1> QED
  BY <1>4 DEF Count, r

(* A queue in which no task has more than MaxReports messages is no longer *)
(* than that many messages for each task: the place of a message is given  *)
(* by its task and the number of earlier messages of that task.            *)
Earlier(q, i) == {j \in Places(q, q[i].task) : j < i}

LEMMA EarlierFacts ==
  ASSUME NEW S, NEW q \in Seq(S), NEW i \in DOMAIN q
  PROVE  /\ IsFiniteSet(Earlier(q, i)) /\ Cardinality(Earlier(q, i)) \in Nat
         /\ Cardinality(Earlier(q, i)) < Count(q, q[i].task)
<1> DEFINE P == Places(q, q[i].task)
           E == Earlier(q, i)
<1>1. i \in Nat
  BY LenProperties
<1>2. IsFiniteSet(P) /\ E \in SUBSET P /\ i \in P /\ i \notin E
  <2>1. IsFiniteSet(P)
    BY CountFacts
  <2>2. E \in SUBSET P /\ i \in P
    BY DEF Earlier, Places
  <2>3. i \notin E
    BY <1>1 DEF Earlier
  <2> QED
    BY <2>1, <2>2, <2>3
<1> HIDE DEF P, E
<1>3. IsFiniteSet(E) /\ Cardinality(E) <= Cardinality(P) /\ Cardinality(E) # Cardinality(P)
  BY <1>2, FS_Subset
<1>4. Cardinality(E) \in Nat /\ Cardinality(P) \in Nat
  BY <1>2, <1>3, FS_CardinalityType
<1>5. Cardinality(E) < Cardinality(P)
  BY <1>3, <1>4
<1> QED
  BY <1>3, <1>4, <1>5 DEF Count, P, E

LEMMA EarlierGrows ==
  ASSUME NEW S, NEW q \in Seq(S), NEW i \in DOMAIN q, NEW j \in DOMAIN q,
         i < j, q[i].task = q[j].task
  PROVE  Cardinality(Earlier(q, i)) # Cardinality(Earlier(q, j))
<1>1. i \in Nat /\ j \in Nat
  BY LenProperties
<1>2. Earlier(q, i) \in SUBSET Earlier(q, j) /\ i \in Earlier(q, j) /\ i \notin Earlier(q, i)
  BY <1>1 DEF Earlier, Places
<1> QED
  BY <1>2, EarlierFacts, FS_Subset

LEMMA Crowd ==
  ASSUME NEW S, NEW q \in Seq(S), NEW T, IsFiniteSet(T), TasksIn(q) \subseteq T,
         \A t \in T : Count(q, t) <= MaxReports
  PROVE  Len(q) <= MaxReports * Cardinality(T)
<1> DEFINE place(i) == <<q[i].task, Cardinality(Earlier(q, i))>>
           R == 0..(MaxReports - 1)
           f == [i \in DOMAIN q |-> place(i)]
<1>1. Len(q) \in Nat /\ DOMAIN q = 1..Len(q)
  BY LenProperties
<1>2. ASSUME NEW i \in DOMAIN q PROVE place(i) \in T \X R
  <2>1. q[i].task \in T
    BY DEF TasksIn
  <2>2. Cardinality(Earlier(q, i)) \in R
    <3>1. Count(q, q[i].task) \in Nat /\ Count(q, q[i].task) <= MaxReports
      BY <2>1, CountFacts
    <3> QED
      BY <3>1, EarlierFacts DEF MaxReports
  <2> QED
    BY <2>1, <2>2
<1>3. ASSUME NEW i \in DOMAIN q, NEW j \in DOMAIN q, f[i] = f[j] PROVE i = j
  <2>1. q[i].task = q[j].task /\ Cardinality(Earlier(q, i)) = Cardinality(Earlier(q, j))
    BY <1>3
  <2>2. ~ (i < j) /\ ~ (j < i)
    BY <2>1, EarlierGrows
  <2> QED
    BY <1>1, <2>2
<1>4. f \in [DOMAIN q -> T \X R]
  BY <1>2
<1> HIDE DEF f
<1>5. f \in Injection(DOMAIN q, T \X R)
  BY <1>3, <1>4 DEF Injection, IsInjective
<1>6. IsFiniteSet(R) /\ Cardinality(R) = MaxReports
  <2>1. MaxReports \in Nat \ {0}
    BY DEF MaxReports
  <2>2. \A b \in Nat : IsFiniteSet(0..b) /\ Cardinality(0..b) = b + 1
    BY FS_Interval
  <2> QED
    BY <2>1, <2>2
<1> HIDE DEF R
<1>7. IsFiniteSet(T \X R) /\ Cardinality(T \X R) = Cardinality(T) * Cardinality(R)
  BY <1>6, FS_Product
<1>8. Cardinality(DOMAIN q) <= Cardinality(T \X R)
  BY <1>5, <1>7, FS_Injection
<1>9. Cardinality(DOMAIN q) = Len(q)
  <2>1. \A n \in Nat : Cardinality(1..n) = n
    BY FS_Interval
  <2> QED
    BY <1>1, <2>1
<1>10. Cardinality(T) \in Nat
  BY FS_CardinalityType
<1>11. Cardinality(T) * MaxReports = MaxReports * Cardinality(T)
  BY <1>10 DEF MaxReports
<1> QED
  BY <1>6, <1>7, <1>8, <1>9, <1>11
------------------------------------------------------------------------------
(* What the hub and its workers do to the reports to come *)

(* The task map grows, and only by submissions. *)
LEMMA TasksFinite ==
  ASSUME HubInv, [HubNext]_allVars, IsFiniteSet(DOMAIN tasks)
  PROVE  /\ IsFiniteSet(DOMAIN tasks') /\ DOMAIN tasks \subseteq DOMAIN tasks'
         /\ Cardinality(DOMAIN tasks) <= Cardinality(DOMAIN tasks')
<1>1. TaskMapStep
  BY TaskMapSteps
<1>2. DOMAIN tasks' = DOMAIN tasks \/ \E k \in TaskId : DOMAIN tasks' = DOMAIN tasks \cup {k}
  BY <1>1 DEF TaskMapStep, Submit, Put, AssignPending, Assign, Progress
<1>3. IsFiniteSet(DOMAIN tasks') /\ DOMAIN tasks \in SUBSET DOMAIN tasks'
  BY <1>2, FS_AddElement
<1> QED
  BY <1>3, FS_Subset

(* A task that has begun never waits for a pass again. *)
LEMMA BegunStays ==
  ASSUME HubInv, HubInv', [HubNext]_allVars, NEW t \in Begun
  PROVE  t \in Begun'
<1>1. /\ TaskMapStep /\ t \in DOMAIN tasks /\ tasks[t].state # "Pending"
      /\ WellFormed(tasks[t]) /\ tasks[t].retry = 0
  BY TaskMapSteps DEF Begun, HubInv, TasksOK, Delivery, NeverRetried
<1>2. t \in DOMAIN tasks' /\ tasks'[t].retry = 0
  BY <1>1, TasksStay DEF HubInv, Delivery, NeverRetried
<1>3. ASSUME NEW k \in TaskId \ DOMAIN tasks, NEW s \in Submissions, Submit(k, s)
      PROVE  tasks'[t] = tasks[t]
  BY <1>1, <1>3 DEF Submit, Put
<1>4. ASSUME NEW d \in Dispatcher, AssignPending(d) PROVE tasks'[t] = tasks[t]
  <2>1. PICK target \in Targets(snapshot[d]) : Assign(d, target)
    BY <1>4 DEF AssignPending
  <2>2. t \notin DOMAIN target
    BY <1>1, TargetFacts
  <2> QED
    BY <1>1, <2>1, <2>2 DEF Assign
<1>5. ASSUME NEW k \in Alive, NEW r \in ExecutionResult, Progress(k, r)
      PROVE  tasks'[t].state # "Pending"
  <2>1. tasks'[t] = tasks[t] \/ tasks'[t] = OnResult(tasks[t], r)
    BY <1>1, <1>5 DEF Progress
  <2>2. tasks'[t] = OnResult(tasks[t], r)
          => tasks'[t].state \in {tasks[t].state, "Completed", "Failed"}
    BY <1>1, <1>2, OnResultFacts
  <2> QED
    BY <1>1, <2>1, <2>2
<1>6. tasks'[t].state # "Pending"
  BY <1>1, <1>3, <1>4, <1>5 DEF TaskMapStep
<1> QED
  BY <1>2, <1>6 DEF Begun

(* A task a worker has pulled is not handed out again. *)
LEMMA PulledStays ==
  ASSUME HubInv, HubInv', [HubNext]_allVars, NEW t, Pulled(t)
  PROVE  Pulled(t)'
<1> DEFINE Gone == /\ \A d \in Dispatcher : t \notin Unsent(d)'
                   /\ \A w \in NodeId : t \notin OnPipe(w)'
<1>0. /\ SocketsOK /\ ThreadsOK /\ t \in Begun /\ t \in Begun'
      /\ \A d \in Dispatcher : t \notin Unsent(d)
      /\ \A w \in NodeId : t \notin OnPipe(w)
  BY BegunStays DEF HubInv, Delivery, Pulled
<1>1. ASSUME UNCHANGED <<outbox, pipe>> PROVE Gone
  BY <1>0, <1>1, Frames DEF SameUnsent, SamePipes
<1>2. ASSUME NEW d \in Dispatcher, AssignFrames(d) PROVE Gone
  <2>1. PICK target \in Targets(snapshot[d]) :
          outbox' = [outbox EXCEPT ![d] =
                       {[task |-> k, target |-> target[k]] : k \in DOMAIN target}]
    BY <1>2 DEF AssignFrames
  <2>2. t \notin DOMAIN target
    BY <1>0, TargetFacts DEF Begun
  <2>3. \A f \in outbox'[d] : f.task # t
    BY <1>0, <2>1, <2>2 DEF ThreadsOK
  <2>4. \A e \in Dispatcher \ {d} : outbox'[e] = outbox[e]
    BY <1>0, <2>1 DEF ThreadsOK
  <2>5. \A e \in Dispatcher : t \notin Unsent(e)'
    BY <1>0, <2>3, <2>4 DEF Unsent
  <2>6. SamePipes
    BY <1>2, Frames DEF AssignFrames
  <2> QED
    BY <1>0, <2>5, <2>6 DEF SamePipes
<1>3. ASSUME NEW d \in Dispatcher, NEW w \in NodeId, Push(d, w) PROVE Gone
  <2>1. PICK f \in outbox[d] : /\ pipe' = [pipe EXCEPT ![w] = Append(@, f)]
                               /\ outbox' = [outbox EXCEPT ![d] = @ \ {f}]
    BY <1>3 DEF Push
  <2>2. f \in Frame /\ pipe[w] \in Seq(Frame) /\ f.task # t
    BY <1>0 DEF ThreadsOK, SocketsOK, Unsent
  <2>3. pipe'[w] = Append(pipe[w], f) /\ \A x \in NodeId \ {w} : pipe'[x] = pipe[x]
    BY <1>0, <2>1 DEF SocketsOK
  <2>4. OnPipe(w)' = OnPipe(w) \cup {f.task} /\ \A x \in NodeId \ {w} : OnPipe(x)' = OnPipe(x)
    BY <2>2, <2>3, AppendFacts DEF OnPipe
  <2>5. \A e \in Dispatcher : outbox'[e] \subseteq outbox[e]
    BY <1>0, <2>1 DEF ThreadsOK
  <2>6. \A e \in Dispatcher : t \notin Unsent(e)'
    BY <1>0, <2>5 DEF Unsent
  <2> QED
    BY <1>0, <2>2, <2>4, <2>6
<1>4. ASSUME NEW w \in NodeId, Pull(w) PROVE Gone
  <2>1. pipe[w] # <<>> /\ pipe' = [pipe EXCEPT ![w] = Tail(@)] /\ UNCHANGED outbox
    BY <1>4 DEF Pull
  <2>2. pipe[w] \in Seq(Frame)
    BY <1>0 DEF SocketsOK
  <2>3. pipe'[w] = Tail(pipe[w]) /\ \A x \in NodeId \ {w} : pipe'[x] = pipe[x]
    BY <1>0, <2>1 DEF SocketsOK
  <2>4. OnPipe(w)' \subseteq OnPipe(w) /\ \A x \in NodeId \ {w} : OnPipe(x)' = OnPipe(x)
    BY <2>1, <2>2, <2>3, TailFacts DEF OnPipe
  <2> QED
    BY <1>0, <2>1, <2>4, Frames DEF SameUnsent
<1>5. ASSUME NEW w \in NodeId, ClosePipe(w) PROVE Gone
  <2>1. pipe' = [pipe EXCEPT ![w] = <<>>] /\ UNCHANGED outbox
    BY <1>5 DEF ClosePipe
  <2>2. pipe'[w] = <<>> /\ \A x \in NodeId \ {w} : pipe'[x] = pipe[x]
    BY <1>0, <2>1 DEF SocketsOK
  <2>3. OnPipe(w)' = {} /\ \A x \in NodeId \ {w} : OnPipe(x)' = OnPipe(x)
    BY <2>2, EmptyFacts DEF OnPipe
  <2> QED
    BY <1>0, <2>1, <2>3, Frames DEF SameUnsent
<1>6. ASSUME NEW w \in NodeId, WorkerStep(w), ~ Pull(w) PROVE UNCHANGED <<outbox, pipe>>
  BY <1>6 DEF WorkerStep, Join, Dial, Reject, BeginGeneric, ContinueGeneric, BeginOllama,
              Finish, OllamaFails, SendProgress
<1>7. ASSUME NEW d \in Dispatcher, List(d) \/ EndPass(d) PROVE UNCHANGED <<outbox, pipe>>
  BY <1>7 DEF List, EndPass
<1>8. ASSUME NEW w \in NodeId, ReceiveProfile(w) \/ ReceiveProgress(w) \/ Crash(w) \/ CutPrompt(w)
      PROVE  UNCHANGED <<outbox, pipe>>
  BY <1>8 DEF ReceiveProfile, ReceiveProgress, Crash, CutPrompt, Vanish
<1>9. WakeSender \/ (\E k \in TaskId, s \in Submissions : ServeSubmit(k, s)) \/ UNCHANGED allVars
        => UNCHANGED <<outbox, pipe>>
  BY DEF WakeSender, ServeSubmit, allVars, hubVars
<1>10. Gone
  <2>1. Sender \in Dispatcher /\ Medium \in Dispatcher
    BY HubAssumption
  <2> HIDE DEF Gone
  <2> QED
    BY <1>1, <1>2, <1>3, <1>4, <1>5, <1>6, <1>7, <1>8, <1>9, <2>1 DEF HubNext, Internal, HubStep
<1> QED
  BY <1>0, <1>10 DEF Pulled

LEMMA ComingFacts ==
  ASSUME HubInv, NEW w \in NodeId, NEW t \in TaskId
  PROVE  /\ progress[w] \in Seq(Report) /\ Count(progress[w], t) \in Nat
         /\ Left(w, t) \in 0..MaxReports /\ Coming(w, t) \in Nat
         /\ t \notin AtWork(w) => Left(w, t) = 0
         /\ t \notin Reported(w) => Count(progress[w], t) = 0
<1>1. progress[w] \in Seq(Report) /\ run[w] \in {NoRun} \cup [task : TaskId, stage : Stages]
  BY DEF HubInv, Delivery, SocketsOK
<1>2. Left(w, t) \in 0..MaxReports
  BY <1>1 DEF Left, StillToSend, Stages, NoRun, MaxReports
<1>3. t \notin AtWork(w) => Left(w, t) = 0
  BY HubAssumption DEF AtWork, Left
<1>4. Count(progress[w], t) \in Nat /\ (t \notin Reported(w) => Count(progress[w], t) = 0)
  BY <1>1, CountFacts DEF Reported
<1>5. Coming(w, t) \in Nat
  BY <1>2, <1>4 DEF Coming, MaxReports
<1> QED
  BY <1>1, <1>2, <1>3, <1>4, <1>5

(* A report that is sent was still to be sent. *)
LEMMA SendProgressComing ==
  ASSUME HubInv, NEW w \in NodeId, NEW stage \in Stages, At(w, stage),
         NEW status, NEW checkpointed, NEW next \in Stages \cup {"idle"},
         [task |-> run[w].task, status |-> status, checkpointed |-> checkpointed] \in Report,
         StillToSend[next] < StillToSend[stage],
         SendProgress(w, status, checkpointed, next)
  PROVE  \A x \in NodeId, t \in TaskId : Coming(x, t)' <= Coming(x, t)
<1> DEFINE k == run[w].task
           r == [task |-> k, status |-> status, checkpointed |-> checkpointed]
<1>1. /\ progress' = [progress EXCEPT ![w] = Append(@, r)]
      /\ run' = [run EXCEPT ![w] = IF next = "idle" THEN NoRun ELSE [@ EXCEPT !.stage = next]]
  BY DEF SendProgress
<1>2. /\ progress[w] \in Seq(Report) /\ run[w] \in [task : TaskId, stage : Stages]
      /\ run[w].stage = stage /\ k \in TaskId /\ k # NoTask
  <2>1. /\ progress[w] \in Seq(Report) /\ run[w].stage = stage
        /\ run[w] \in {NoRun} \cup [task : TaskId, stage : Stages]
    BY DEF HubInv, Delivery, SocketsOK, At
  <2>2. run[w] # NoRun
    BY <2>1 DEF NoRun, Stages
  <2> QED
    BY <2>1, <2>2, HubAssumption
<1>3. /\ progress'[w] = Append(progress[w], r)
      /\ run'[w] = IF next = "idle" THEN NoRun ELSE [run[w] EXCEPT !.stage = next]
      /\ \A x \in NodeId \ {w} : progress'[x] = progress[x] /\ run'[x] = run[x]
  BY <1>1 DEF HubInv, Delivery, SocketsOK
<1>4. \A x \in NodeId \ {w}, t \in TaskId : Coming(x, t)' = Coming(x, t)
  BY <1>3 DEF Coming, Left
<1>5. ASSUME NEW t \in TaskId PROVE Coming(w, t)' <= Coming(w, t)
  <2>1. r \in Report /\ r.task = k
    OBVIOUS
  <2> HIDE DEF r
  <2>2. Count(progress'[w], t) = Count(progress[w], t) + (IF k = t THEN 1 ELSE 0)
    BY <1>2, <1>3, <2>1, CountAppend
  <2>3. Left(w, t)' = IF k = t THEN StillToSend[next] ELSE 0
    <3>1. CASE next = "idle"
      <4>1. run'[w] = NoRun /\ NoTask # t
        BY <1>3, <3>1, HubAssumption
      <4> QED
        BY <3>1, <4>1 DEF Left, NoRun, StillToSend
    <3>2. CASE next # "idle"
      BY <1>2, <1>3, <3>2 DEF Left
    <3> QED
      BY <3>1, <3>2
  <2>4. Left(w, t) = IF k = t THEN StillToSend[stage] ELSE 0
    BY <1>2 DEF Left
  <2>5. StillToSend[next] + 1 <= StillToSend[stage]
        /\ StillToSend[next] \in Nat /\ StillToSend[stage] \in Nat
    BY DEF StillToSend, Stages
  <2>6. Count(progress[w], t) \in Nat
    BY ComingFacts
  <2> QED
    BY <2>2, <2>3, <2>4, <2>5, <2>6 DEF Coming
<1>6. ASSUME NEW x \in NodeId, NEW t \in TaskId PROVE Coming(x, t)' <= Coming(x, t)
  <2>1. Coming(x, t) \in Nat
    BY ComingFacts
  <2> QED
    BY <1>4, <1>5, <2>1
<1> QED
  BY <1>6

(* A worker that pulls a task has everything of it still to report. *)
LEMMA PullComing ==
  ASSUME HubInv, NEW w \in NodeId, Pull(w), NEW x \in NodeId, NEW t \in TaskId
  PROVE  Coming(x, t)' = Coming(x, t) \/ (t \in OnPipe(x) /\ Coming(x, t)' = MaxReports)
<1> DEFINE f == Head(pipe[w])
<1>1. /\ run' = [run EXCEPT ![w] = [task |-> f.task, stage |-> "probe"]]
      /\ run[w] = NoRun /\ pipe[w] # <<>> /\ UNCHANGED progress
  BY DEF Pull
<1>2. /\ run'[w] = [task |-> f.task, stage |-> "probe"]
      /\ \A y \in NodeId \ {w} : run'[y] = run[y]
      /\ pipe[w] \in Seq(Frame)
  BY <1>1 DEF HubInv, Delivery, SocketsOK
<1>3. f.task \in OnPipe(w)
  BY <1>1, <1>2, TailFacts DEF OnPipe
<1>4. Count(progress[x], t)' = Count(progress[x], t)
  BY <1>1
<1>5. CASE x # w \/ f.task # t
  <2>1. Left(x, t)' = Left(x, t)
    BY <1>1, <1>2, <1>5, HubAssumption DEF Left, NoRun
  <2> QED
    BY <1>4, <2>1 DEF Coming
<1>6. CASE x = w /\ f.task = t
  <2>1. t \notin Reported(w)
    BY <1>3, <1>6 DEF HubInv, Delivery, Ledger, Apart
  <2>2. Count(progress[w], t) = 0
    BY <2>1, ComingFacts
  <2>3. Left(w, t)' = MaxReports
    BY <1>2, <1>6 DEF Left, StillToSend, MaxReports
  <2>4. Coming(w, t)' = MaxReports
    BY <1>4, <1>6, <2>2, <2>3 DEF Coming, MaxReports
  <2> QED
    BY <1>3, <1>6, <2>4
<1> QED
  BY <1>5, <1>6

LEMMA VanishComing ==
  ASSUME HubInv, NEW w \in NodeId, NEW how, Vanish(w, how), NEW x \in NodeId, NEW t \in TaskId
  PROVE  Coming(x, t)' <= Coming(x, t)
<1>1. PICK k \in 0..Len(progress[w]) : progress' = [progress EXCEPT ![w] = SubSeq(@, 1, k)]
  BY DEF Vanish
<1>2. run' = [run EXCEPT ![w] = NoRun]
  BY DEF Vanish
<1>3. /\ progress'[w] = SubSeq(progress[w], 1, k) /\ run'[w] = NoRun
      /\ \A y \in NodeId \ {w} : progress'[y] = progress[y] /\ run'[y] = run[y]
  BY <1>1, <1>2 DEF HubInv, Delivery, SocketsOK
<1>4. Coming(x, t) \in Nat
  BY ComingFacts
<1>5. CASE x # w
  <2>1. Coming(x, t)' = Coming(x, t)
    BY <1>3, <1>5 DEF Coming, Left
  <2> QED
    BY <1>4, <2>1
<1>6. CASE x = w
  <2>1. /\ progress[w] \in Seq(Report) /\ Count(progress[w], t) \in Nat
        /\ Left(w, t) \in 0..MaxReports
    BY ComingFacts
  <2>2. Count(progress'[w], t) <= Count(progress[w], t)
    BY <1>3, <2>1, CountPrefix
  <2>3. Left(w, t)' = 0
    BY <1>3, HubAssumption DEF Left, NoRun
  <2>4. Count(progress'[w], t) \in Nat
    <3>1. SubSeq(progress[w], 1, k) \in Seq(Report)
      BY <2>1, PrefixFacts
    <3>2. progress'[w] \in Seq(Report)
      BY <1>3, <3>1
    <3> QED
      BY <3>2, CountFacts
  <2>5. Left(w, t) \in Nat
    BY <2>1 DEF MaxReports
  <2>6. Coming(w, t)' = Count(progress'[w], t)
    BY <2>3, <2>4 DEF Coming
  <2>7. Coming(w, t) = Count(progress[w], t) + Left(w, t)
    BY DEF Coming
  <2> QED
    BY <1>6, <2>1, <2>2, <2>4, <2>5, <2>6, <2>7
<1> QED
  BY <1>5, <1>6

(* Only a worker that pulls a task adds to what is to come of it. *)
LEMMA QuietComing ==
  ASSUME HubInv, NEW x \in NodeId, NEW t \in TaskId,
         \/ Internal \/ EndPass(Medium) \/ UNCHANGED allVars
         \/ \E k \in TaskId, s \in Submissions : ServeSubmit(k, s)
  PROVE  \/ Coming(x, t)' <= Coming(x, t)
         \/ t \in OnPipe(x) /\ Coming(x, t)' = MaxReports
<1> DEFINE Fewer == Coming(x, t)' <= Coming(x, t)
<1>1. UNCHANGED <<run, progress>> => Fewer
  <2>1. UNCHANGED <<run, progress>> => Coming(x, t)' = Coming(x, t)
    BY DEF Coming, Left
  <2> QED
    BY <2>1, ComingFacts
<1>2. ASSUME NEW w \in NodeId, NEW stage \in Stages, At(w, stage)
      PROVE  \A status \in Status, checkpointed \in BOOLEAN :
               [task |-> run[w].task, status |-> status, checkpointed |-> checkpointed] \in Report
  <2>1. run[w] \in {NoRun} \cup [task : TaskId, stage : Stages]
    BY DEF HubInv, Delivery, SocketsOK
  <2>2. run[w] # NoRun
    BY <1>2 DEF At, Stages, NoRun
  <2> QED
    BY <2>1, <2>2 DEF Report
<1>3. /\ {"Running", "Completed", "Failed"} = Status /\ FALSE \in BOOLEAN
      /\ {"probe", "first", "second", "infer"} = Stages
  BY DEF Status, Stages
<1>4. /\ StillToSend["idle"] < StillToSend["probe"] /\ StillToSend["first"] < StillToSend["probe"]
      /\ StillToSend["infer"] < StillToSend["probe"] /\ StillToSend["second"] < StillToSend["first"]
      /\ StillToSend["idle"] < StillToSend["second"] /\ StillToSend["idle"] < StillToSend["infer"]
  BY DEF StillToSend
<1>5. ASSUME NEW w \in NodeId, Reject(w) PROVE Fewer
  BY <1>2, <1>3, <1>4, <1>5, SendProgressComing DEF Reject
<1>6. ASSUME NEW w \in NodeId, BeginGeneric(w) PROVE Fewer
  <2>1. (tasks[run[w].task].type = "StatefulLongRunning") \in BOOLEAN
    OBVIOUS
  <2> QED
    BY <1>2, <1>3, <1>4, <1>6, <2>1, SendProgressComing DEF BeginGeneric
<1>7. ASSUME NEW w \in NodeId, ContinueGeneric(w) PROVE Fewer
  BY <1>2, <1>3, <1>4, <1>7, SendProgressComing DEF ContinueGeneric
<1>8. ASSUME NEW w \in NodeId, BeginOllama(w) PROVE Fewer
  BY <1>2, <1>3, <1>4, <1>8, SendProgressComing DEF BeginOllama
<1>9. ASSUME NEW w \in NodeId, Finish(w) PROVE Fewer
  BY <1>2, <1>3, <1>4, <1>9, SendProgressComing DEF Finish
<1>10. ASSUME NEW w \in NodeId, OllamaFails(w) PROVE Fewer
  BY <1>2, <1>3, <1>4, <1>10, SendProgressComing DEF OllamaFails
<1>11. ASSUME NEW w \in NodeId, Join(w) \/ Dial(w) \/ ReceiveProfile(w) \/ ClosePipe(w)
       PROVE  UNCHANGED <<run, progress>>
  BY <1>11 DEF Join, Dial, ReceiveProfile, ClosePipe
<1>12. ASSUME NEW d \in Dispatcher, HubStep(d) \/ EndPass(d) PROVE UNCHANGED <<run, progress>>
  BY <1>12 DEF HubStep, List, AssignFrames, Push, EndPass
<1>13. WakeSender \/ (\E k \in TaskId, s \in Submissions : ServeSubmit(k, s)) \/ UNCHANGED allVars
         => UNCHANGED <<run, progress>>
  BY DEF WakeSender, ServeSubmit, allVars, hubVars
<1>14. Sender \in Dispatcher /\ Medium \in Dispatcher
  BY HubAssumption
<1>15. ASSUME NEW w \in NodeId, Crash(w) \/ CutPrompt(w) PROVE Fewer
  BY <1>15, VanishComing DEF Crash, CutPrompt
<1>16. ASSUME NEW w \in NodeId, Pull(w)
       PROVE  Fewer \/ (t \in OnPipe(x) /\ Coming(x, t)' = MaxReports)
  <2>1. Coming(x, t) \in Nat
    BY ComingFacts
  <2> QED
    BY <1>16, <2>1, PullComing
<1> HIDE DEF Fewer
<1>17. ASSUME NEW w \in NodeId, WorkerStep(w)
       PROVE  Fewer \/ (t \in OnPipe(x) /\ Coming(x, t)' = MaxReports)
  BY <1>1, <1>5, <1>6, <1>7, <1>8, <1>9, <1>10, <1>11, <1>16, <1>17 DEF WorkerStep
<1>18. Fewer \/ (t \in OnPipe(x) /\ Coming(x, t)' = MaxReports)
  BY <1>1, <1>11, <1>12, <1>13, <1>14, <1>15, <1>17 DEF Internal
<1> QED
  BY <1>18 DEF Fewer

(* A report that is received is no longer to come. *)
LEMMA ReceivedComing ==
  ASSUME HubInv, NEW w \in NodeId, ReceiveProgress(w), NEW x \in NodeId, NEW t \in TaskId
  PROVE  /\ Coming(x, t)' <= Coming(x, t)
         /\ Head(progress[w]).task = t
              => IF x = w THEN Coming(x, t)' + 1 <= Coming(x, t) ELSE Coming(x, t) = 0
<1> DEFINE k == Head(progress[w]).task
<1>1. progress[w] # <<>> /\ progress' = [progress EXCEPT ![w] = Tail(@)] /\ UNCHANGED run
  BY DEF ReceiveProgress
<1>2. progress'[w] = Tail(progress[w]) /\ \A y \in NodeId \ {w} : progress'[y] = progress[y]
  BY <1>1 DEF HubInv, Delivery, SocketsOK
<1>3. /\ progress[w] \in Seq(Report) /\ Count(progress[w], t) \in Nat
      /\ Left(x, t) \in 0..MaxReports /\ Coming(x, t) \in Nat
  BY ComingFacts
<1>4. k \in Reported(w) /\ progress'[w] \in Seq(Report)
  BY <1>1, <1>2, <1>3, TailFacts DEF Reported
<1>5. CASE x = w
  <2>1. Count(progress'[w], t) + (IF k = t THEN 1 ELSE 0) <= Count(progress[w], t)
    BY <1>1, <1>2, <1>3, CountTail
  <2>2. Count(progress'[w], t) \in Nat
    BY <1>4, CountFacts
  <2>3. /\ Coming(w, t)' = Count(progress'[w], t) + Left(w, t)
        /\ Coming(w, t) = Count(progress[w], t) + Left(w, t)
    BY <1>1 DEF Coming, Left
  <2>4. Left(w, t) \in Nat
    BY <1>3, <1>5 DEF MaxReports
  <2> HIDE DEF k
  <2>5. Coming(w, t)' + (IF k = t THEN 1 ELSE 0) <= Coming(w, t)
    BY <1>3, <2>1, <2>2, <2>3, <2>4
  <2>6. Coming(w, t)' \in Nat
    BY <2>2, <2>3, <2>4
  <2> QED
    BY <1>3, <1>5, <2>5, <2>6 DEF k
<1>6. CASE x # w
  <2>1. Coming(x, t)' = Coming(x, t)
    BY <1>1, <1>2, <1>6 DEF Coming, Left
  <2>2. ASSUME k = t PROVE Coming(x, t) = 0
    <3>1. t \notin AtWork(x) /\ t \notin Reported(x)
      BY <1>4, <1>6, <2>2 DEF HubInv, Delivery, Ledger, Apart
    <3> QED
      BY <3>1, ComingFacts DEF Coming
  <2> QED
    BY <1>3, <1>6, <2>1, <2>2
<1> QED
  BY <1>5, <1>6
------------------------------------------------------------------------------
(* Feeds *)

LEMMA FeedTyped ==
  ASSUME MediumInv, NEW c \in Client
  PROVE  feed[c] \in Seq(Message) /\ Len(feed[c]) <= FeedCap
BY DEF MediumInv, ClientSide, Typed

(* What is in a feed was published, so the task was pulled before. *)
LEMMA FeedHeard ==
  ASSUME MediumInv, Unheard, NEW c \in Client, NEW t \in TasksIn(feed[c])
  PROVE  t \in TaskId /\ published[t] # {} /\ Pulled(t)
<1>1. PICK m \in In(feed[c]) : m.task = t
  BY DEF In, TasksIn
<1>2. m.task \in TaskId /\ m.status \in published[m.task]
  BY <1>1, FeedTasks DEF MediumInv, ClientSide, Truthful
<1> QED
  BY <1>1, <1>2 DEF Unheard

(* An outcome in a feed was published. *)
LEMMA FeedDecided ==
  ASSUME MediumInv, NEW c \in Client, NEW t \in DecidedIn(feed[c])
  PROVE  t \in TaskId /\ Outcomes(t) # {}
<1>1. PICK m \in In(feed[c]) : m.task = t /\ m.status # "Running"
  BY DEF In, DecidedIn
<1>2. /\ m.task \in TaskId /\ m.status \in published[m.task] /\ m.status \in Status
  BY <1>1, FeedTasks DEF MediumInv, ClientSide, Truthful
<1> QED
  BY <1>1, <1>2 DEF Outcomes, Ended, Status

(* Once its outcome is out nothing more is reported of a task. *)
LEMMA OutcomeEnds ==
  ASSUME HubInv, NEW t \in TaskId, Outcomes(t) # {}, NEW w \in NodeId
  PROVE  t \notin Reported(w)
<1>1. PICK s \in published[t] : s # "Running"
  BY DEF Outcomes, Ended
<1> QED
  BY <1>1 DEF HubInv, Delivery, Ledger, Concluded

(* One more message in the buffer *)
LEMMA BufferFacts ==
  ASSUME NEW q \in Seq(Message), Len(q) <= FeedCap, NEW m \in Message
  PROVE  /\ \A t : Count(Buffer(q, m), t) <= Count(q, t) + (IF m.task = t THEN 1 ELSE 0)
         /\ OutcomeLast(q) /\ m.task \notin DecidedIn(q) => OutcomeLast(Buffer(q, m))
         /\ m.status \in Ended => m.task \in DecidedIn(Buffer(q, m))
<1> DEFINE b == Buffer(q, m)
<1>1. m.status \in Ended => m.status # "Running"
  BY DEF Ended
<1>2. CASE Len(q) < FeedCap
  <2>1. b = Append(q, m)
    BY <1>2 DEF Buffer
  <2>2. ASSUME NEW t PROVE Count(b, t) <= Count(q, t) + (IF m.task = t THEN 1 ELSE 0)
    <3>1. Count(b, t) = Count(q, t) + (IF m.task = t THEN 1 ELSE 0) /\ Count(q, t) \in Nat
      BY <2>1, CountAppend, CountFacts
    <3> QED
      BY <3>1
  <2> QED
    BY <1>1, <2>1, <2>2, AppendFacts
<1>3. CASE ~ (Len(q) < FeedCap)
  <2> DEFINE r == Tail(q)
  <2>1. b = Append(r, m)
    BY <1>3 DEF Buffer
  <2>2. q # <<>>
    BY <1>3, EmptySeq, MediumAssumption
  <2>3. /\ r \in Seq(Message) /\ DecidedIn(r) \subseteq DecidedIn(q)
        /\ OutcomeLast(q) => OutcomeLast(r)
    BY <2>2, TailFacts
  <2>4. ASSUME NEW t PROVE Count(b, t) <= Count(q, t) + (IF m.task = t THEN 1 ELSE 0)
    <3>1. Count(r, t) + (IF Head(q).task = t THEN 1 ELSE 0) <= Count(q, t)
      BY <2>2, CountTail
    <3> HIDE DEF r
    <3>2. Count(b, t) = Count(r, t) + (IF m.task = t THEN 1 ELSE 0)
      BY <2>1, <2>3, CountAppend
    <3>3. Count(r, t) \in Nat /\ Count(q, t) \in Nat
      BY <2>3, CountFacts
    <3> QED
      BY <3>1, <3>2, <3>3
  <2> HIDE DEF r
  <2>5. /\ DecidedIn(b) = DecidedIn(r) \cup (IF m.status # "Running" THEN {m.task} ELSE {})
        /\ OutcomeLast(r) /\ m.task \notin DecidedIn(r) => OutcomeLast(b)
    BY <2>1, <2>3, AppendFacts
  <2> QED
    BY <1>1, <2>3, <2>4, <2>5
<1> QED
  BY <1>2, <1>3

(* With room for all, a message of another task does not push out an       *)
(* outcome: behind it there would be messages of other tasks only, more    *)
(* than they can have.                                                     *)
LEMMA OutcomeStays ==
  ASSUME NEW q \in Seq(Message), Len(q) <= FeedCap, NEW m \in Message, OutcomeLast(q),
         NEW t, m.task # t, t \in DecidedIn(q),
         NEW T, IsFiniteSet(T), TasksIn(Buffer(q, m)) \subseteq T, t \in T,
         \A k \in T : Count(Buffer(q, m), k) <= MaxReports,
         MaxReports * (Cardinality(T) - 1) < FeedCap
  PROVE  t \in DecidedIn(Buffer(q, m))
<1> DEFINE b == Buffer(q, m)
<1>1. CASE Len(q) < FeedCap
  <2>1. b = Append(q, m)
    BY <1>1 DEF Buffer
  <2> QED
    BY <2>1, AppendFacts
<1>2. CASE ~ (Len(q) < FeedCap)
  <2> DEFINE r == Tail(q)
             h == Head(q)
  <2>1. b = Append(r, m)
    BY <1>2 DEF Buffer
  <2>2. q # <<>> /\ Len(q) = FeedCap /\ FeedCap \in Nat \ {0}
    <3>1. FeedCap \in Nat \ {0} /\ Len(q) \in Nat
      BY MediumAssumption, LenProperties
    <3> QED
      BY <1>2, <3>1, EmptySeq
  <2>3. /\ r \in Seq(Message) /\ Len(r) = FeedCap - 1
        /\ DecidedIn(q) = DecidedIn(r) \cup (IF h.status # "Running" THEN {h.task} ELSE {})
        /\ h.status # "Running" => h.task \notin TasksIn(r)
    BY <2>2, TailFacts, InTail
  <2> HIDE DEF r, h
  <2>4. /\ b \in Seq(Message) /\ Len(b) = FeedCap /\ TasksIn(b) = TasksIn(r) \cup {m.task}
        /\ DecidedIn(r) \subseteq DecidedIn(b)
    <3>1. /\ b \in Seq(Message) /\ Len(b) = Len(r) + 1 /\ TasksIn(b) = TasksIn(r) \cup {m.task}
          /\ DecidedIn(r) \subseteq DecidedIn(b)
      BY <2>1, <2>3, AppendFacts
    <3> QED
      BY <2>2, <2>3, <3>1
  <2> HIDE DEF b
  <2>5. ASSUME t \notin DecidedIn(r) PROVE FALSE
    <3>1. t \notin TasksIn(b)
      BY <2>3, <2>4, <2>5
    <3>2. /\ IsFiniteSet(T \ {t}) /\ Cardinality(T \ {t}) = Cardinality(T) - 1
          /\ TasksIn(b) \subseteq T \ {t}
      BY <3>1, FS_RemoveElement DEF b
    <3>3. \A k \in T \ {t} : Count(b, k) <= MaxReports
      BY DEF b
    <3>4. Len(b) <= MaxReports * Cardinality(T \ {t})
      BY <2>4, <3>2, <3>3, Crowd
    <3>5. Cardinality(T) \in Nat
      BY FS_CardinalityType
    <3>6. FeedCap <= MaxReports * (Cardinality(T) - 1)
      BY <2>4, <3>2, <3>4
    <3> QED
      BY <2>2, <3>5, <3>6 DEF MaxReports
  <2> QED
    BY <2>4, <2>5 DEF b
<1> QED
  BY <1>1, <1>2
------------------------------------------------------------------------------
(* Every step keeps the invariant. *)

ComingCounts == \A w \in NodeId, t \in TaskId : Coming(w, t) \in Nat

LEMMA ComingIsNat == HubInv => ComingCounts
BY ComingFacts DEF ComingCounts

LEMMA ComingStaysNat == HubInv' => ComingCounts'
BY ComingIsNat, PTL

(* With room for all tasks after a step there was before. *)
LEMMA RoomBefore ==
  ASSUME HubInv, [HubNext]_allVars, IsFiniteSet(DOMAIN tasks), RoomForAll'
  PROVE  RoomForAll
<1>1. /\ IsFiniteSet(DOMAIN tasks') /\ Cardinality(DOMAIN tasks) <= Cardinality(DOMAIN tasks')
  BY TasksFinite
<1>2. Cardinality(DOMAIN tasks) \in Nat /\ Cardinality(DOMAIN tasks') \in Nat
  BY <1>1, FS_CardinalityType
<1>3. FeedCap \in Nat
  BY MediumAssumption
<1> QED
  BY <1>1, <1>2, <1>3 DEF RoomForAll, MaxReports

(* Steps that publish nothing and add nothing to a feed: an outcome that a *)
(* client awaits after the step it awaited before, and has still.          *)
LEMMA QuietOK ==
  ASSUME MediumInv, MediumInv', FeedInv, [HubNext]_allVars, UNCHANGED published,
         \/ Internal \/ EndPass(Medium) \/ UNCHANGED allVars
         \/ \E k \in TaskId, s \in Submissions : ServeSubmit(k, s),
         \A c \in Client : /\ OutcomeLast(feed'[c])
                            /\ \A t \in TaskId : Count(feed'[c], t) <= Count(feed[c], t),
         \A c \in Client, t \in TaskId :
           Awaits(c, t)' /\ Outcomes(t) # {}
             => Awaits(c, t) /\ (t \in DecidedIn(feed[c]) => t \in DecidedIn(feed'[c]))
  PROVE  FeedInv'
<1>1. HubInv /\ HubInv' /\ Allowance /\ Unheard /\ IsFiniteSet(DOMAIN tasks)
  BY DEF MediumInv, FeedInv
<1>2. IsFiniteSet(DOMAIN tasks')
  BY <1>1, TasksFinite
<1>3. Unheard'
  BY <1>1, PulledStays DEF Unheard
<1>4. FeedsOrdered'
  BY DEF FeedsOrdered
<1>5. ASSUME NEW w \in NodeId, NEW t \in TaskId
      PROVE  /\ Coming(w, t)' <= MaxReports
             /\ \A c \in Client : Count(feed'[c], t) + Coming(w, t)' <= MaxReports
  <2>1. Coming(w, t) \in Nat /\ Coming(w, t)' \in Nat /\ MaxReports \in Nat
    BY <1>1, ComingIsNat, ComingStaysNat DEF ComingCounts, MaxReports
  <2>2. ASSUME NEW c \in Client
        PROVE  Count(feed[c], t) \in Nat /\ Count(feed'[c], t) \in Nat
    <3>1. feed[c] \in Seq(Message) /\ feed'[c] \in Seq(Message)
      BY DEF MediumInv, ClientSide, Typed
    <3> QED
      BY <3>1, CountFacts
  <2>3. CASE Coming(w, t)' <= Coming(w, t)
    <3>1. /\ Coming(w, t) <= MaxReports
          /\ \A c \in Client : Count(feed[c], t) + Coming(w, t) <= MaxReports
      BY <1>1 DEF Allowance
    <3> QED
      BY <2>1, <2>2, <2>3, <3>1
  <2>4. CASE t \in OnPipe(w) /\ Coming(w, t)' = MaxReports
    <3>1. ~ Pulled(t)
      BY <2>4 DEF Pulled
    <3>2. ASSUME NEW c \in Client PROVE Count(feed'[c], t) = 0
      <4>1. t \notin TasksIn(feed[c])
        BY <1>1, <3>1, FeedHeard
      <4>2. Count(feed[c], t) = 0
        BY <4>1, FeedTyped, CountFacts
      <4> QED
        BY <2>2, <4>2
    <3> QED
      BY <2>1, <2>4, <3>2
  <2> QED
    BY <1>1, <2>3, <2>4, QuietComing
<1>6. Allowance'
  BY <1>5 DEF Allowance
<1>7. RoomForAll' => Kept'
  <2> SUFFICES ASSUME RoomForAll', NEW c \in Client, NEW t \in TaskId,
                      Awaits(c, t)', Outcomes(t)' # {}
               PROVE  t \in DecidedIn(feed'[c])
    BY DEF Kept
  <2>1. Kept
    BY <1>1, RoomBefore DEF FeedInv
  <2>2. Outcomes(t)' = Outcomes(t)
    BY DEF Outcomes
  <2>3. Awaits(c, t) /\ (t \in DecidedIn(feed[c]) => t \in DecidedIn(feed'[c]))
    BY <2>2
  <2> QED
    BY <2>1, <2>2, <2>3 DEF Kept
<1> QED
  BY <1>2, <1>3, <1>4, <1>6, <1>7 DEF FeedInv

(* A client without a session awaits nothing. *)
LEMMA AwayAwaitsNothing ==
  ASSUME MediumInv, NEW c \in Client, NEW t \in TaskId, at[c] \in {"away", "menu"}
  PROVE  ~ Awaits(c, t)
<1>1. Session(c) /\ Numbered
  BY DEF MediumInv, ClientSide, Sessions
<1>2. ticket[c] = 0 /\ answer[c] = NoTask
  BY <1>1 DEF Session
<1>3. served # NoRequest => served.number # 0
  BY <1>1 DEF Numbered
<1> QED
  BY <1>2, <1>3, HubAssumption DEF Awaits

LEMMA BroadcastFeedOK ==
  ASSUME MediumInv, MediumInv', FeedInv, [HubNext]_allVars, NEW w \in NodeId, Broadcast(w)
  PROVE  FeedInv'
<1> DEFINE r == Head(progress[w])
           m == [task |-> r.task, status |-> r.status]
           more(k) == IF m.task = k THEN 1 ELSE 0
<1>1. /\ HubInv /\ HubInv' /\ Allowance /\ Unheard /\ FeedsOrdered
      /\ IsFiniteSet(DOMAIN tasks)
  BY DEF MediumInv, FeedInv
<1>2. /\ progress[w] # <<>> /\ ReceiveProgress(w)
      /\ published' = [published EXCEPT ![r.task] = @ \cup {r.status}]
      /\ feed' = [c \in Client |-> IF at[c] = "away" THEN <<>> ELSE Buffer(feed[c], m)]
      /\ UNCHANGED <<at, ticket, answer, watched, served, serving>>
  BY DEF Broadcast, ReceiveProgress
<1>3. published \in [TaskId -> SUBSET Status] /\ progress[w] \in Seq(Report)
  BY <1>1 DEF HubInv, Delivery, SocketsOK
<1>4. r \in Report /\ r.task \in Reported(w)
  BY <1>2, <1>3, TailFacts DEF Reported
<1>5. m \in Message /\ m.task \in TaskId /\ m.task \in Reported(w) /\ r.task = m.task
      /\ r.status = m.status
  BY <1>4 DEF Report, Message
<1> HIDE DEF m
<1>6. Pulled(m.task)
  BY <1>1, <1>5 DEF HubInv, Delivery, Ledger, Apart, InPlayRuns, Pulled, Alive, Begun
<1>7. ASSUME NEW t \in TaskId, Outcomes(t) # {} PROVE m.task # t
  BY <1>1, <1>5, <1>7, OutcomeEnds
<1>8. IsFiniteSet(DOMAIN tasks')
  BY <1>1, TasksFinite
<1>9. Unheard'
  <2>1. \A t \in TaskId : published'[t] # {} => published[t] # {} \/ t = m.task
    BY <1>2, <1>3, <1>5
  <2>2. \A t \in TaskId : published'[t] # {} => Pulled(t)
    BY <1>1, <1>6, <2>1 DEF Unheard
  <2> QED
    BY <1>1, <2>2, PulledStays DEF Unheard
<1>10. ASSUME NEW c \in Client
       PROVE  /\ feed[c] \in Seq(Message) /\ Len(feed[c]) <= FeedCap /\ OutcomeLast(feed[c])
              /\ m.task \notin DecidedIn(feed[c])
  BY <1>1, <1>7, FeedTyped, FeedDecided DEF FeedsOrdered
<1>11. ASSUME NEW c \in Client, NEW k \in TaskId
       PROVE  /\ Count(feed'[c], k) <= Count(feed[c], k) + more(k)
              /\ Count(feed'[c], k) \in Nat /\ Count(feed[c], k) \in Nat
  <2>1. /\ feed[c] \in Seq(Message) /\ feed'[c] \in Seq(Message)
    BY DEF MediumInv, ClientSide, Typed
  <2>2. Count(feed'[c], k) \in Nat /\ Count(feed[c], k) \in Nat
    BY <2>1, CountFacts
  <2>3. CASE at[c] = "away"
    <3>1. Count(feed'[c], k) = 0
      BY <1>2, <2>3, CountEmpty
    <3> QED
      BY <2>2, <3>1
  <2>4. CASE at[c] # "away"
    <3>1. feed'[c] = Buffer(feed[c], m)
      BY <1>2, <2>4
    <3> QED
      BY <1>5, <1>10, <2>2, <3>1, BufferFacts
  <2> QED
    BY <2>3, <2>4
<1>12. FeedsOrdered'
  <2>1. ASSUME NEW c \in Client PROVE OutcomeLast(feed'[c])
    <3>1. CASE at[c] = "away"
      BY <1>2, <3>1, EmptyFacts
    <3>2. CASE at[c] # "away"
      <4>1. feed'[c] = Buffer(feed[c], m)
        BY <1>2, <3>2
      <4> QED
        BY <1>5, <1>10, <4>1, BufferFacts
    <3> QED
      BY <3>1, <3>2
  <2> QED
    BY <2>1 DEF FeedsOrdered
<1>13. ASSUME NEW x \in NodeId, NEW k \in TaskId
       PROVE  /\ Coming(x, k)' <= MaxReports
              /\ \A c \in Client : Count(feed'[c], k) + Coming(x, k)' <= MaxReports
  <2>1. /\ Coming(x, k) \in Nat /\ Coming(x, k)' \in Nat
        /\ Coming(w, k) \in Nat /\ Coming(w, k)' \in Nat /\ MaxReports \in Nat
    BY <1>1, ComingIsNat, ComingStaysNat DEF ComingCounts, MaxReports
  <2>2. /\ Coming(x, k) <= MaxReports
        /\ \A c \in Client : /\ Count(feed[c], k) + Coming(x, k) <= MaxReports
                             /\ Count(feed[c], k) + Coming(w, k) <= MaxReports
    BY <1>1 DEF Allowance
  <2>3. Coming(x, k)' <= Coming(x, k)
    BY <1>1, <1>2, ReceivedComing
  <2>4. CASE m.task # k
    BY <1>11, <2>1, <2>2, <2>3, <2>4
  <2>5. CASE m.task = k /\ x = w
    <3>1. Coming(x, k)' + 1 <= Coming(x, k)
      BY <1>1, <1>2, <1>5, <2>5, ReceivedComing
    <3> QED
      BY <1>11, <2>1, <2>2, <2>5, <3>1
  <2>6. CASE m.task = k /\ x # w
    <3>1. Coming(x, k) = 0 /\ Coming(w, k)' + 1 <= Coming(w, k)
      BY <1>1, <1>2, <1>5, <2>6, ReceivedComing
    <3> QED
      BY <1>11, <2>1, <2>2, <2>3, <2>6, <3>1
  <2> QED
    BY <2>4, <2>5, <2>6
<1>14. Allowance'
  BY <1>13 DEF Allowance
<1>15. RoomForAll' => Kept'
  <2> SUFFICES ASSUME RoomForAll', NEW c \in Client, NEW t \in TaskId,
                      Awaits(c, t)', Outcomes(t)' # {}
               PROVE  t \in DecidedIn(feed'[c])
    BY DEF Kept
  <2>1. RoomForAll /\ Kept
    BY <1>1, RoomBefore DEF FeedInv
  <2>2. Awaits(c, t)
    BY <1>2 DEF Awaits
  <2>3. at[c] # "away"
    BY <2>2, AwayAwaitsNothing
  <2>4. feed'[c] = Buffer(feed[c], m)
    BY <1>2, <2>3
  <2>5. CASE m.task = t
    <3>1. Outcomes(t) = {}
      BY <1>7, <2>5
    <3>2. published'[t] = published[t] \cup {m.status}
      BY <1>2, <1>3, <1>5, <2>5
    <3>3. m.status \in Ended
      BY <3>1, <3>2 DEF Outcomes
    <3> QED
      BY <1>5, <1>10, <2>4, <2>5, <3>3, BufferFacts
  <2>6. CASE m.task # t
    <3>1. published'[t] = published[t]
      BY <1>2, <1>3, <1>5, <2>6
    <3>2. t \in DecidedIn(feed[c])
      BY <2>1, <2>2, <3>1 DEF Kept, Outcomes
    <3> DEFINE T == DOMAIN tasks
    <3>3. TasksIn(feed[c]) \subseteq T
      BY <1>1, FeedHeard DEF Pulled, Begun
    <3>4. t \in T
      BY <3>2, <3>3 DEF DecidedIn, TasksIn
    <3>5. TasksIn(feed'[c]) \subseteq T
      <4>1. In(feed'[c]) \subseteq In(feed[c]) \cup {m}
        BY <1>5, <1>10, <2>4, InBuffer
      <4>2. m.task \in T
        BY <1>6 DEF Pulled, Begun
      <4>3. ASSUME NEW k \in TasksIn(feed'[c]) PROVE k \in T
        <5>1. PICK n \in In(feed'[c]) : n.task = k
          BY DEF In, TasksIn
        <5>2. n = m \/ n.task \in TasksIn(feed[c])
          BY <4>1 DEF In, TasksIn
        <5> QED
          BY <3>3, <4>2, <5>1, <5>2
      <4> QED
        BY <4>3
    <3>6. ASSUME NEW k \in T PROVE Count(feed'[c], k) <= MaxReports
      <4>1. k \in TaskId
        BY <1>1 DEF HubInv, TasksOK
      <4>2. /\ Coming(w, k)' \in Nat /\ MaxReports \in Nat
            /\ Count(feed'[c], k) + Coming(w, k)' <= MaxReports
        BY <1>1, <1>13, <4>1, ComingStaysNat DEF ComingCounts, MaxReports
      <4> QED
        BY <1>11, <4>1, <4>2
    <3>7. MaxReports * (Cardinality(T) - 1) < FeedCap
      BY <2>1 DEF RoomForAll
    <3> HIDE DEF T
    <3>8. IsFiniteSet(T)
      BY <1>1 DEF T
    <3> QED
      BY <1>5, <1>10, <2>4, <2>6, <3>2, <3>4, <3>5, <3>6, <3>7, <3>8, OutcomeStays
  <2> QED
    BY <2>5, <2>6
<1> QED
  BY <1>8, <1>9, <1>12, <1>14, <1>15 DEF FeedInv

LEMMA InternalPublishesNothing == Internal => UNCHANGED published
<1>1. ASSUME NEW w \in NodeId, WorkerStep(w) PROVE UNCHANGED published
  BY <1>1 DEF WorkerStep, Join, Dial, Pull, Reject, BeginGeneric, ContinueGeneric, BeginOllama,
              Finish, OllamaFails, SendProgress
<1>2. ASSUME NEW d \in Dispatcher, HubStep(d) PROVE UNCHANGED published
  BY <1>2 DEF HubStep, List, AssignFrames, Push
<1>3. WakeSender \/ EndPass(Sender) => UNCHANGED published
  BY DEF WakeSender, EndPass
<1>4. ASSUME NEW w \in NodeId, ReceiveProfile(w) \/ Crash(w) \/ CutPrompt(w) \/ ClosePipe(w)
      PROVE  UNCHANGED published
  BY <1>4 DEF ReceiveProfile, Crash, CutPrompt, Vanish, ClosePipe
<1> QED
  BY <1>1, <1>2, <1>3, <1>4 DEF Internal

(* Feeds nobody touches stay ordered and get no longer. *)
LEMMA SameFeeds ==
  ASSUME MediumInv, FeedInv, NEW c \in Client, feed'[c] = feed[c]
  PROVE  OutcomeLast(feed'[c]) /\ \A t \in TaskId : Count(feed'[c], t) <= Count(feed[c], t)
<1>1. \A t \in TaskId : Count(feed[c], t) \in Nat
  BY FeedTyped, CountFacts
<1> QED
  BY <1>1 DEF FeedInv, FeedsOrdered

(* The hub on its own, or nobody, takes a step. *)
LEMMA HubAloneOK ==
  ASSUME MediumInv, MediumInv', FeedInv, [HubNext]_allVars, Internal \/ UNCHANGED allVars,
         UNCHANGED clientVars
  PROVE  FeedInv'
<1>1. UNCHANGED <<published, serving>>
  BY InternalKeepsServing, InternalPublishesNothing DEF allVars, hubVars
<1>2. UNCHANGED <<at, ticket, answer, watched, feed, served>>
  BY DEF clientVars
<1>3. \A c \in Client, t \in TaskId : Awaits(c, t)' => Awaits(c, t)
  BY <1>1, <1>2 DEF Awaits
<1> QED
  BY <1>1, <1>2, <1>3, SameFeeds, QuietOK

(* Of a task with a fresh identifier nothing was published. *)
LEMMA ServeRequestFeedOK ==
  ASSUME MediumInv, MediumInv', FeedInv, [HubNext]_allVars, ServeRequest
  PROVE  FeedInv'
<1>1. PICK k \in TaskId : ServeSubmit(k, Head(requests).ask)
  BY DEF ServeRequest
<1>2. /\ k \notin DOMAIN tasks /\ serving' = k
      /\ UNCHANGED <<published, at, ticket, answer, watched, feed>>
  BY <1>1 DEF ServeRequest, ServeSubmit
<1>3. Outcomes(k) = {}
  BY <1>2 DEF FeedInv, Unheard, Pulled, Begun, Outcomes
<1>4. \A c \in Client, t \in TaskId : Awaits(c, t)' /\ Outcomes(t) # {} => Awaits(c, t)
  BY <1>2, <1>3 DEF Awaits
<1>5. \E x \in TaskId, s \in Submissions : ServeSubmit(x, s)
  <2>1. Head(requests) \in Request
    BY InTail DEF MediumInv, ClientSide, Typed, ServeRequest
  <2> QED
    BY <1>1, <2>1, MediumAssumption DEF Request
<1> QED
  BY <1>2, <1>4, <1>5, SameFeeds, QuietOK

(* The answer goes to a client that awaited the task already. *)
LEMMA AnswerFeedOK ==
  ASSUME MediumInv, MediumInv', FeedInv, [HubNext]_allVars, Answer
  PROVE  FeedInv'
<1>1. /\ EndPass(Medium) /\ served' = NoRequest
      /\ answer' = IF ticket[served.from] = served.number
                   THEN [answer EXCEPT ![served.from] = serving] ELSE answer
      /\ UNCHANGED <<published, at, ticket, watched, feed>>
  BY DEF Answer, EndPass
<1>2. Typed
  BY DEF MediumInv, ClientSide
<1>3. ASSUME NEW c \in Client, NEW t \in TaskId, Awaits(c, t)' PROVE Awaits(c, t)
  <2>1. CASE at[c] = "watching" /\ watched[c] = t
    BY <2>1 DEF Awaits
  <2>2. CASE answer'[c] = answer[c] /\ answer[c] = t
    BY <2>2 DEF Awaits
  <2>3. CASE answer'[c] = t /\ answer'[c] # answer[c]
    <3>1. c = served.from /\ ticket[c] = served.number /\ serving = t
      BY <1>1, <1>2, <2>3 DEF Typed
    <3>2. served # NoRequest
      BY <1>2, <3>1, HubAssumption DEF Typed
    <3> QED
      BY <3>1, <3>2 DEF Awaits
  <2> QED
    BY <1>1, <1>3, <2>1, <2>2, <2>3 DEF Awaits
<1> QED
  BY <1>1, <1>3, SameFeeds, QuietOK

(* Steps of one client.  It goes on awaiting a task only by accepting the  *)
(* answer, or by reading a message that is not the outcome.                *)
LEMMA AskFeedOK ==
  ASSUME MediumInv, MediumInv', FeedInv, [HubNext]_allVars,
         NEW c \in Client, NEW p \in Menu, Ask(c, p)
  PROVE  FeedInv'
<1>1. /\ at[c] = "menu" /\ at' = [at EXCEPT ![c] = "waiting"] /\ sent' = sent + 1
      /\ ticket' = [ticket EXCEPT ![c] = sent + 1] /\ watched' = [watched EXCEPT ![c] = NoTask]
      /\ UNCHANGED <<allVars, answer, feed, served>>
  BY DEF Ask
<1>2. UNCHANGED <<published, serving>>
  BY <1>1 DEF allVars, hubVars
<1>3. Typed /\ Session(c) /\ Numbered
  BY DEF MediumInv, ClientSide, Sessions
<1>4. ASSUME NEW x \in Client, NEW t \in TaskId, Awaits(x, t)' PROVE Awaits(x, t)
  <2>1. CASE x = c
    <3>1. at'[c] = "waiting" /\ ticket'[c] = sent + 1
      BY <1>1, <1>3 DEF Typed
    <3>2. answer[c] = NoTask
      BY <1>1, <1>3 DEF Session
    <3>3. served # NoRequest => served.number # sent + 1
      <4>1. sent \in Nat /\ (served # NoRequest => served.number \in 1..sent)
        BY <1>3, MediumAssumption DEF Typed, Numbered
      <4> QED
        BY <4>1
    <3> QED
      BY <1>1, <1>2, <1>4, <2>1, <3>1, <3>2, <3>3, HubAssumption DEF Awaits
  <2>2. CASE x # c
    <3>1. at'[x] = at[x] /\ ticket'[x] = ticket[x] /\ watched'[x] = watched[x]
      BY <1>1, <1>3, <2>2 DEF Typed
    <3> QED
      BY <1>1, <1>2, <1>4, <3>1 DEF Awaits
  <2> QED
    BY <2>1, <2>2
<1> QED
  BY <1>1, <1>2, <1>4, SameFeeds, QuietOK

LEMMA AcceptedFeedOK ==
  ASSUME MediumInv, MediumInv', FeedInv, [HubNext]_allVars, NEW c \in Client, Accepted(c)
  PROVE  FeedInv'
<1>1. /\ at' = [at EXCEPT ![c] = "watching"] /\ watched' = [watched EXCEPT ![c] = answer[c]]
      /\ answer' = [answer EXCEPT ![c] = NoTask] /\ ticket' = [ticket EXCEPT ![c] = 0]
      /\ UNCHANGED <<allVars, feed, served>>
  BY DEF Accepted
<1>2. UNCHANGED <<published, serving>>
  BY <1>1 DEF allVars, hubVars
<1>3. Typed /\ Numbered
  BY DEF MediumInv, ClientSide
<1>4. ASSUME NEW x \in Client, NEW t \in TaskId, Awaits(x, t)' PROVE Awaits(x, t)
  <2>1. CASE x = c
    <3>1. watched'[c] = answer[c] /\ answer'[c] = NoTask /\ ticket'[c] = 0
      BY <1>1, <1>3 DEF Typed
    <3>2. served # NoRequest => served.number # 0
      BY <1>3 DEF Numbered
    <3> QED
      BY <1>1, <1>2, <1>4, <2>1, <3>1, <3>2, HubAssumption DEF Awaits
  <2>2. CASE x # c
    <3>1. /\ at'[x] = at[x] /\ ticket'[x] = ticket[x] /\ watched'[x] = watched[x]
          /\ answer'[x] = answer[x]
      BY <1>1, <1>3, <2>2 DEF Typed
    <3> QED
      BY <1>1, <1>2, <1>4, <3>1 DEF Awaits
  <2> QED
    BY <2>1, <2>2
<1> QED
  BY <1>1, <1>2, <1>4, SameFeeds, QuietOK

(* In the menu a client awaits nothing. *)
LEMMA ToMenuOK ==
  ASSUME MediumInv, MediumInv', FeedInv, [HubNext]_allVars, NEW c \in Client,
         at' = [at EXCEPT ![c] = "menu"], ticket'[c] = 0, answer'[c] = NoTask,
         \A x \in Client \ {c} : ticket'[x] = ticket[x] /\ feed'[x] = feed[x],
         OutcomeLast(feed'[c]), \A t \in TaskId : Count(feed'[c], t) <= Count(feed[c], t),
         UNCHANGED <<allVars, answer, watched, served>>
  PROVE  FeedInv'
<1>1. UNCHANGED <<published, serving>>
  BY DEF allVars, hubVars
<1>2. Typed /\ Numbered
  BY DEF MediumInv, ClientSide
<1>3. at'[c] = "menu" /\ \A x \in Client \ {c} : at'[x] = at[x]
  BY <1>2 DEF Typed
<1>4. served # NoRequest => served.number # 0
  BY <1>2 DEF Numbered
<1>5. ASSUME NEW t \in TaskId PROVE ~ Awaits(c, t)'
  BY <1>3, <1>4, HubAssumption DEF Awaits
<1>6. \A x \in Client \ {c}, t \in TaskId : Awaits(x, t)' => Awaits(x, t)
  BY <1>1, <1>3 DEF Awaits
<1>7. \A x \in Client : /\ OutcomeLast(feed'[x])
                        /\ \A t \in TaskId : Count(feed'[x], t) <= Count(feed[x], t)
  BY SameFeeds
<1> QED
  BY <1>1, <1>5, <1>6, <1>7, QuietOK

LEMMA GiveUpFeedOK ==
  ASSUME MediumInv, MediumInv', FeedInv, [HubNext]_allVars, NEW c \in Client,
         Connect(c) \/ GiveUp(c) \/ WatchTimesOut(c)
  PROVE  FeedInv'
<1>1. Typed /\ Session(c)
  BY DEF MediumInv, ClientSide, Sessions
<1>2. at' = [at EXCEPT ![c] = "menu"] /\ UNCHANGED <<allVars, answer, watched, feed, served>>
  BY DEF Connect, GiveUp, WatchTimesOut
<1>3. answer[c] = NoTask
  BY <1>1 DEF Connect, GiveUp, WatchTimesOut, Session
<1>4. ticket'[c] = 0 /\ \A x \in Client \ {c} : ticket'[x] = ticket[x]
  <2>1. CASE GiveUp(c)
    BY <1>1, <2>1 DEF GiveUp, Typed
  <2>2. CASE Connect(c) \/ WatchTimesOut(c)
    BY <1>1, <2>2 DEF Connect, WatchTimesOut, Session
  <2> QED
    BY <2>1, <2>2
<1> QED
  BY <1>2, <1>3, <1>4, SameFeeds, ToMenuOK

LEMMA ReadFeedOK ==
  ASSUME MediumInv, MediumInv', FeedInv, [HubNext]_allVars, NEW c \in Client, Read(c)
  PROVE  FeedInv'
<1> DEFINE m == Head(feed[c])
           q == Tail(feed[c])
<1>1. /\ at[c] = "watching" /\ feed[c] # <<>> /\ feed' = [feed EXCEPT ![c] = q]
      /\ IF m.task = watched[c] /\ m.status \in Ended
         THEN at' = [at EXCEPT ![c] = "menu"] ELSE UNCHANGED at
      /\ UNCHANGED <<allVars, ticket, answer, watched, served>>
  BY DEF Read
<1>2. Typed /\ Session(c) /\ feed[c] \in Seq(Message) /\ OutcomeLast(feed[c])
  BY FeedTyped DEF MediumInv, ClientSide, Sessions, FeedInv, FeedsOrdered
<1>3. /\ m \in Message /\ q \in Seq(Message) /\ OutcomeLast(q)
      /\ DecidedIn(feed[c]) = DecidedIn(q) \cup (IF m.status # "Running" THEN {m.task} ELSE {})
  BY <1>1, <1>2, TailFacts
<1>4. \A t : Count(q, t) <= Count(feed[c], t)
  <2>1. ASSUME NEW t PROVE Count(q, t) <= Count(feed[c], t)
    <3>1. Count(q, t) + (IF m.task = t THEN 1 ELSE 0) <= Count(feed[c], t)
      BY <1>1, <1>2, CountTail
    <3>2. Count(q, t) \in Nat /\ Count(feed[c], t) \in Nat
      BY <1>2, <1>3, CountFacts
    <3> HIDE DEF m, q
    <3> QED
      BY <3>1, <3>2
  <2> QED
    BY <2>1
<1>5. feed'[c] = q /\ \A x \in Client \ {c} : feed'[x] = feed[x]
  BY <1>1, <1>2 DEF Typed
<1>6. ticket[c] = 0 /\ answer[c] = NoTask
  BY <1>1, <1>2 DEF Session
<1> HIDE DEF m, q
<1>7. CASE m.task = watched[c] /\ m.status \in Ended
  <2>1. at' = [at EXCEPT ![c] = "menu"] /\ UNCHANGED <<allVars, answer, watched, served>>
    BY <1>1, <1>7
  <2>2. ticket'[c] = 0 /\ answer'[c] = NoTask
    BY <1>1, <1>6
  <2>3. \A x \in Client \ {c} : ticket'[x] = ticket[x] /\ feed'[x] = feed[x]
    BY <1>1, <1>5
  <2>4. OutcomeLast(feed'[c]) /\ \A t \in TaskId : Count(feed'[c], t) <= Count(feed[c], t)
    BY <1>3, <1>4, <1>5
  <2> QED
    BY <2>1, <2>2, <2>3, <2>4, ToMenuOK
<1>8. CASE ~ (m.task = watched[c] /\ m.status \in Ended)
  <2>1. UNCHANGED <<published, serving, at, ticket, answer, watched, served>>
    BY <1>1, <1>8 DEF allVars, hubVars
  <2>2. \A x \in Client, t \in TaskId : Awaits(x, t)' => Awaits(x, t)
    BY <2>1 DEF Awaits
  <2>3. ASSUME NEW t \in TaskId, Awaits(c, t), t \in DecidedIn(feed[c])
        PROVE  t \in DecidedIn(feed'[c])
    <3>1. watched[c] = t
      <4>1. served # NoRequest => served.number # 0
        BY DEF MediumInv, ClientSide, Numbered
      <4> QED
        BY <1>6, <2>3, <4>1, HubAssumption DEF Awaits
    <3>2. m.status # "Running" => m.status \in Ended
      BY <1>3 DEF Message, Status, Ended
    <3> QED
      BY <1>3, <1>5, <1>8, <2>3, <3>1, <3>2
  <2>4. \A x \in Client, t \in TaskId : Awaits(x, t)'
          => Awaits(x, t) /\ (t \in DecidedIn(feed[x]) => t \in DecidedIn(feed'[x]))
    BY <1>5, <2>2, <2>3
  <2>5. \A x \in Client : /\ OutcomeLast(feed'[x])
                          /\ \A t \in TaskId : Count(feed'[x], t) <= Count(feed[x], t)
    BY <1>3, <1>4, <1>5, SameFeeds
  <2> QED
    BY <1>1, <2>1, <2>4, <2>5, QuietOK
<1> QED
  BY <1>7, <1>8
------------------------------------------------------------------------------
(* The theorem *)

LEMMA FeedInit == MediumInit => FeedInv
<1> SUFFICES ASSUME MediumInit PROVE FeedInv
  OBVIOUS
<1>1. /\ tasks = EmptyMap /\ published = [t \in TaskId |-> {}]
      /\ progress = [w \in NodeId |-> <<>>] /\ run = [w \in NodeId |-> NoRun]
      /\ feed = [c \in Client |-> <<>>]
  BY DEF MediumInit, HubInit
<1>2. IsFiniteSet(DOMAIN tasks)
  BY <1>1, FS_EmptySet DEF EmptyMap
<1>3. Allowance
  <2>1. \A w \in NodeId, t \in TaskId : Left(w, t) = 0
    BY <1>1, HubAssumption DEF Left, NoRun
  <2>2. \A t : Count(<<>>, t) = 0
    BY CountEmpty
  <2> QED
    BY <1>1, <2>1, <2>2 DEF Allowance, Coming, MaxReports
<1>4. Unheard
  BY <1>1 DEF Unheard
<1>5. FeedsOrdered
  BY <1>1, EmptyFacts DEF FeedsOrdered
<1>6. Kept
  BY <1>1 DEF Kept, Outcomes
<1> QED
  BY <1>2, <1>3, <1>4, <1>5, <1>6 DEF FeedInv

LEMMA FeedNextOK ==
  MediumInv /\ MediumInv' /\ FeedInv /\ [MediumNext]_mediumVars => FeedInv'
<1> SUFFICES ASSUME MediumInv, MediumInv', FeedInv, [MediumNext]_mediumVars PROVE FeedInv'
  OBVIOUS
<1>1. [HubNext]_allVars
  BY MediumIsHubStep DEF MediumInv, ClientSide
<1>2. Others(Internal) \/ UNCHANGED mediumVars => FeedInv'
  BY <1>1, HubAloneOK DEF Others, mediumVars
<1>3. ServeRequest \/ Answer \/ (\E w \in NodeId : Broadcast(w)) => FeedInv'
  BY <1>1, ServeRequestFeedOK, AnswerFeedOK, BroadcastFeedOK
<1>4. ASSUME NEW c \in Client,
             Accepted(c) \/ Read(c) \/ Connect(c) \/ GiveUp(c) \/ WatchTimesOut(c)
      PROVE  FeedInv'
  BY <1>1, <1>4, AcceptedFeedOK, ReadFeedOK, GiveUpFeedOK
<1>5. ASSUME NEW c \in Client, NEW p \in Menu, Ask(c, p) PROVE FeedInv'
  BY <1>1, <1>5, AskFeedOK
<1> QED
  BY <1>2, <1>3, <1>4, <1>5 DEF MediumNext, ClientStep

LEMMA FeedInvariance == MediumSpec => []FeedInv
BY MediumInvariance, FeedInit, FeedNextOK, PTL DEF MediumSpec

(* As long as the tasks submitted so far could all but one have reported   *)
(* everything and still leave room in the buffer, no client that watches a *)
(* task misses its outcome, however late it learns which task that is.     *)
THEOREM OutcomeIsKept == MediumSpec => [](RoomForAll => OutcomeKept)
<1>1. MediumInv /\ FeedInv => (RoomForAll => OutcomeKept)
  <2> SUFFICES ASSUME MediumInv, FeedInv, RoomForAll, NEW c \in Client,
                      at[c] = "watching", Outcomes(watched[c]) # {}
               PROVE  \E i \in DOMAIN feed[c] : /\ feed[c][i].task = watched[c]
                                               /\ feed[c][i].status \in Ended
    BY DEF OutcomeKept
  <2>1. watched[c] \in TaskId /\ feed[c] \in Seq(Message)
    BY DEF MediumInv, ClientSide, Typed, Sessions, Session
  <2>2. watched[c] \in DecidedIn(feed[c])
    BY <2>1 DEF FeedInv, Kept, Awaits
  <2>3. PICK i \in DOMAIN feed[c] : feed[c][i].task = watched[c] /\ feed[c][i].status # "Running"
    BY <2>2 DEF DecidedIn
  <2>4. feed[c][i].status \in Status
    <3>1. feed[c][i] \in Message
      BY <2>1, LenProperties, ElementOfSeq
    <3> QED
      BY <3>1 DEF Message
  <2> QED
    BY <2>3, <2>4 DEF Status, Ended
<1> QED
  BY <1>1, MediumInvariance, FeedInvariance, PTL
==============================================================================
