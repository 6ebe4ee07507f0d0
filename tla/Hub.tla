---------------------------------- MODULE Hub ----------------------------------
(***************************************************************************)
(* A leader's hub (server.rs) with the workers connected to it             *)
(* (host-background-agent/src/transport/mod.rs).  The hub's scheduler and  *)
(* registry are those of Scheduler.tla.  Two of its threads dispatch: the  *)
(* task sender, every two seconds, and the medium server, inside each      *)
(* submission it serves.  A dispatched task is a frame on a Push0 socket   *)
(* that all workers pull from; what workers report comes back on a Pull0   *)
(* socket to the progress thread.                                          *)
(*                                                                         *)
(* Abstracted: the handshake is one step (Join); the mutex around the push *)
(* socket is left out, since a send holding it waits for the very thing    *)
(* any other send would wait for.  In the hub no profile is ever           *)
(* withdrawn and no node failure handled, so neither are actions here.     *)
(* The clients are those of Medium.tla; here they may ask for anything in  *)
(* Submissions at any time.                                                *)
(***************************************************************************)
EXTENDS Scheduler, Sequences

CONSTANTS
  Leader,      \* the node whose process runs the hub
  Sender,      \* the thread of run_task_sender_loop
  Medium,      \* the thread of run_medium_server
  NoTask,      \* no submission being served, no task being executed
  Advertised,  \* Advertised[w]: capability values in the profile w sends
  Probed,      \* Probed[w]: capabilities w's probes find usable
  Ollama,      \* "ollama_execution", the one capability whose executor can fail
  Checkpoint,  \* the checkpoint a stateful execution reports
  PipeCap,     \* bound: task frames buffered towards one worker
  MaxCrashes   \* bound: workers that may crash

Profile(w) == [caps |-> Advertised[w], lastSeen |-> 1200]

ASSUME HubAssumption ==
  /\ Leader \in NodeId /\ NoTask \notin TaskId
  /\ Dispatcher = {Sender, Medium} /\ Sender # Medium
  /\ Advertised \in [NodeId -> SUBSET Capability] /\ \A w \in NodeId : Profile(w) \in Profiles
  /\ Probed \in [NodeId -> SUBSET Capability]
  /\ Checkpoint \in Payload
  /\ PipeCap \in Nat \ {0} /\ MaxCrashes \in Nat

VARIABLES
  worker,      \* worker[w]: where the client lifecycle of w is
  profiles,    \* workers whose profile is on its way to the hub
  linked,      \* workers the push socket has an open pipe to
  pipe,        \* pipe[w]: task frames on their way to w
  run,         \* run[w]: the task w executes and how far it is
  progress,    \* progress[w]: reports on their way from w to the hub
  thread,      \* thread[d]: where the dispatching thread d is
  outbox,      \* outbox[d]: frames the pass of d has still to push
  serving,     \* the submission the medium server has not answered yet
  published,   \* published[t]: statuses broadcast to the medium clients
  lost         \* history: tasks whose frame, execution or report went with a task loop

hubVars == <<worker, profiles, linked, pipe, run, progress, thread, outbox, serving,
             published, lost>>
allVars == <<vars, hubVars>>

NoRun == [task |-> NoTask, stage |-> "idle"]
Stages == {"probe", "first", "second", "infer"}
Status == {"Running", "Completed", "Failed"}
Frame == [task : TaskId, target : NodeId]
Report == [task : TaskId, status : Status, checkpointed : BOOLEAN]

(* run_as_leader registers the leader's own profile before the hub serves. *)
HubInit ==
  /\ nodes = [n \in {Leader} |-> Profile(n)]
  /\ tasks = EmptyMap
  /\ snapshot = [d \in Dispatcher |-> EmptyMap]
  /\ attempts = [t \in TaskId |-> 0]
  /\ unhandled = {}
  /\ worker = [w \in NodeId |-> "joining"]
  /\ profiles = {}
  /\ linked = {}
  /\ pipe = [w \in NodeId |-> <<>>]
  /\ run = [w \in NodeId |-> NoRun]
  /\ progress = [w \in NodeId |-> <<>>]
  /\ thread = [d \in Dispatcher |-> "idle"]
  /\ outbox = [d \in Dispatcher |-> {}]
  /\ serving = NoTask
  /\ published = [t \in TaskId |-> {}]
  /\ lost = {}
------------------------------------------------------------------------------
(* Dispatching threads *)

(* The sender's loop goes on to dispatch only if some task is Pending. *)
WakeSender ==
  /\ thread[Sender] = "idle"
  /\ DOMAIN nodes # {}
  /\ \E t \in DOMAIN tasks : tasks[t].state = "Pending"
  /\ thread' = [thread EXCEPT ![Sender] = "list"]
  /\ UNCHANGED <<vars, worker, profiles, linked, pipe, run, progress, outbox, serving,
                 published, lost>>

(* A submission of a medium client gets a fresh identifier. *)
ServeSubmit(t, s) ==
  /\ thread[Medium] = "idle" /\ serving = NoTask
  /\ t \notin DOMAIN tasks
  /\ Submit(t, s)
  /\ serving' = t
  /\ thread' = [thread EXCEPT ![Medium] = "list"]
  /\ UNCHANGED <<worker, profiles, linked, pipe, run, progress, outbox, published, lost>>

List(d) ==
  /\ thread[d] = "list"
  /\ ListNodes(d)
  /\ thread' = [thread EXCEPT ![d] = "assign"]
  /\ UNCHANGED <<worker, profiles, linked, pipe, run, progress, outbox, serving,
                 published, lost>>

AssignFrames(d) ==
  /\ thread[d] = "assign"
  /\ \E target \in Targets(snapshot[d]) :
       /\ Assign(d, target)
       /\ outbox' = [outbox EXCEPT ![d] =
                       {[task |-> t, target |-> target[t]] : t \in DOMAIN target}]
  /\ thread' = [thread EXCEPT ![d] = "push"]
  /\ UNCHANGED <<worker, profiles, linked, pipe, run, progress, serving, published, lost>>

(* Fault: a frame is sent whether or not there is room for it. *)
PushUnbounded(d, w) ==
  /\ thread[d] = "push" /\ w \in linked
  /\ \E f \in outbox[d] :
       /\ pipe' = [pipe EXCEPT ![w] = Append(@, f)]
       /\ outbox' = [outbox EXCEPT ![d] = @ \ {f}]
  /\ UNCHANGED <<vars, worker, profiles, linked, run, progress, thread, serving,
                 published, lost>>

(* Fault: the send does not wait for room, a full pipe drops the frame. *)
PushNonBlocking(d, w) ==
  /\ thread[d] = "push" /\ w \in linked
  /\ \E f \in outbox[d] :
       /\ pipe' = IF Len(pipe[w]) < PipeCap THEN [pipe EXCEPT ![w] = Append(@, f)] ELSE pipe
       /\ outbox' = [outbox EXCEPT ![d] = @ \ {f}]
  /\ UNCHANGED <<vars, worker, profiles, linked, run, progress, thread, serving,
                 published, lost>>

(* The push socket hands a frame to any worker with room, whatever the     *)
(* frame's module_target says, and blocks while there is none.             *)
Push(d, w) ==
  /\ thread[d] = "push"
  /\ w \in linked /\ Len(pipe[w]) < PipeCap
  /\ \E f \in outbox[d] :
       /\ pipe' = [pipe EXCEPT ![w] = Append(@, f)]
       /\ outbox' = [outbox EXCEPT ![d] = @ \ {f}]
  /\ UNCHANGED <<vars, worker, profiles, linked, run, progress, thread, serving,
                 published, lost>>

(* Fault: the client is left without its answer. *)
EndPassUnanswered(d) ==
  /\ thread[d] = "push" /\ outbox[d] = {}
  /\ thread' = [thread EXCEPT ![d] = "idle"]
  /\ UNCHANGED <<vars, worker, profiles, linked, pipe, run, progress, outbox, serving,
                 published, lost>>

(* The pass is over; the medium server now answers its client. *)
EndPass(d) ==
  /\ thread[d] = "push" /\ outbox[d] = {}
  /\ thread' = [thread EXCEPT ![d] = "idle"]
  /\ serving' = IF d = Medium THEN NoTask ELSE serving
  /\ UNCHANGED <<vars, worker, profiles, linked, pipe, run, progress, outbox,
                 published, lost>>
------------------------------------------------------------------------------
(* Receiving threads *)

ReceiveProfile(w) ==
  /\ w \in profiles
  /\ Register(w, Profile(w))
  /\ profiles' = profiles \ {w}
  /\ UNCHANGED <<worker, linked, pipe, run, progress, thread, outbox, serving,
                 published, lost>>

(* Fault: a report without a checkpoint is skipped, completions included. *)
DeliverCheckpoints(r) ==
  IF r.checkpointed THEN Progress(r.task, CheckpointSaved(Checkpoint)) ELSE UNCHANGED vars

(* Only a completion and a checkpoint reach the scheduler. *)
Deliver(r) ==
  CASE r.status = "Completed" -> Progress(r.task, Success)
    [] r.status # "Completed" /\ r.checkpointed ->
         Progress(r.task, CheckpointSaved(Checkpoint))
    [] OTHER -> UNCHANGED vars

(* Fault: reports of one worker are handled out of order. *)
ReceiveProgressLast(w) ==
  /\ progress[w] # <<>>
  /\ LET r == progress[w][Len(progress[w])]
     IN  /\ published' = [published EXCEPT ![r.task] = @ \cup {r.status}]
         /\ Deliver(r)
  /\ progress' = [progress EXCEPT ![w] = SubSeq(@, 1, Len(@) - 1)]
  /\ UNCHANGED <<worker, profiles, linked, pipe, run, thread, outbox, serving, lost>>

(* Every report is broadcast before it is looked at. *)
ReceiveProgress(w) ==
  /\ progress[w] # <<>>
  /\ LET r == Head(progress[w])
     IN  /\ published' = [published EXCEPT ![r.task] = @ \cup {r.status}]
         /\ Deliver(r)
  /\ progress' = [progress EXCEPT ![w] = Tail(@)]
  /\ UNCHANGED <<worker, profiles, linked, pipe, run, thread, outbox, serving, lost>>
------------------------------------------------------------------------------
(* Workers *)

(* Authenticated: the one profile of the session is pushed. *)
Join(w) ==
  /\ worker[w] = "joining"
  /\ worker' = [worker EXCEPT ![w] = "profiled"]
  /\ profiles' = profiles \cup {w}
  /\ UNCHANGED <<vars, linked, pipe, run, progress, thread, outbox, serving,
                 published, lost>>

Dial(w) ==
  /\ worker[w] = "profiled"
  /\ worker' = [worker EXCEPT ![w] = "pulling"]
  /\ linked' = linked \cup {w}
  /\ UNCHANGED <<vars, profiles, pipe, run, progress, thread, outbox, serving,
                 published, lost>>

Pull(w) ==
  /\ worker[w] = "pulling" /\ run[w] = NoRun /\ pipe[w] # <<>>
  /\ run' = [run EXCEPT ![w] = [task |-> Head(pipe[w]).task, stage |-> "probe"]]
  /\ pipe' = [pipe EXCEPT ![w] = Tail(@)]
  /\ UNCHANGED <<vars, worker, profiles, linked, progress, thread, outbox, serving,
                 published, lost>>

(* One step of execute_task: a report is sent and the next stage entered. *)
SendProgress(w, status, checkpointed, next) ==
  /\ progress' = [progress EXCEPT ![w] =
        Append(@, [task |-> run[w].task, status |-> status, checkpointed |-> checkpointed])]
  /\ run' = [run EXCEPT ![w] = IF next = "idle" THEN NoRun ELSE [@ EXCEPT !.stage = next]]
  /\ UNCHANGED <<vars, worker, profiles, linked, pipe, thread, outbox, serving,
                 published, lost>>

At(w, stage) == worker[w] = "pulling" /\ run[w].stage = stage
Required(w) == tasks[run[w].task].required

Reject(w) ==
  At(w, "probe") /\ ~ (Required(w) \subseteq Probed[w]) /\ SendProgress(w, "Failed", FALSE, "idle")

(* The first capability required decides how a task is executed. *)
BeginGeneric(w) ==
  /\ At(w, "probe") /\ Required(w) \subseteq Probed[w] /\ Required(w) # {Ollama}
  /\ SendProgress(w, "Running", tasks[run[w].task].type = "StatefulLongRunning", "first")

ContinueGeneric(w) == At(w, "first") /\ SendProgress(w, "Running", FALSE, "second")

BeginOllama(w) ==
  /\ At(w, "probe") /\ Required(w) \subseteq Probed[w] /\ Ollama \in Required(w)
  /\ \/ SendProgress(w, "Running", FALSE, "infer")
     \/ SendProgress(w, "Failed", FALSE, "idle")      \* empty prompt

Finish(w) ==
  (At(w, "second") \/ At(w, "infer")) /\ SendProgress(w, "Completed", FALSE, "idle")

OllamaFails(w) == At(w, "infer") /\ SendProgress(w, "Failed", FALSE, "idle")
------------------------------------------------------------------------------
(* Workers and task loops that end *)

FramesTo(w) == {pipe[w][i].task : i \in DOMAIN pipe[w]}

(* What w has sent arrives up to some point; the hub still has the pipe.   *)
Vanish(w, how) ==
  /\ worker' = [worker EXCEPT ![w] = how]
  /\ \E k \in 0..Len(progress[w]) :
       /\ progress' = [progress EXCEPT ![w] = SubSeq(@, 1, k)]
       /\ lost' = lost \cup ({run[w].task} \ {NoTask})
                       \cup {progress[w][i].task : i \in (k + 1)..Len(progress[w])}
  /\ run' = [run EXCEPT ![w] = NoRun]
  /\ UNCHANGED <<vars, profiles, linked, pipe, thread, outbox, serving, published>>

Crash(w) ==
  /\ w # Leader /\ worker[w] # "crashed"
  /\ Cardinality({x \in NodeId : worker[x] = "crashed"}) < MaxCrashes
  /\ Vanish(w, "crashed")

(* Before its first report the model runner's executor cuts the prompt at  *)
(* byte 80 for the log.  Where that is inside a character it panics: the   *)
(* task loop of the session is gone and its sockets with it, while the     *)
(* process, be it the leader's, lives on and does not start another.       *)
CutPrompt(w) ==
  /\ At(w, "probe") /\ Required(w) \subseteq Probed[w] /\ Ollama \in Required(w)
  /\ Vanish(w, "stopped")

(* The push socket notices and discards what the pipe still held. *)
ClosePipe(w) ==
  /\ worker[w] \in {"crashed", "stopped"} /\ w \in linked
  /\ linked' = linked \ {w}
  /\ pipe' = [pipe EXCEPT ![w] = <<>>]
  /\ lost' = lost \cup FramesTo(w)
  /\ UNCHANGED <<vars, worker, profiles, run, progress, thread, outbox, serving, published>>
------------------------------------------------------------------------------
HubStep(d) == List(d) \/ AssignFrames(d) \/ (\E w \in NodeId : Push(d, w))
WorkerStep(w) == \/ Join(w) \/ Dial(w) \/ Pull(w)
                 \/ Reject(w) \/ BeginGeneric(w) \/ ContinueGeneric(w)
                 \/ BeginOllama(w) \/ Finish(w) \/ OllamaFails(w)

(* What the medium clients have no part in *)
Internal == \/ WakeSender
            \/ \E d \in Dispatcher : HubStep(d)
            \/ EndPass(Sender)
            \/ \E w \in NodeId : ReceiveProfile(w)
            \/ \E w \in NodeId : WorkerStep(w)
            \/ \E w \in NodeId : Crash(w) \/ CutPrompt(w)
            \/ \E w \in NodeId : ClosePipe(w)

HubNext == \/ Internal
           \/ \E t \in TaskId, s \in Submissions : ServeSubmit(t, s)
           \/ EndPass(Medium)
           \/ \E w \in NodeId : ReceiveProgress(w)

HubSpec == HubInit /\ [][HubNext]_allVars

(* Every thread that can go on does; nobody has to submit, crash or panic. *)
HubFairness ==
  /\ WF_allVars(WakeSender)
  /\ \A d \in Dispatcher : WF_allVars(HubStep(d) \/ EndPass(d))
  /\ \A w \in NodeId : /\ WF_allVars(ReceiveProfile(w))
                       /\ WF_allVars(ReceiveProgress(w))
                       /\ WF_allVars(WorkerStep(w))
                       /\ WF_allVars(ClosePipe(w))

FairHubSpec == HubSpec /\ HubFairness
------------------------------------------------------------------------------
(* Properties *)

(* The scheduler's types, and those of the sockets, threads and workers. *)
HubTypeOK ==
  /\ TypeOK
  /\ worker \in [NodeId -> {"joining", "profiled", "pulling", "stopped", "crashed"}]
  /\ profiles \subseteq NodeId /\ linked \subseteq NodeId
  /\ \A w \in NodeId : /\ pipe[w] \in Seq(Frame) /\ Len(pipe[w]) <= PipeCap
                       /\ progress[w] \in Seq(Report)
                       /\ run[w] \in {NoRun} \cup [task : DOMAIN tasks, stage : Stages]
  /\ thread \in [Dispatcher -> {"idle", "list", "assign", "push"}]
  /\ \A d \in Dispatcher : /\ outbox[d] \subseteq Frame
                           /\ Idle(d) <=> thread[d] # "assign"
  /\ serving \in TaskId \cup {NoTask}
  /\ serving # NoTask => thread[Medium] # "idle"
  /\ published \in [TaskId -> SUBSET Status]
  /\ lost \subseteq TaskId

(* Where a task that was handed out is: still to be pushed, on a pipe, or  *)
(* executing.                                                              *)
Holders(t) ==
  {<<"outbox", d>> : d \in {d \in Dispatcher : \E f \in outbox[d] : f.task = t}}
    \cup {<<"pipe", w>> : w \in {w \in NodeId : t \in FramesTo(w)}}
    \cup {<<"run", w>> : w \in {w \in NodeId : run[w].task = t}}

(* The two dispatching threads never hand out the same task twice: at any  *)
(* time it is in one place, and only while Running.                        *)
SingleDelivery ==
  \A t \in DOMAIN tasks :
    /\ Cardinality(Holders(t)) <= 1
    /\ Holders(t) # {} => tasks[t].state = "Running"

(* Over its whole life too: once handed out, a task is never dispatched    *)
(* again, by either thread, whatever became of its first execution.        *)
HandedOutOnce == \A t \in DOMAIN tasks : attempts[t] <= 1

(* A completion is final: no late checkpoint, second report or dispatch    *)
(* touches a Completed task.                                               *)
CompletedIsFinal ==
  [][\A t \in DOMAIN tasks : tasks[t].state = "Completed" => tasks'[t] = tasks[t]]_allVars

Outcome(t) == \E w \in NodeId : \E i \in DOMAIN progress[w] :
                progress[w][i].task = t /\ progress[w][i].status # "Running"

(* A Running task is somewhere: held, or its outcome under way.  Only a    *)
(* Failed report, a crashed worker and a task loop that panicked leave one *)
(* Running with nobody at it.                                              *)
RunningAccounted ==
  \A t \in DOMAIN tasks :
    tasks[t].state = "Running"
      => Holders(t) # {} \/ Outcome(t) \/ "Failed" \in published[t] \/ t \in lost

Is(t, state) == t \in DOMAIN tasks /\ tasks[t].state = state
RunsAnywhere(t) ==
  t \in DOMAIN tasks /\ \A w \in NodeId : tasks[t].required \subseteq Probed[w] \cap Advertised[w]

(* Without crashes, a task that every worker can really run, and that is   *)
(* not for the model runner, which may fail, is completed, whichever       *)
(* thread dispatches it and whichever worker its frame reaches.            *)
EveryTaskCompletes == \A t \in TaskId : RunsAnywhere(t) ~> Is(t, "Completed")

(* Without crashes, the medium server answers every submission, although   *)
(* it pushes task frames, its own and others', before it does.             *)
SubmissionsAnswered == \A t \in TaskId : serving = t ~> serving # t

(* ROADMAP: "The scheduler filters the node pool to only capable nodes     *)
(* before dispatch".  The push socket does not: a worker may be handed a   *)
(* task whose capabilities it never advertised.                            *)
OnlyCapableReceive ==
  \A w \in NodeId : run[w] # NoRun => Required(w) \subseteq Advertised[w]

(* Nobody is at the task or knows how it ended. *)
Stranded(t) == Is(t, "Running") /\ Holders(t) = {} /\ ~ Outcome(t)

(* ADR-003: the tasks of a departed node are rescheduled.  The hub never   *)
(* evicts a node or handles its failure, and of a report of failure it     *)
(* only tells the medium clients: the task stays Running.                  *)
StrandedTaskRecovers == \A t \in TaskId : Stranded(t) ~> ~ Stranded(t)
==============================================================================
