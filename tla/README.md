# SeamlessSwarm in TLA+

A verification development kept beside the Rust code of SeamlessSwarm: a swarm of
machines on one local network that elects a leader, authenticates nodes with it and
has tasks executed by whichever node is able to.

`MODULE.tla` files model the code, `MC*.tla` with `*.cfg` check small instances with
TLC, `*Proofs.tla` hold theorems for every instance, checked by TLAPS, and `PROJECT.json`
maps each definition to the lines it stands for.

    tlc -workers 2 -config MCScheduler.cfg MCScheduler.tla
    tlapm HubProofs.tla

Paths below are relative to the repository's root; `core` stands for
`software/compute-module-core/src` and `agent` for `software/host-background-agent/src`.

## 1. Inventory of the system

One binary, `seamless-node`, runs on every machine. Its parts:

| Part | State | Operations | Talks to |
| --- | --- | --- | --- |
| `EphemeralRegistry` (`core/registry`) | map node -> profile behind one `RwLock` | register, unregister, evict_offline_nodes, list_nodes, authenticate_and_register_node | scheduler, hub |
| `ProfileScheduler` (`core/scheduler`) | map id -> task behind one `RwLock` | submit_task, dispatch_pending_tasks, update_task_progress, handle_node_failure, schedule_task | reads the registry |
| Hub, `SwarmHubServer` (`core/server.rs`) | push and pub sockets behind mutexes, trusted thumbprints | five servers: authentication (Rep0), heartbeat (Pull0), task sender loop, medium interface (Rep0), progress receiver (Pull0, a thread) | workers and medium clients over NNG; registry and scheduler by calls |
| Worker, `NngClient` (`agent/transport`) | sockets of one session | handshake with retries, one profile push, task pull loop, probe and execution, progress reports | hub |
| Election (`agent/election`, mDNS part of `agent/transport`) | peers with last_seen, leader flag and address; am-I-leader | observe_peer, observe_leader, clear_leader_flags, current_leader, i_should_be_leader | other nodes over multicast; role loop |
| Role loop (`agent/main.rs`) | the role the process plays | lead, follow, wait, step down | election, hub, worker |
| Runtime (tokio, `#[tokio::main]` of `agent/main.rs`) | worker threads, one per core, and what each is polling | spawn, poll, block in a `recv` | carries the hub's loops, the task loops, mDNS and all timers |
| Scout (`agent/scout`) | none | discover capabilities of the machine, once at the start | role loop; its values are matched by the scheduler |
| Probes (`CapabilityExecutor` in `agent/transport`) | none | is a required capability usable now | worker |
| Secure element (`agent/secure_element.rs`), `core/auth.rs` | a key pair | sign, verify | handshake |
| Framing helper `NngServer` (`core/transport`) | a socket | frame, receive | nothing in the hub |
| Medium client (`tools/swarm-medium`) | a Req and a Sub socket with its buffer, the task watched | status, submit, give up, watch progress | hub |
| Key tool, node firmware, `proto/topology.proto` | none | one-shot | - |

What makes the system hard, and what would make each part correct:

* **Registry and scheduler.** Two locks, taken one after the other by a dispatch pass,
  and two threads that run passes. Results are applied in whatever state a task is.
  Correct: a task is handed out once per retry it paid for, at most `max_retries + 1`
  times; a node's loss means the same on both recovery paths and never loses a
  checkpoint; passes spread the load.
* **Hub and workers.** Five servers, a socket that blocks and routes by itself, workers
  that crash. Correct: a task is at one place at a time, nothing that is Running is
  forgotten, a completion is final, every submission is answered, every task ends.
* **Handshake.** One socket and one loop for all clients, timeouts on both ends.
  Correct: a grant belongs to the challenge of the client it goes to; colliding or
  vanishing clients do not take the service down.
* **Election.** Local views fed by lossy multicast, a startup window, step-down, leaders
  that die at any moment. Correct: nodes that start together elect one leader; a split
  brain ends; nobody stays with a leader that is not one.
* **Medium client.** Two sockets, two deadlines, a hub that dispatches a task before it
  answers. Correct: the answer read is that of the request made; the outcome is not
  missed though it may be broadcast before the client knows the identifier; what the user
  is told is how the task ended.
* **Runtime.** Loops that block a worker thread, timers that need one. Correct: the node
  goes on announcing itself and its role loop goes on.
* **Scout and probes.** Two programs that search the machine for software, each its own
  way. Correct: what the worker would accept is offered, what is offered is accepted.

`PROJECT.json` lists every hazard at its line with the properties aimed at it.

## 2. Modules

| Module | Models | State and actions against the code |
| --- | --- | --- |
| `Scheduler` | registry and scheduler | `nodes`, `tasks` are the two maps; one action per operation that takes one lock; `dispatch_pending_tasks` is `ListNodes` then `AssignPending`, `snapshot[d]` is the node list thread `d` holds in between. `attempts` and `unhandled` are history. |
| `RetryBudget` | what a client is promised about retries | each start after the first costs one unit of a fixed budget |
| `Hub` | `server.rs` with the workers of `agent/transport` | extends `Scheduler`; threads of the task sender, the medium server, heartbeat and progress receivers; `pipe[w]` and `progress[w]` are NNG queues, `run[w]` the execution under way; `Internal` is what clients have no part in |
| `Medium` | `tools/swarm-medium` with the hub | extends `Hub`; `at[c]` is the place in the client's loop, `ticket`/`answer` its Req0 socket, `feed` its Sub0 buffer, `requests`/`served` the medium server's Rep0 socket. `ServeRequest`, `Answer`, `Broadcast` are the hub's `ServeSubmit`, `EndPass`, `ReceiveProgress` with their effect on clients |
| `ClientPromise` | what a client is promised by the hub | requests are served in order and make one task each, of the kind picked; a task is offered to the client that asked for it, taken once, ends once, and its watcher is told that end |
| `Election` | election, announcements, role loop | `role[i]` is the place in the role loop; `live[i]` and `flagged[i]` are what an entry of the peers map amounts to; `hub` is who holds the sockets |
| `Handshake` | authentication server and its clients | `server` is the place in the loop of `run_auth_server`, `request`/`reply` the socket's queues, `token` the challenge waited on |
| `Scout` | `agent/scout` and the probes of `agent/transport` | functions of a machine: which directories, bundles and desktop entries are searched by the profilers, which by the probes |
| `Node` | one process on its runtime | extends `Scout`; `role` is where the main thread is, `place[l]` whether the spawned loop `l` waits for a worker thread, holds one or has lent it to an execution |
| `SchedulerProofs`, `HubProofs`, `MediumProofs`, `ElectionProofs`, `HandshakeProofs`, `NodeProofs` | - | theorems about the module of that name; `HubProofs` builds on `SchedulerProofs`, `MediumProofs` on `HubProofs`, as the modules do |
| `BalanceProofs`, `FeedProofs` | - | one theorem each that counts: how even a pass is, on `SchedulerProofs`; what a subscription's buffer keeps, on `MediumProofs` |
| `MC*` | - | instances for TLC; `MCMedium` extends `MCHub` |

`Hub` composes with `Scheduler` by extending it and calling its actions (`Submit`,
`Register`, `Progress`, `ListNodes`, `Assign`), and `Medium` with `Hub` in the same way, so
that a step of a client's request is one of the hub and one of the scheduler. `Node`
composes with `Scout`: the profile a process carries is computed from its machine, the
tasks it executes are those its probes accept. `Election` and `Handshake` stand alone: from
the point of view of the election a handshake is "answered by a process that holds a hub"
(`Authenticated`), and the hub takes it as one step (`Join`). `Node` looks at the role loop
of `Election` from inside one process: what the network does is reduced to the answers of
`current_leader` and `i_should_be_leader`, and what was one step there is here spread over
spawned loops.

Operators whose comment begins with *Fault:* are deliberate mistakes of the kind the
code could have had. They are used by no specification; each shows that one property
notices it.

Abstractions worth knowing:

* Payloads and checkpoints are values of a small set, capabilities sets of values (the
  code compares values only), the order of a `HashMap` is any order.
* The scheduler's Running variant carries its node; here `node` is a field equal to
  `NoNode` otherwise, and `TypeOK` says so.
* Time: a peer expires when silent (or when its listener is in `Deaf`, for messages
  missed), a handshake timeout fires when no answer can come, sleeps are the freedom to
  go on later. `Clock` holds the times eviction may be called with.
* A server in the handshake is taken to be fast against the client's 2 s, a live client
  fast against the server's 500 ms. A slow one would end the server just as a vanished
  one does (`RejoinPossible`).
* Clients: percentages and result texts are left out, a deadline may pass whenever the
  client waits, as often as `MaxTimeouts` allows. The status request is only part of
  `Connect`.
* Machines: an application is a name. Of the profile only the applications are modelled:
  no probe of a worker knows the other figures, nor the classes made of them.
* The menu of the client: `Sent` turns the choice shown as "Interactive" (`main.rs:105` of the
  client) into the stateless submission it is sent as (line 154).
* A follower or leader of `Election` falls silent if it is `Crowded`. Which machines are, and
  when, is `Node`'s subject; there silence may end while a task is executed, which seen from
  other nodes is a `Deaf` one's missing of announcements, and here it is for good.
* Runtime: whatever is ready is polled by any idle worker thread, which is more than tokio
  promises. A loop that awaits between two blocking calls lets go of its worker there; one
  that only blocks keeps it. Timers and the mDNS sockets are driven by a worker with
  nothing else to do, those of the main thread included.
* In `Hub`, the leader's `last_seen` is that of its loopback registration; nothing in the
  hub reads it. The leader itself does not crash there: its loss is `Election`'s subject. Its
  task loop may panic like any other's (`CutPrompt`).
* A session whose task loop has panicked has no other: in the code its node gets one when it
  joins the next leader, which is outside the one hub that `Hub` models.

## 3. Runs

| Run | Checks | Instance | Shows |
| --- | --- | --- | --- |
| `scheduler` | `TypeOK`, `AttemptsPaidFor`, `AttemptsBounded`, `RecoveryAgrees`, `RecoveryKeepsCheckpoint`, `BalancedPass`, `OrphansAreStalePasses`, `KeepsPromise` | 2 nodes, 2 tasks of 3 types, 2 payloads, 2 profiles | retries are accounted for through any mix of failures, late results, churn and passes; passes are even; a stale node list is the only way a task ends up on a node nobody watches; `RetryBudget` is implemented |
| `hub` | `MediumTypeOK`, `SingleDelivery`, `RunningAccounted`, `HandedOutOnce`, `CompletedIsFinal`, `WatchesOwnTask`, `OutcomeKept`, `ToldTheOutcome` | 2 workers, of which one may crash and one offers what its probe refuses, each of whose task loops may panic over a prompt; a client that submits twice (a stateful task, one for the model runner); pipes of 1; one deadline passes | where a task may be, and what the user sees of it |
| `hub_live` | `EveryTaskCompletes`, `SubmissionsAnswered`, `ClientsAreServed`, `KeepsClientPromise` | 1 worker, 3 submissions of the choice shown as interactive, no crash and no prompt, one deadline passes | progress, with both dispatching threads blocked on a full pipe at times; `ClientPromise` is implemented, late answers and outcomes included |
| `election` | `TypeOK`, `FollowsRealLeader`, `OnlySmallestLeads`, `SwarmForms`, `SplitBrainHeals` | 3 nodes, the smallest late and crowded, another deaf at times, one crash | who leads and is followed, through late starts, loss, silence and a crash; what an undisturbed swarm comes to |
| `handshake` | `TypeOK`, `GrantsAreOwn`, `ServerSurvives`, `GrantReachesClient` | 3 clients, 4 challenges, one crash | collisions |
| `node` | `TypeOK`, `OffersWhatItRuns`, `RunsWhatItOffers`, `AnnouncesWhileRoom`, `LeaderWorks` | machines of 3 (Windows), 4 (Linux) and 5 (macOS) cores, two sessions, two tasks, one application removed or installed | when a process goes on announcing itself and works for its own hub; what it offers and what it accepts |
| `hub_routing` (violated) | `OnlyCapableReceive` | 2 workers, submissions by anybody | a frame goes to any worker |
| `hub_stranded` (violated) | `StrandedTaskRecovers` | one task, one crash | nobody recovers a crashed worker's task |
| `election_stale` (violated) | `StaleLeaderLeft` | 2 nodes, the smaller late | a node stays with a leader that stepped down |
| `election_again` (violated) | `NeverPanics` | 2 nodes, one crash | the second hub of a process cannot bind |
| `handshake_crash` (violated) | `RejoinPossible` | 2 clients, one crash | a vanished client ends the authentication server |
| `node_silent` (violated) | `AlwaysAnnounces` | the four-core machine, alone | a leader that works for its own hub falls silent |

`hub` and `hub_live` check the hub's own properties too: every step of `MediumSpec` is one
of the hub, and the submissions come from clients that wait for the answer. The two hub
runs with a violation leave the clients out.

Bounds, and why they are enough. Two nodes are the least with a choice and a loss; two
tasks the least that share a pass; three types and two payloads reach every branch of
recovery. In `scheduler` one pass at a time races with churn and results; two dispatchers
is what the hub has, and the passes of both race in `hub`. Pipes of one fill at the second frame, which is what blocking needs; with one
worker and three tasks (one executing, one on the pipe, one to push) `hub_live` blocks
either thread. A client that submits twice meets the messages of a task it has stopped
watching. `FeedCap` is 4 instead of 128, the least buffer for which two tasks satisfy the
condition `RoomForAll` under which `OutcomeKept` is proved (section 4); with a buffer of 3
TLC finds the outcome lost. `MaxTokens` bounds challenges: four let
each of three clients take part and one try again. Three nodes are the least with a
follower that has a leader and another peer; which of them is late, deaf or crowded is
chosen so that the smallest one displaces a leader, is missed and falls silent itself. The
run allows one crash at any node. In `node` the cores are chosen around the four
loops a leader keeps blocked: with three it never gets to its own worker, with four nothing
is left once it works, with five only after a further session. Two sessions are the least
with a failover. Late results, resubmission under a live identifier and eviction at the
exact threshold are inputs of the instances. Deadlock is checked in the scheduler run; the
hub's and the clients' submissions, the election's crashes, the handshake's tokens are
bounded, and a node that has fallen silent does rest, so it is not checked elsewhere.

Symmetry is used in the `scheduler` run and, between the two task identifiers, in the `hub`
run: their properties are invariants and action properties (`KeepsPromise` has no
fairness), and identifiers are only drawn and compared. It is used in no run with liveness.

### Fairness

* `Hub`, `Medium`: weak fairness of each thread of the hub (sender, medium server, the two
  receivers), of each worker's step and of a client's reading of what has arrived. The loops
  block only on what the model makes them wait for. Nobody has to submit or crash, and no
  deadline has to pass. Threads are taken to be scheduled; `Node` says when they are.
* `Election`: weak fairness of hearing each announcement that is being sent, of noticing
  silence, and of the role loop, each for processes whose timers run. By `Node` this is not
  every process: one whose loops hold all workers is `mute` from then on, announces and
  decides nothing, and a handshake with its hub need not be answered. So `SwarmForms` is
  about swarms where nobody falls silent, misses announcements or crashes, and
  `SplitBrainHeals` counts the leaders whose timers run: a leader that has fallen silent
  never learns of the other one and keeps its hub.
* `Handshake`: weak fairness of the server's loop and of each client, which retries for
  ever. Clients need not crash.
* `Node`: weak fairness of the main thread except for the answer to its handshake, which is
  another node's affair; of the announcement's timer; of the leader's dialling itself; of
  polling a loop that is ready or whose execution is over. Nothing has to be heard, and no
  task has to arrive.

`ClientsAreServed` and `EveryTaskCompletes` are checked where no worker crashes and no prompt
is cut: with either, a task may have no outcome and its client waits for its deadline
(`RunningAccounted` says when). `Full`, in the properties of `Node`, says that as many
blocking loops have been spawned as there are worker threads. The model lets the heartbeat
port be dialled before its loop has listened, which the half second of `main.rs:130` makes
unlikely and nothing rules out; the session then fails for good, and `LeaderWorks` promises
only the case where both loops are there in time.

### Where code and documents part

1. `hub_routing`: ROADMAP.md:45 says capable nodes are chosen before dispatch. They are,
   but the Push0 socket ignores the choice (`server.rs:121-123`). The worker's own probe
   then rejects the task, and the report of failure is dropped (`server.rs:506`).
2. `hub_stranded`: ADR-003:20 and :25 promise eviction and rescheduling. Nothing in the
   hub calls `evict_offline_nodes` or `handle_node_failure`.
3. `election_stale`: ADR-004:39-40 promise that followers notice a silent leader. PEER
   messages refresh an entry with its leader flag (`election/mod.rs:34-45`). With a
   crash instead of a late start the same property fails in two more ways: a follower
   still in its handshake with a dead leader retries for ever (`transport/mod.rs:238`),
   and one that has already heard a new leader never leaves the dead one, since any live
   leader will do (`main.rs:191`).
4. `election_again`: main.rs:140 says the sockets close on step-down. The spawned server
   tasks own the hub too, so they do not.
5. `handshake_crash`: the second `recv` of `run_auth_server` treats its timeout as fatal
   (`server.rs:201`; the first one does not, `server.rs:163-167`).
6. `node_silent`: transport/mod.rs:67 and ADR-004:34 announce every node every 2 s. The loops
   of the hub and of the sessions block a worker of the runtime each (`server.rs:163`,
   `transport/mod.rs:297`). On four cores, the Raspberry Pi 5 of
   docs/prototype-hardware-note.md:23, a leader falls silent once it works for its own hub:
   all the others take it for dead, and it does not notice that it should step down. With
   more cores the same comes later: the task loop of a session is never stopped
   (`transport/mod.rs:290`), so each failover takes a worker thread away.

`OrphansAreStalePasses` tells a seventh, of the library alone: a pass that lists the nodes
before a node is unregistered and its failure handled can still assign it a task. The hub
does not reach this, since it never removes a node.

What `Hub`, `Medium` and `Scout` show besides, stated by properties that hold of the code:

* `execute_ollama_task` cuts the prompt at byte 80 for the log before its first report
  (`transport/mod.rs:432`). Where that is inside a character it panics: the task loop of the
  session ends, its task stays Running for the scheduler with no report, and the node stays
  in the swarm without working for it (`CutPrompt`; the third exception of
  `RunningAccounted`).
* The third choice of the client's menu is called "Interactive" (line 105 of its `main.rs`)
  and sent as stateless (line 154): no user can submit an interactive task. What the clients
  are promised is about what is sent.
* A client that gave up waiting has not withdrawn its request. If its user submits again,
  the task runs twice; `WatchesOwnTask` only promises that the late answer is not mistaken.
* `RunsWhatItOffers` is limited to tools with an executor of their own. The scout offers
  gimp, imagemagick, python3, node, docker, and every desktop entry of Linux or directory of
  Program Files as well, and ollama wherever the program is; the generic probe looks for a
  bundle under /Applications and refuses whatever has none. A bundle whose name has an
  underscore is looked for under a name with a space.
* The tools of Windows are not found, since PATH is split at ':'
  (`scout/profilers.rs`), although line 212 there says "on all platforms"; hence the
  exception in `OffersWhatItRuns`.
* The profile is that of the start (`main.rs:25`), although
  docs/Scout-Capability-Discovery-Model.md:9 has discovery "also during heartbeats"; hence
  `changes = 0` in both properties.

## 4. Proofs

Eight modules hold theorems, each for all values of the constants that satisfy the
assumptions its model states. Every inductive invariant below was first checked by TLC as
an invariant of a run of its model (`HubInv` on the instance of `hub_routing`, 740,054
states; `MediumInv`, `OfferedOnce` and `FeedInv` on that of `hub`, 1,962,493, where TLC
also found `KeepsClientPromise` to hold, with a crash and two kinds of tasks; the
handshake's with three clients, 70,358), then proved. With these, every invariant and
every action property of a passing run has its theorem.

### The scheduler

`SchedulerProofs.tla` and `BalanceProofs.tla`, for every set of nodes, tasks, submissions, profiles and
dispatchers that satisfies the assumptions of `Scheduler.tla` (the assignee `NoNode` is no
node; submissions, profiles and times have their types):

| Theorem | Statement |
| --- | --- |
| `TypeCorrect` | `Spec => []TypeOK` |
| `AttemptsArePaidFor` | `Spec => []AttemptsPaidFor` |
| `AttemptsAreBounded` | `Spec => []AttemptsBounded` |
| `RecoveryPathsAgree` | `Spec => []RecoveryAgrees` |
| `RetriesKeepCheckpoints` | `Spec => RecoveryKeepsCheckpoint` |
| `ImplementsRetryBudget` | `Spec => KeepsPromise` |
| `OrphansOnlyByStalePasses` | `Spec => OrphansAreStalePasses` |
| `PassesAreBalanced` | `Spec => BalancedPass` |

The argument: `AttemptsBounded` is not inductive, since it does not say that an attempt
under way has been paid for. `AttemptsPaidFor` is: the number of dispatches is at most the
retries used, plus one for the attempt of a task that has left the queue. Together with
`TypeOK` it is the inductive invariant `IInv`. Each action keeps it: lemmas about the
operators on a single task (`NewTaskFacts`, `FailedFacts`, `RetryFacts`, `OnResultFacts`,
`NodeLostFacts`, `TargetFacts`) carry the arithmetic, one lemma per action carries the
maps, `Invariance` puts them together. `RecoveryAgrees` needs only that a task is of one
of the three types. The refinement has one lemma per kind of step: an operation that
harms no task's budget stutters or recovers (`UnharmedStep`, `RecoverStep`), a submission
is a `Submit`, an assignment a `Start`.

`OrphansOnlyByStalePasses` is about every way a task can be Running on a node that is
neither registered nor waiting for its failure to be handled. It goes by actions: one that
hands nothing out and takes no node away makes no orphan; the removal of a node puts it
among the unhandled ones; the handling of its failure leaves none of its tasks Running;
what is left is an assignment, and its target comes from the dispatcher's list.

`PassesAreBalanced` turns a pass into arithmetic. The tasks of a pass are numbered without
gaps in the order they are walked (`OrderIsNumbering`), the capable nodes have the ranks
0 to k - 1 in the order the map gives them (`RankFacts`), and a task goes to the node whose
rank is its number modulo k. So a node gets as many tasks as there are numbers below N with
its rank as remainder (`TargetsAreResidues`), and two such counts differ by at most one
(`EvenResidues`, where one class is mapped into the other by a shift of the rank). The
invariant it needs besides is that both maps are finite (`FiniteMaps`), since each action
adds one entry at most.

### The hub

`HubProofs.tla`, for any workers, tasks, submissions, capabilities offered and accepted,
capacity of the pipes and number of crashes. Assumed: the two dispatchers are different,
`NoTask` is no task, the leader is a node, the profile made from what a worker advertises
is one of the scheduler's profiles.

| Theorem | Statement |
| --- | --- |
| `HubTypeCorrect` | `HubSpec => []HubTypeOK` |
| `DeliveredToOne` | `HubSpec => []SingleDelivery` |
| `RunningIsAccounted` | `HubSpec => []RunningAccounted` |
| `AtMostOnce` | `HubSpec => []HandedOutOnce` |
| `CompletionIsFinal` | `HubSpec => CompletedIsFinal` |
| `HubKeepsPromise` | `HubSpec => KeepsPromise` |

`SingleDelivery` is not inductive: it says nothing of reports on their way, and a late
`Checkpoint` or a second `Completed` of a task that is handed out elsewhere would break
it. `HubInv` follows a task from the pass that assigns it to the end. `Unsent(d)`,
`OnPipe(w)`, `AtWork(w)`, `Reported(w)`, `Decided(w)` are the sets of tasks at each place;
`Ledger` says of them

* `Apart`: the places are disjoint, except that a worker may still execute what it has
  reported but not decided;
* `InPlayRuns`: whatever is at a place is Running for the scheduler;
* `AllAccounted`: what is Running is at a place, decided in a report, reported `Failed`
  or lost with a task loop that crashed or panicked;
* `Concluded`: a task whose outcome has been broadcast has that one outcome, is at no
  place and no longer waits for a pass.

`Orderly` adds what sequences are needed for: a pipe holds no task twice, and in a queue
of reports nothing of a task follows its outcome. `NeverRetried` says that nothing the hub
does makes the scheduler retry: it passes on successes and checkpoints only
(`server.rs:501-509`) and handles no node's failure. With `AttemptsPaidFor` of the
scheduler, each task is dispatched at most once.

The proof has three layers. Lemmas on queues (`AppendFacts`, `TailFacts`, `PrefixFacts`,
`EmptyFacts`) turn what happens to a sequence into sets. Lemmas on moves (`MoveOut`,
`MoveToPipe`, `MoveToWork`, `MoveToReport`, `MoveNews`, `MoveOutcome`, `MoveVanish`,
`MoveDiscard`) show that a task that goes from one place to the next keeps the ledger. A
lemma per action (`PushOK`, `PullOK`, `VanishOK`, ...) names its move. `HubStepOK` shows at
the same time that a step of the hub is a step of the scheduler or leaves it alone, so what
`SchedulerProofs` shows of the scheduler's steps, types and `KeepsPromise` among them, is
not proved again.

### The clients

`MediumProofs.tla` and `FeedProofs.tla`, for any number of clients, requests, timeouts, any
menu and any size of the buffer. Assumed:
what is sent for a pick may be submitted, and `NoRequest` is neither that nor a request.

| Theorem | Statement |
| --- | --- |
| `MediumUsesHub` | `MediumSpec => HubSpec` |
| `ClientsAreHarmless` | `MediumSpec =>` the hub's three invariants and `CompletedIsFinal` |
| `MediumTypeCorrect` | `MediumSpec => []MediumTypeOK` |
| `WatchedTaskIsOwn` | `MediumSpec => []WatchesOwnTask` |
| `OutcomeToldIsFinal` | `MediumSpec => []ToldTheOutcome` |
| `ImplementsClientPromise` | `MediumSpec => KeepsClientPromise` |
| `OutcomeIsKept` | `MediumSpec => [](RoomForAll => OutcomeKept)` |

`MediumUsesHub` is the composition: each action of a client or of its connection is an
action of the hub or leaves the hub as it is. It carries the hub's theorems over to the
system with clients.

`WatchesOwnTask` rests on numbers: a request still queued or served with the number a
client waits for asks for what was sent for its user's pick, and the task under way for it was
submitted as such (`AsPicked`). This is kept because no number is given out twice
(`Numbered`), so a client that gives up and asks again never matches the request it
abandoned, and because the type and the requirements of a task do not change
(`TasksStay`).

`ToldTheOutcome` joins both halves: what is in a feed was broadcast (`Truthful`), and what
was broadcast as an outcome is the only one there will be (`Concluded`, `OutcomesStay`).

`ImplementsClientPromise` goes action by action. In the mapping at the end of `Medium.tla`
an offer is a submission being served or an answer on its way. `ServeRequest` is a `Make`:
the request taken from the queue is the oldest (`WishesTail` and its companions show that
leaving out the numbers commutes with `Append` and `Tail`), its identifier is not in use.
`Answer` passes the offer on, which changes nothing, or withdraws it if nobody waits for it
any more; that it is one offer and not two is `OfferedOnce`: what the medium server works
at is nobody's answer yet. `Accepted` is a `Take`, where the kinds agree by `AsPicked`.
`Broadcast` concludes a task at most once (`Concluded`), `Read` tells what it concluded
with. What is left of the hub, workers and their crashes included, is invisible
(`InternalMakesNothing`, `MadeStays`). `ClientPromise` does not say that an offer is kept
until it is taken, nor that anything happens: that is `ClientsAreServed`.

`OutcomeIsKept` says when the buffer of a subscription is large enough. `OutcomeKept` alone
is not a theorem: the outcome of a task may be broadcast while its client still waits for
the answer, and enough other messages would then push it out. `RoomForAll` is the condition
that they cannot: three times the number of the other tasks submitted so far is less than
`FeedCap`. With the 128 messages of the real buffer, this allows 43 tasks in the life of the
hub, whoever submitted them. It is a condition on the state, not an assumption, and it is
tight: with two tasks and room for three messages TLC finds an outcome lost.

The inductive invariant `FeedInv` counts messages. At most three reports are sent of a task
(`MaxReports`), and `Allowance` says where they are: those in a feed, those on their way to
the hub and those the execution is still going to send are never more than three together,
because a task is pulled once (`Pulled`, which builds on `Apart` and `Concluded` of the hub)
and nothing was heard of it before (`Unheard`). `FeedsOrdered` says that nothing of a task
follows its outcome. `Kept` is `OutcomeKept` for whoever will watch a task, which it must be
to be inductive: a client that has the answer, or whose answer is on its way, or whose
request is being served (`Awaits`). When a full buffer drops its oldest message and that is
an awaited outcome, everything after it is about other tasks, and a buffer with at most
three messages of each of them is shorter than `FeedCap` (`Crowd`: the place of a message is
determined by its task and by how many messages of that task came before), a contradiction.

### Election

`ElectionProofs.tla`, for any set of numbered nodes, any of them late, deaf or crowded, any
number of crashes.

| Theorem | Statement |
| --- | --- |
| `TypeCorrect` | `Spec => []TypeOK` |
| `LeadersAreReal` | `Spec => []FollowsRealLeader` |
| `LeadsWhenSmallest` | `Spec => []OnlySmallestLeads` |

`FollowsRealLeader` is inductive with the types. `OnlySmallestLeads` needs to know what the
listening at boot has achieved: a node that has left its boot state and has missed no
announcement so far has in its view each node it was to hear from that still announces
itself (`Heard`), and such a node had started (`Announced`). It then leads only if it finds
itself smallest among those. The property names the nodes that have heard everything, so it
holds of them even in a swarm where others have not.

### Handshake

`HandshakeProofs.tla`, for any number of clients, challenges and crashes. Assumed: `None`
is neither a client nor a message.

| Theorem | Statement |
| --- | --- |
| `TypeCorrect` | `Spec => []TypeOK` |
| `GrantsAreTheirOwn` | `Spec => []GrantsAreOwn` |
| `ServerOutlivesCollisions` | `Spec => []ServerSurvives` |

`Exchange` says that a client has one message under way at most, and which one its place
calls for; `Owned` that a token is carried by, and returned to the server by, the client it
was issued to; `Awaited` that a server that waits for a response is owed one by a client
that has a challenge to read, has a response on its way or crashed. The last is why
collisions alone never run the second `recv` into its timeout.

### Process, scout and probes

`NodeProofs.tla`, for every set of machines, applications and bundles that satisfies the
assumptions of `Scout.tla` (the known tools are applications, the bundle an application is
looked for by is listed under its name, names have their types) and `Node.tla` (sessions
are finitely many and are not the hub's loops):

| Theorem | Statement |
| --- | --- |
| `EverythingRunnableOffered` | `Spec => []OffersWhatItRuns` |
| `OfferedToolsRun` | `Spec => []RunsWhatItOffers` |
| `WorkersAreNeverOverdrawn` | `Spec => []TypeOK` |

The invariant of the first two is `Scouted`: as long as nothing was installed or removed,
the profile is the one the scout computes from the machine. The rest is about the two
searches: a probe succeeds by starting a known tool or by finding a bundle
(`ProbeSucceeds`); the tool is in a directory the scout searches as well (`FoundByScout`),
the bundle is listed under the name it is looked for by (`BundleListed`), so it is offered
(`RunnableIsOffered`). Conversely every directory the scout searches is one the tool is
started from. The third counts: the loops that hold a worker thread stay within the
machine's cores, since only a poll takes a worker and it finds one free (`OneTaken`).

### What stays with TLC

Liveness: all of `hub_live`, `SwarmForms`, `SplitBrainHeals`, `GrantReachesClient`,
`AnnouncesWhileRoom`, `LeaderWorks`. It is out of the prover's reach. So are the six
violations, which are counterexamples.

## 5. Plan

Done: `Scheduler` with its promise, the `Hub` that composes it, `Election` and `Handshake`;
the clients (`Medium`) with theirs (`ClientPromise`), the scout with the probes (`Scout`),
the process on its runtime (`Node`); proofs of every invariant and action property the
passing runs check, and of both refinements. What may still be added:

1. Action properties of parts whose runs check invariants only: a hub is given up by
   crashes alone, a token is never granted twice.
2. An abstract specification of the election (one hub at a time for those that hear each
   other), implemented by `Election` once listening at boot is over.

## 6. Not modelled

* Malformed frames. Nobody in the repository sends one. Too short or not decodable, they are
  skipped or answered with five zero bytes; a frame whose length prefix exceeds what follows
  panics the loop that reads it (`server.rs:210`, `289`, `368`, `401`, `484`).
* Socket set-up errors, other than the occupied port of a second hub and the dial of the
  leader's own session.
* Status requests of the medium server, which change nothing.
* Cryptography, beyond what a signature establishes: no property of this system depends on
  more of it.
* Of the scout, the benchmarks, tiers, memory and other figures no behaviour depends on, and
  the synchronous `discover_capabilities`, which only its tests call.
* The framing helper `NngServer` (`core/transport`): the hub has its own loops and does not
  use it. The key tool and the firmware: one-shot, straight-line, no state.
* The message layouts of `proto/topology.proto`; messages are records here.
* Where a retry for lag goes (`scheduler/mod.rs:209`): the verdict is returned and stored
  nowhere, and no caller of the repository acts on it.
* Restart of a crashed process: it draws a new identifier and is a new node.
