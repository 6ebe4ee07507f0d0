--------------------------------- MODULE Medium ---------------------------------
(***************************************************************************)
(* The medium clients (tools/swarm-medium/src/main.rs) of a hub.  A client *)
(* subscribes to the progress broadcast, submits what its user picks, and  *)
(* once the hub has answered, reads the broadcast until it meets the       *)
(* outcome of its task or its deadline passes.                             *)
(*                                                                         *)
(* The hub is that of Hub.tla: ServeRequest, Answer and Broadcast are its  *)
(* steps ServeSubmit, EndPass and ReceiveProgress with what they mean to   *)
(* the clients.  External, as the code uses them: the Req0 socket of a     *)
(* client gives it only the answer to its last request, and its Sub0       *)
(* socket keeps the newest FeedCap messages while nobody reads.            *)
(*                                                                         *)
(* Abstracted: an answer wait or a watch may run into its deadline at any  *)
(* time, MaxTimeouts times in all; percentages and result texts.           *)
(***************************************************************************)
EXTENDS Hub

CONSTANTS
  Client,       \* medium clients
  Menu,         \* what a user can pick, with the type the menu shows
  NoRequest,    \* nothing asked for
  FeedCap,      \* messages the subscription buffers (128 unless set)
  MaxRequests,  \* bound: requests sent by all clients
  MaxTimeouts   \* bound: deadlines that pass

(* What is sent for a pick: "Interactive" goes out as category 0, which is *)
(* the stateless one.                                                      *)
Sent(p) ==
  IF p.type = "InteractiveLowLatency" THEN [p EXCEPT !.type = "StatelessIdempotent"] ELSE p

Sendable == {Sent(p) : p \in Menu}

ASSUME MediumAssumption ==
  /\ Sendable \subseteq Submissions
  /\ NoRequest \notin Sendable \cup [from : Client, number : Nat, ask : Sendable]
  /\ FeedCap \in Nat \ {0} /\ MaxRequests \in Nat /\ MaxTimeouts \in Nat

VARIABLES
  at,        \* at[c]: where client c is
  asked,     \* asked[c]: what c submits or watches, NoRequest in the menu
  ticket,    \* ticket[c]: the number of the request c waits for, 0 if none
  answer,    \* answer[c]: the identifier on its way to c
  watched,   \* watched[c]: the task c watches, or watched before it asks again
  told,      \* told[c]: how that watch ended
  feed,      \* feed[c]: messages buffered by the subscription of c
  requests,  \* requests waiting for the medium server
  served,    \* the request the medium server is serving, or NoRequest
  sent,      \* requests sent so far
  timeouts   \* deadlines passed so far

clientVars == <<at, asked, ticket, answer, watched, told, feed, requests, served, sent,
                timeouts>>
mediumVars == <<allVars, clientVars>>

Ended == {"Completed", "Failed"}
Message == [task : TaskId, status : Status]
Request == [from : Client, number : Nat, ask : Sendable]

MediumInit ==
  /\ HubInit
  /\ at = [c \in Client |-> "away"]
  /\ asked = [c \in Client |-> NoRequest]
  /\ ticket = [c \in Client |-> 0]
  /\ answer = [c \in Client |-> NoTask]
  /\ watched = [c \in Client |-> NoTask]
  /\ told = [c \in Client |-> "nothing"]
  /\ feed = [c \in Client |-> <<>>]
  /\ requests = <<>>
  /\ served = NoRequest
  /\ sent = 0 /\ timeouts = 0
------------------------------------------------------------------------------
(* Clients *)

(* The status request is answered, then the subscription is set up. *)
Connect(c) ==
  /\ at[c] = "away" /\ thread[Medium] = "idle"
  /\ at' = [at EXCEPT ![c] = "menu"]
  /\ UNCHANGED <<allVars, asked, ticket, answer, watched, told, feed, requests, served,
                 sent, timeouts>>

Ask(c, p) ==
  /\ at[c] = "menu" /\ sent < MaxRequests
  /\ sent' = sent + 1
  /\ requests' = Append(requests, [from |-> c, number |-> sent', ask |-> Sent(p)])
  /\ asked' = [asked EXCEPT ![c] = Sent(p)]
  /\ ticket' = [ticket EXCEPT ![c] = sent']
  /\ watched' = [watched EXCEPT ![c] = NoTask]
  /\ told' = [told EXCEPT ![c] = "nothing"]
  /\ at' = [at EXCEPT ![c] = "waiting"]
  /\ UNCHANGED <<allVars, answer, feed, served, timeouts>>

(* Fault: the subscription is set up when the task is accepted. *)
AcceptedSubscribes(c) ==
  /\ at[c] = "waiting" /\ answer[c] # NoTask
  /\ at' = [at EXCEPT ![c] = "watching"]
  /\ watched' = [watched EXCEPT ![c] = answer[c]]
  /\ answer' = [answer EXCEPT ![c] = NoTask]
  /\ ticket' = [ticket EXCEPT ![c] = 0]
  /\ feed' = [feed EXCEPT ![c] = <<>>]
  /\ UNCHANGED <<allVars, asked, told, requests, served, sent, timeouts>>

(* Fault: the answer is still there when the client asks again. *)
AcceptedKeepsAnswer(c) ==
  /\ at[c] = "waiting" /\ answer[c] # NoTask
  /\ at' = [at EXCEPT ![c] = "watching"]
  /\ watched' = [watched EXCEPT ![c] = answer[c]]
  /\ ticket' = [ticket EXCEPT ![c] = 0]
  /\ UNCHANGED <<allVars, asked, answer, told, feed, requests, served, sent, timeouts>>

Accepted(c) ==
  /\ at[c] = "waiting" /\ answer[c] # NoTask
  /\ at' = [at EXCEPT ![c] = "watching"]
  /\ watched' = [watched EXCEPT ![c] = answer[c]]
  /\ answer' = [answer EXCEPT ![c] = NoTask]
  /\ ticket' = [ticket EXCEPT ![c] = 0]
  /\ UNCHANGED <<allVars, asked, told, feed, requests, served, sent, timeouts>>

(* No answer in 5 s: back to the menu.  The request stays with the hub. *)
GiveUp(c) ==
  /\ at[c] = "waiting" /\ answer[c] = NoTask /\ timeouts < MaxTimeouts
  /\ at' = [at EXCEPT ![c] = "menu"]
  /\ ticket' = [ticket EXCEPT ![c] = 0]
  /\ asked' = [asked EXCEPT ![c] = NoRequest]
  /\ timeouts' = timeouts + 1
  /\ UNCHANGED <<allVars, answer, watched, told, feed, requests, served, sent>>

(* Fault: the messages of other tasks are not skipped. *)
ReadAny(c) ==
  /\ at[c] = "watching" /\ feed[c] # <<>>
  /\ feed' = [feed EXCEPT ![c] = Tail(@)]
  /\ LET m == Head(feed[c])
     IN  IF m.status \in Ended
         THEN /\ told' = [told EXCEPT ![c] = m.status]
              /\ at' = [at EXCEPT ![c] = "menu"]
              /\ asked' = [asked EXCEPT ![c] = NoRequest]
         ELSE UNCHANGED <<told, at, asked>>
  /\ UNCHANGED <<allVars, ticket, answer, watched, requests, served, sent, timeouts>>

(* One turn of watch_progress *)
Read(c) ==
  /\ at[c] = "watching" /\ feed[c] # <<>>
  /\ feed' = [feed EXCEPT ![c] = Tail(@)]
  /\ LET m == Head(feed[c])
     IN  IF m.task = watched[c] /\ m.status \in Ended
         THEN /\ told' = [told EXCEPT ![c] = m.status]
              /\ at' = [at EXCEPT ![c] = "menu"]
              /\ asked' = [asked EXCEPT ![c] = NoRequest]
         ELSE UNCHANGED <<told, at, asked>>
  /\ UNCHANGED <<allVars, ticket, answer, watched, requests, served, sent, timeouts>>

WatchTimesOut(c) ==
  /\ at[c] = "watching" /\ timeouts < MaxTimeouts
  /\ at' = [at EXCEPT ![c] = "menu"]
  /\ told' = [told EXCEPT ![c] = "timeout"]
  /\ asked' = [asked EXCEPT ![c] = NoRequest]
  /\ timeouts' = timeouts + 1
  /\ UNCHANGED <<allVars, ticket, answer, watched, feed, requests, served, sent>>
------------------------------------------------------------------------------
(* The hub's side *)

(* Fault: the identifier drawn may be that of a live task. *)
ServeColliding ==
  /\ requests # <<>> /\ thread[Medium] = "idle" /\ serving = NoTask
  /\ \E t \in TaskId : Submit(t, Head(requests).ask) /\ serving' = t
  /\ thread' = [thread EXCEPT ![Medium] = "list"]
  /\ requests' = Tail(requests) /\ served' = Head(requests)
  /\ UNCHANGED <<worker, profiles, linked, pipe, run, progress, outbox, published, lost>>
  /\ UNCHANGED <<at, asked, ticket, answer, watched, told, feed, sent, timeouts>>

ServeRequest ==
  /\ requests # <<>>
  /\ \E t \in TaskId : ServeSubmit(t, Head(requests).ask)
  /\ requests' = Tail(requests) /\ served' = Head(requests)
  /\ UNCHANGED <<at, asked, ticket, answer, watched, told, feed, sent, timeouts>>

(* Fault: an answer goes to whoever waits, whatever request it is for. *)
AnswerAnyone ==
  /\ EndPass(Medium)
  /\ answer' = IF ticket[served.from] # 0
               THEN [answer EXCEPT ![served.from] = serving] ELSE answer
  /\ served' = NoRequest
  /\ UNCHANGED <<at, asked, ticket, watched, told, feed, requests, sent, timeouts>>

(* An answer nobody waits for any more is dropped. *)
Answer ==
  /\ EndPass(Medium)
  /\ answer' = IF ticket[served.from] = served.number
               THEN [answer EXCEPT ![served.from] = serving] ELSE answer
  /\ served' = NoRequest
  /\ UNCHANGED <<at, asked, ticket, watched, told, feed, requests, sent, timeouts>>

(* A full buffer loses its oldest message. *)
Buffer(buffered, m) ==
  IF Len(buffered) < FeedCap THEN Append(buffered, m) ELSE Append(Tail(buffered), m)

(* Every report goes to every subscriber. *)
Broadcast(w) ==
  /\ ReceiveProgress(w)
  /\ LET r == Head(progress[w])
         m == [task |-> r.task, status |-> r.status]
     IN  feed' = [c \in Client |-> IF at[c] = "away" THEN <<>> ELSE Buffer(feed[c], m)]
  /\ UNCHANGED <<at, asked, ticket, answer, watched, told, requests, served, sent, timeouts>>

Others(A) == A /\ UNCHANGED clientVars
------------------------------------------------------------------------------
ClientStep(c) == Accepted(c) \/ Read(c)

MediumNext ==
  \/ Others(Internal)
  \/ ServeRequest
  \/ Answer
  \/ \E w \in NodeId : Broadcast(w)
  \/ \E c \in Client : ClientStep(c)
  \/ \E c \in Client : Connect(c)
  \/ \E c \in Client, p \in Menu : Ask(c, p)
  \/ \E c \in Client : GiveUp(c)
  \/ \E c \in Client : WatchTimesOut(c)

MediumSpec == MediumInit /\ [][MediumNext]_mediumVars

(* What the two dispatching threads do next *)
SenderThread == Others(WakeSender \/ HubStep(Sender) \/ EndPass(Sender))
MediumThread == ServeRequest \/ Others(HubStep(Medium)) \/ Answer

(* As in the hub, and a client reads what there is for it.  Nobody has to  *)
(* ask for anything and no deadline has to pass.                           *)
MediumFairness ==
  /\ WF_mediumVars(SenderThread) /\ WF_mediumVars(MediumThread)
  /\ \A w \in NodeId : /\ WF_mediumVars(Others(ReceiveProfile(w)))
                       /\ WF_mediumVars(Others(WorkerStep(w)))
                       /\ WF_mediumVars(Others(ClosePipe(w)))
                       /\ WF_mediumVars(Broadcast(w))
  /\ \A c \in Client : WF_mediumVars(ClientStep(c))

FairMediumSpec == MediumSpec /\ MediumFairness
------------------------------------------------------------------------------
(* Properties *)

(* Types, what a client's place implies, and requests that are numbered. *)
MediumTypeOK ==
  /\ HubTypeOK
  /\ at \in [Client -> {"away", "menu", "waiting", "watching"}]
  /\ asked \in [Client -> Sendable \cup {NoRequest}]
  /\ \A c \in Client : /\ at[c] \in {"away", "menu"} <=> asked[c] = NoRequest
                       /\ at[c] = "waiting" <=> ticket[c] # 0
                       /\ answer[c] # NoTask => at[c] = "waiting"
                       /\ at[c] = "watching" => watched[c] # NoTask
                       /\ feed[c] \in Seq(Message) /\ Len(feed[c]) <= FeedCap
  /\ answer \in [Client -> TaskId \cup {NoTask}]
  /\ watched \in [Client -> TaskId \cup {NoTask}]
  /\ told \in [Client -> Ended \cup {"nothing", "timeout"}]
  /\ requests \in Seq(Request) /\ Len(requests) <= sent
  /\ served \in Request \cup {NoRequest}
  /\ served # NoRequest <=> serving # NoTask
  /\ sent \in 0..MaxRequests /\ timeouts \in 0..MaxTimeouts

(* A client that watches a task watches what it sent for its user, whatever *)
(* requests were given up, answered late or came from other clients.       *)
WatchesOwnTask ==
  \A c \in Client : at[c] = "watching" =>
    /\ tasks[watched[c]].type = asked[c].type
    /\ tasks[watched[c]].required = asked[c].required

Outcomes(t) == published[t] \cap Ended

(* The outcome of a watched task may be broadcast before the client knows  *)
(* its identifier: until the client has read it, it is in the feed.        *)
OutcomeKept ==
  \A c \in Client : at[c] = "watching" /\ Outcomes(watched[c]) # {} =>
    \E i \in DOMAIN feed[c] : feed[c][i].task = watched[c] /\ feed[c][i].status \in Ended

(* watch_progress stops at the first outcome: what the user was told is    *)
(* the one outcome the task ever has.                                      *)
ToldTheOutcome ==
  \A c \in Client : told[c] \in Ended => Outcomes(watched[c]) = {told[c]}

(* What the clients are promised, see ClientPromise.tla: an offer is the   *)
(* submission being served or an answer on its way.                        *)
AbsQueue == [i \in DOMAIN requests |-> [from |-> requests[i].from, ask |-> requests[i].ask]]
AbsMade == [t \in DOMAIN tasks |-> [type |-> tasks[t].type, required |-> tasks[t].required]]
AbsOffers == {<<c, answer[c]>> : c \in {c \in Client : answer[c] # NoTask}}
               \cup (IF served = NoRequest THEN {} ELSE {<<served.from, serving>>})

Service == INSTANCE ClientPromise
             WITH Menu <- Sendable, Ending <- Ended, NoPick <- NoRequest, place <- at, pick <- asked,
                  has <- watched, queue <- AbsQueue, made <- AbsMade, offers <- AbsOffers,
                  outcome <- [t \in TaskId |-> Outcomes(t)]

(* Every behaviour of hub and clients is one of ClientPromise: one task of *)
(* the kind picked for each request, offered to the client it is for and   *)
(* taken once, and one outcome that is the one the client is told, with    *)
(* requests given up, answers late, workers crashing.                      *)
KeepsClientPromise == Service!Spec

(* Whoever waits for an answer or an outcome gets it, even after an        *)
(* earlier wait or watch ran into its deadline.                            *)
ClientsAreServed == \A c \in Client : at[c] \in {"waiting", "watching"} ~> at[c] = "menu"
==============================================================================
