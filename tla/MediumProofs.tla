----------------------------- MODULE MediumProofs -----------------------------
(***************************************************************************)
(* Theorems about Medium, for any clients, menu and sizes of the feed.     *)
(* Whatever the clients do, the hub they talk to is that of Hub.tla, so    *)
(* the theorems of HubProofs hold for it.  The inductive invariant adds    *)
(* what a request, an answer and a message carry from the client to the    *)
(* hub and back: the number of the request ties an answer to what was      *)
(* asked for, and every buffered message was published.                    *)
(***************************************************************************)
EXTENDS Medium, HubProofs

(* What a queue holds *)
In(q) == {q[i] : i \in DOMAIN q}

Typed ==
  /\ at \in [Client -> {"away", "menu", "waiting", "watching"}]
  /\ asked \in [Client -> Sendable \cup {NoRequest}]
  /\ ticket \in [Client -> Nat]
  /\ answer \in [Client -> TaskId \cup {NoTask}]
  /\ watched \in [Client -> TaskId \cup {NoTask}]
  /\ told \in [Client -> Ended \cup {"nothing", "timeout"}]
  /\ feed \in [Client -> Seq(Message)] /\ \A c \in Client : Len(feed[c]) <= FeedCap
  /\ requests \in Seq(Request) /\ Len(requests) <= sent
  /\ served \in Request \cup {NoRequest}
  /\ served # NoRequest <=> serving # NoTask
  /\ sent \in 0..MaxRequests /\ timeouts \in 0..MaxTimeouts

(* What the place of a client says about what it waits for and knows *)
Session(c) ==
  /\ at[c] \in {"away", "menu"} <=> asked[c] = NoRequest
  /\ at[c] = "waiting" <=> ticket[c] # 0
  /\ answer[c] # NoTask => at[c] = "waiting"
  /\ at[c] = "watching" => watched[c] # NoTask
  /\ at[c] \in {"waiting", "watching"} => told[c] = "nothing"

Sessions == \A c \in Client : Session(c)

(* No request or ticket has a number that is still to be given out. *)
Numbered ==
  /\ \A q \in In(requests) : q.number \in 1..sent
  /\ served # NoRequest => served.number \in 1..sent
  /\ \A c \in Client : ticket[c] <= sent

(* The request a client still waits for asks for what its user picked, and *)
(* so does the task it is answered with and then watches.                  *)
IsFor(t, s) ==
  t \in DOMAIN tasks /\ tasks[t].type = s.type /\ tasks[t].required = s.required
Current(q) == ticket[q.from] = q.number

AsPicked ==
  /\ \A q \in In(requests) : Current(q) => asked[q.from] = q.ask
  /\ served # NoRequest => /\ IsFor(serving, served.ask)
                           /\ Current(served) => asked[served.from] = served.ask
  /\ \A c \in Client : /\ answer[c] # NoTask => IsFor(answer[c], asked[c])
                       /\ at[c] = "watching" => IsFor(watched[c], asked[c])

(* Messages in a feed were published, and so was what a user was told. *)
Truthful ==
  /\ \A c \in Client : \A m \in In(feed[c]) : m.status \in published[m.task]
  /\ \A c \in Client : told[c] \in Ended => /\ watched[c] # NoTask
                                            /\ told[c] \in published[watched[c]]

ClientSide == Typed /\ Sessions /\ Numbered /\ AsPicked /\ Truthful

MediumInv == HubInv /\ ClientSide
------------------------------------------------------------------------------
(* Queues of requests and feeds *)

LEMMA InAppend ==
  ASSUME NEW S, NEW q \in Seq(S), NEW e \in S
  PROVE  /\ In(Append(q, e)) = In(q) \cup {e}
         /\ Append(q, e) \in Seq(S) /\ Len(Append(q, e)) = Len(q) + 1
<1> DEFINE r == Append(q, e)
           n == Len(q)
<1>1. /\ n \in Nat /\ DOMAIN q = 1..n /\ r \in Seq(S) /\ Len(r) = n + 1 /\ DOMAIN r = 1..(n + 1)
      /\ \A i \in 1..n : r[i] = q[i]
      /\ r[n + 1] = e
  BY AppendProperties, LenProperties
<1> HIDE DEF r, n
<1>2. In(r) = In(q) \cup {e}
  BY <1>1 DEF In
<1> QED
  BY <1>1, <1>2 DEF r, n

LEMMA InTail ==
  ASSUME NEW S, NEW q \in Seq(S), q # <<>>
  PROVE  /\ Head(q) \in In(q) /\ Head(q) \in S /\ In(Tail(q)) \subseteq In(q)
         /\ Tail(q) \in Seq(S) /\ Len(q) \in Nat \ {0} /\ Len(Tail(q)) = Len(q) - 1
<1> DEFINE r == Tail(q)
           n == Len(q)
<1>1. n \in Nat \ {0} /\ DOMAIN q = 1..n
  BY EmptySeq, LenProperties
<1>2. r \in Seq(S) /\ Len(r) = n - 1 /\ Head(q) \in S /\ \A i \in 1..(n - 1) : r[i] = q[i + 1]
  BY HeadTailProperties
<1>3. DOMAIN r = 1..(n - 1) /\ Head(q) = q[1]
  BY <1>2, LenProperties
<1> HIDE DEF r, n
<1>4. ASSUME NEW i \in DOMAIN r PROVE r[i] \in In(q)
  <2>1. i + 1 \in DOMAIN q /\ r[i] = q[i + 1]
    BY <1>1, <1>2, <1>3
  <2> QED
    BY <2>1 DEF In
<1>5. In(r) \subseteq In(q)
  BY <1>4 DEF In
<1>6. Head(q) \in In(q)
  BY <1>1, <1>3 DEF In
<1> QED
  BY <1>1, <1>2, <1>5, <1>6 DEF r, n

LEMMA InEmpty == ASSUME NEW S PROVE In(<<>>) = {} /\ <<>> \in Seq(S) /\ Len(<<>>) = 0
BY EmptySeq DEF In

(* A queue holds values of its type. *)
LEMMA InSeq == ASSUME NEW S, NEW q \in Seq(S) PROVE In(q) \subseteq S
BY ElementOfSeq, LenProperties DEF In

(* Messages are about tasks. *)
LEMMA FeedTasks ==
  ASSUME Typed, NEW c \in Client, NEW m \in In(feed[c])
  PROVE  m.task \in TaskId /\ m.status \in Status
<1>1. feed[c] \in Seq(Message)
  BY DEF Typed
<1>2. m \in Message
  BY <1>1, InSeq
<1> QED
  BY <1>2 DEF Message

(* Requests come from clients and are numbered. *)
LEMMA RequestFacts ==
  ASSUME Typed, Numbered, NEW r \in In(requests)
  PROVE  r.from \in Client /\ r.number \in 1..sent
<1>1. requests \in Seq(Request) /\ r.number \in 1..sent
  BY DEF Typed, Numbered
<1>2. r \in Request
  BY <1>1, InSeq
<1> QED
  BY <1>1, <1>2 DEF Request

(* The subscription keeps at most FeedCap messages, the new one among them. *)
LEMMA InBuffer ==
  ASSUME NEW q \in Seq(Message), Len(q) <= FeedCap, NEW m \in Message
  PROVE  /\ Buffer(q, m) \in Seq(Message) /\ Len(Buffer(q, m)) <= FeedCap
         /\ In(Buffer(q, m)) \subseteq In(q) \cup {m}
<1>1. FeedCap \in Nat \ {0} /\ Len(q) \in Nat
  BY MediumAssumption, LenProperties
<1>2. CASE Len(q) < FeedCap
  <2>1. Buffer(q, m) = Append(q, m)
    BY <1>2 DEF Buffer
  <2> QED
    BY <1>1, <1>2, <2>1, InAppend
<1>3. CASE ~ (Len(q) < FeedCap)
  <2> DEFINE r == Tail(q)
  <2>1. Buffer(q, m) = Append(r, m)
    BY <1>3 DEF Buffer
  <2>2. q # <<>>
    BY <1>1, <1>3, EmptySeq
  <2>3. r \in Seq(Message) /\ In(r) \subseteq In(q) /\ Len(r) = Len(q) - 1
    BY <2>2, InTail
  <2> HIDE DEF r
  <2>4. /\ Append(r, m) \in Seq(Message) /\ Len(Append(r, m)) = Len(r) + 1
        /\ In(Append(r, m)) = In(r) \cup {m}
    BY <2>3, InAppend
  <2> QED
    BY <1>1, <2>1, <2>3, <2>4
<1> QED
  BY <1>2, <1>3
------------------------------------------------------------------------------
(* The steps of Medium are steps of Hub. *)

LEMMA MediumIsHubStep == Typed /\ [MediumNext]_mediumVars => [HubNext]_allVars
<1> SUFFICES ASSUME Typed, [MediumNext]_mediumVars PROVE [HubNext]_allVars
  OBVIOUS
<1>1. ASSUME Others(Internal) PROVE HubNext
  BY <1>1 DEF Others, HubNext
<1>2. ASSUME ServeRequest PROVE HubNext
  <2>1. requests # <<>> /\ \E t \in TaskId : ServeSubmit(t, Head(requests).ask)
    BY <1>2 DEF ServeRequest
  <2>2. Head(requests) \in Request
    BY <2>1, InTail DEF Typed
  <2>3. Head(requests).ask \in Submissions
    BY <2>2, MediumAssumption DEF Request
  <2> QED
    BY <2>1, <2>3 DEF HubNext
<1>3. ASSUME Answer PROVE HubNext
  BY <1>3 DEF Answer, HubNext
<1>4. ASSUME NEW w \in NodeId, Broadcast(w) PROVE HubNext
  BY <1>4 DEF Broadcast, HubNext
<1>5. ASSUME NEW c \in Client, ClientStep(c) \/ Connect(c) \/ GiveUp(c) \/ WatchTimesOut(c)
      PROVE  UNCHANGED allVars
  BY <1>5 DEF ClientStep, Accepted, Read, Connect, GiveUp, WatchTimesOut
<1>6. ASSUME NEW c \in Client, NEW p \in Menu, Ask(c, p) PROVE UNCHANGED allVars
  BY <1>6 DEF Ask
<1>7. UNCHANGED mediumVars => UNCHANGED allVars
  BY DEF mediumVars
<1> QED
  BY <1>1, <1>2, <1>3, <1>4, <1>5, <1>6, <1>7 DEF MediumNext

(* What a step of the hub leaves as the clients know it *)
LEMMA HubLeaves ==
  ASSUME HubInv, [HubNext]_allVars
  PROVE  /\ \A t, s : IsFor(t, s)
                        => /\ t \in DOMAIN tasks'
                           /\ tasks'[t].type = s.type /\ tasks'[t].required = s.required
         /\ \A t \in TaskId : published[t] \subseteq published'[t]
BY TasksStay, PublishedStays DEF IsFor
------------------------------------------------------------------------------
(* Steps of the hub *)

(* What the hub does on its own: the clients only see that nothing they    *)
(* were promised is taken back.                                            *)
LEMMA OthersOK ==
  ASSUME MediumInv, [HubNext]_allVars, UNCHANGED <<clientVars, serving>>
  PROVE  ClientSide'
<1>1. UNCHANGED <<at, asked, ticket, answer, watched, told, feed, requests, served, sent,
                  timeouts, serving>>
  BY DEF clientVars
<1>2. HubInv /\ Typed /\ Sessions /\ Numbered /\ AsPicked /\ Truthful
  BY DEF MediumInv, ClientSide
<1>3. Typed' /\ Sessions' /\ Numbered'
  BY <1>1, <1>2 DEF Typed, Sessions, Session, Numbered
<1>4. AsPicked'
  BY <1>1, <1>2, HubLeaves DEF AsPicked, Current, IsFor
<1>5. Truthful'
  <2>1. \A c \in Client : \A m \in In(feed[c]) : m.task \in TaskId
    BY <1>2, FeedTasks
  <2>2. \A c \in Client : watched[c] # NoTask => watched[c] \in TaskId
    BY <1>2 DEF Typed
  <2> QED
    BY <1>1, <1>2, <2>1, <2>2, HubLeaves DEF Truthful
<1> QED
  BY <1>3, <1>4, <1>5 DEF ClientSide

(* Only the medium server touches the submission it serves. *)
LEMMA InternalKeepsServing == Internal => UNCHANGED serving
<1>1. ASSUME NEW w \in NodeId, WorkerStep(w) PROVE UNCHANGED serving
  BY <1>1 DEF WorkerStep, Join, Dial, Pull, Reject, BeginGeneric, ContinueGeneric, BeginOllama,
              Finish, OllamaFails, SendProgress
<1>2. ASSUME NEW d \in Dispatcher, HubStep(d) PROVE UNCHANGED serving
  BY <1>2 DEF HubStep, List, AssignFrames, Push
<1>3. EndPass(Sender) => UNCHANGED serving
  BY HubAssumption DEF EndPass
<1>4. ASSUME NEW w \in NodeId, ReceiveProfile(w) \/ Crash(w) \/ CutPrompt(w) \/ ClosePipe(w)
      PROVE  UNCHANGED serving
  BY <1>4 DEF ReceiveProfile, Crash, CutPrompt, Vanish, ClosePipe
<1> QED
  BY <1>1, <1>2, <1>3, <1>4 DEF Internal, WakeSender

(* The oldest request becomes the submission being served. *)
LEMMA ServeRequestOK ==
  ASSUME MediumInv, [HubNext]_allVars, ServeRequest
  PROVE  ClientSide'
<1> DEFINE q == Head(requests)
<1>1. HubInv /\ Typed /\ Sessions /\ Numbered /\ AsPicked /\ Truthful
  BY DEF MediumInv, ClientSide
<1>2. PICK t \in TaskId : ServeSubmit(t, q.ask)
  BY DEF ServeRequest
<1>3. /\ requests # <<>> /\ requests' = Tail(requests) /\ served' = q
      /\ UNCHANGED <<at, asked, ticket, answer, watched, told, feed, sent, timeouts>>
  BY DEF ServeRequest
<1>4. /\ serving' = t /\ t \in DOMAIN tasks' /\ tasks'[t] = NewTask(q.ask)
  BY <1>2 DEF ServeSubmit, Submit, Put
<1>5. /\ q \in In(requests) /\ q \in Request /\ In(requests') \subseteq In(requests)
      /\ requests' \in Seq(Request) /\ Len(requests) \in Nat \ {0} /\ Len(requests') = Len(requests) - 1
  BY <1>1, <1>3, InTail DEF Typed
<1>6. q # NoRequest /\ t # NoTask
  BY <1>5, HubAssumption, MediumAssumption DEF Request
<1>7. Typed'
  <2>1. Len(requests') <= sent'
    <3>1. Len(requests) <= sent /\ sent \in Nat
      BY <1>1, MediumAssumption DEF Typed
    <3> QED
      BY <1>3, <1>5, <3>1
  <2>2. served' \in Request \cup {NoRequest} /\ (served' # NoRequest <=> serving' # NoTask)
    BY <1>3, <1>4, <1>5, <1>6
  <2> QED
    BY <1>1, <1>3, <1>5, <2>1, <2>2 DEF Typed
<1>8. Sessions'
  BY <1>1, <1>3 DEF Sessions, Session
<1>9. Numbered'
  BY <1>1, <1>3, <1>5 DEF Numbered
<1>10. AsPicked'
  <2>1. IsFor(serving, served.ask)'
    BY <1>3, <1>4 DEF IsFor, NewTask
  <2>2. Current(served)' => asked'[served'.from] = served'.ask
    BY <1>1, <1>3, <1>5 DEF AsPicked, Current
  <2>3. \A r \in In(requests') : ticket'[r.from] = r.number => asked'[r.from] = r.ask
    BY <1>1, <1>3, <1>5 DEF AsPicked, Current
  <2>4. \A c \in Client : /\ answer'[c] # NoTask => IsFor(answer[c], asked[c])'
                          /\ at'[c] = "watching" => IsFor(watched[c], asked[c])'
    BY <1>1, <1>3, HubLeaves DEF AsPicked, IsFor
  <2> QED
    BY <2>1, <2>2, <2>3, <2>4 DEF AsPicked, Current
<1>11. Truthful'
  <2>1. UNCHANGED published
    BY <1>2 DEF ServeSubmit
  <2> QED
    BY <1>1, <1>3, <2>1 DEF Truthful
<1> QED
  BY <1>7, <1>8, <1>9, <1>10, <1>11 DEF ClientSide

(* The answer reaches the client that still waits for this request. *)
LEMMA AnswerOK ==
  ASSUME MediumInv, [HubNext]_allVars, Answer
  PROVE  ClientSide'
<1> DEFINE b == served.from
<1>1. HubInv /\ Typed /\ Sessions /\ Numbered /\ AsPicked /\ Truthful
  BY DEF MediumInv, ClientSide
<1>2. /\ served' = NoRequest /\ serving' = NoTask
      /\ UNCHANGED <<at, asked, ticket, watched, told, feed, requests, sent, timeouts>>
      /\ UNCHANGED <<tasks, published>>
  BY DEF Answer, EndPass, vars
<1>3. answer' = IF ticket[b] = served.number THEN [answer EXCEPT ![b] = serving] ELSE answer
  BY DEF Answer
<1>4. serving \in TaskId \cup {NoTask}
  BY <1>1 DEF HubInv, Delivery, ThreadsOK
<1>5. \A c \in Client : answer'[c] = answer[c] \/ (c = b /\ ticket[b] = served.number /\ answer'[c] = serving)
  BY <1>1, <1>3 DEF Typed
<1>6. Typed'
  <2>1. answer' \in [Client -> TaskId \cup {NoTask}]
    BY <1>1, <1>3, <1>4 DEF Typed
  <2> QED
    BY <1>1, <1>2, <2>1 DEF Typed
<1>7. ASSUME NEW c \in Client, answer'[c] # NoTask
      PROVE  answer'[c] = answer[c] \/ (served # NoRequest /\ Current(served) /\ c = b /\ answer'[c] = serving)
  BY <1>1, <1>5, <1>7 DEF Typed, Current
<1>8. Sessions'
  <2>1. ASSUME NEW c \in Client, answer'[c] # NoTask PROVE at[c] = "waiting"
    <3>1. CASE answer'[c] = answer[c]
      BY <1>1, <2>1, <3>1 DEF Sessions, Session
    <3>2. CASE served # NoRequest /\ Current(served) /\ c = b
      <4>1. served.number \in 1..sent
        BY <1>1, <3>2 DEF Numbered
      <4>2. ticket[c] # 0
        BY <3>2, <4>1 DEF Current
      <4> QED
        BY <1>1, <4>2 DEF Sessions, Session
    <3> QED
      BY <1>7, <2>1, <3>1, <3>2
  <2> QED
    BY <1>1, <1>2, <2>1 DEF Sessions, Session
<1>9. Numbered'
  BY <1>1, <1>2 DEF Numbered
<1>10. AsPicked'
  <2>1. ASSUME NEW c \in Client, answer'[c] # NoTask PROVE IsFor(answer'[c], asked[c])
    BY <1>1, <1>7, <2>1 DEF AsPicked
  <2>2. \A c \in Client : answer'[c] # NoTask => IsFor(answer[c], asked[c])'
    BY <1>2, <2>1 DEF IsFor
  <2>3. \A c \in Client : at'[c] = "watching" => IsFor(watched[c], asked[c])'
    BY <1>1, <1>2 DEF AsPicked, IsFor
  <2>4. \A r \in In(requests') : Current(r)' => asked'[r.from] = r.ask
    BY <1>1, <1>2 DEF AsPicked, Current
  <2> QED
    BY <1>2, <2>2, <2>3, <2>4 DEF AsPicked
<1>11. Truthful'
  BY <1>1, <1>2 DEF Truthful
<1> QED
  BY <1>6, <1>8, <1>9, <1>10, <1>11 DEF ClientSide

(* A report is published and buffered by every subscriber. *)
LEMMA BroadcastOK ==
  ASSUME MediumInv, [HubNext]_allVars, NEW w \in NodeId, Broadcast(w)
  PROVE  ClientSide'
<1> DEFINE r == Head(progress[w])
           m == [task |-> r.task, status |-> r.status]
<1>1. HubInv /\ Typed /\ Sessions /\ Numbered /\ AsPicked /\ Truthful
  BY DEF MediumInv, ClientSide
<1>2. /\ progress[w] # <<>>
      /\ published' = [published EXCEPT ![r.task] = @ \cup {r.status}]
      /\ feed' = [c \in Client |-> IF at[c] = "away" THEN <<>> ELSE Buffer(feed[c], m)]
      /\ UNCHANGED <<at, asked, ticket, answer, watched, told, requests, served, sent,
                     timeouts, serving>>
  BY DEF Broadcast, ReceiveProgress
<1>3. published \in [TaskId -> SUBSET Status] /\ progress[w] \in Seq(Report)
  BY <1>1 DEF HubInv, Delivery, SocketsOK
<1>4. r \in Report
  BY <1>2, <1>3, InTail
<1>5. m \in Message /\ m.status \in published'[m.task]
  BY <1>2, <1>3, <1>4 DEF Report, Message
<1> HIDE DEF m
<1>6. ASSUME NEW c \in Client
      PROVE  /\ feed'[c] \in Seq(Message) /\ Len(feed'[c]) <= FeedCap
             /\ In(feed'[c]) \subseteq In(feed[c]) \cup {m}
  <2>1. feed[c] \in Seq(Message) /\ Len(feed[c]) <= FeedCap
    BY <1>1 DEF Typed
  <2>2. CASE at[c] = "away"
    <3>1. feed'[c] = <<>>
      BY <1>2, <2>2
    <3> QED
      BY <3>1, InEmpty, MediumAssumption
  <2>3. CASE at[c] # "away"
    <3>1. feed'[c] = Buffer(feed[c], m)
      BY <1>2, <2>3
    <3> QED
      BY <1>5, <2>1, <3>1, InBuffer
  <2> QED
    BY <2>2, <2>3
<1>7. Typed'
  <2>1. feed' \in [Client -> Seq(Message)] /\ \A c \in Client : Len(feed'[c]) <= FeedCap
    BY <1>2, <1>6
  <2> QED
    BY <1>1, <1>2, <2>1 DEF Typed
<1>8. Sessions' /\ Numbered'
  BY <1>1, <1>2 DEF Sessions, Session, Numbered
<1>9. AsPicked'
  BY <1>1, <1>2, HubLeaves DEF AsPicked, Current, IsFor
<1>10. Truthful'
  <2>1. ASSUME NEW c \in Client, NEW n \in In(feed'[c]) PROVE n.status \in published'[n.task]
    <3>1. CASE n = m
      BY <1>5, <3>1
    <3>2. CASE n \in In(feed[c])
      <4>1. n.task \in TaskId
        BY <1>1, <3>2, FeedTasks
      <4> QED
        BY <1>1, <3>2, <4>1, HubLeaves DEF Truthful
    <3> QED
      BY <1>6, <3>1, <3>2
  <2>2. \A c \in Client : watched[c] # NoTask => watched[c] \in TaskId
    BY <1>1 DEF Typed
  <2> QED
    BY <1>1, <1>2, <2>1, <2>2, HubLeaves DEF Truthful
<1> QED
  BY <1>7, <1>8, <1>9, <1>10 DEF ClientSide
------------------------------------------------------------------------------
(* Steps of the clients *)

(* A client connects, with nothing asked for yet. *)
LEMMA ConnectOK ==
  ASSUME MediumInv, NEW c \in Client, Connect(c)
  PROVE  ClientSide'
<1>1. HubInv /\ Typed /\ Sessions /\ Numbered /\ AsPicked /\ Truthful
  BY DEF MediumInv, ClientSide
<1>2. /\ at[c] = "away" /\ at' = [at EXCEPT ![c] = "menu"]
      /\ UNCHANGED <<allVars, asked, ticket, answer, watched, told, feed, requests, served,
                     sent, timeouts>>
  BY DEF Connect
<1>3. UNCHANGED <<tasks, published, serving>>
  BY <1>2 DEF allVars, vars, hubVars
<1>4. at' \in [Client -> {"away", "menu", "waiting", "watching"}] /\ at'[c] = "menu"
      /\ \A x \in Client \ {c} : at'[x] = at[x]
  BY <1>1, <1>2 DEF Typed
<1>5. Typed'
  BY <1>1, <1>2, <1>3, <1>4 DEF Typed
<1>6. Sessions'
  <2>1. ASSUME NEW x \in Client PROVE Session(x)'
    BY <1>1, <1>2, <1>4 DEF Sessions, Session
  <2> QED
    BY <2>1 DEF Sessions
<1>7. Numbered' /\ Truthful'
  BY <1>1, <1>2, <1>3 DEF Numbered, Truthful
<1>8. AsPicked'
  BY <1>1, <1>2, <1>3, <1>4 DEF AsPicked, Current, IsFor
<1> QED
  BY <1>5, <1>6, <1>7, <1>8 DEF ClientSide

(* A request gets a number no other request or ticket has. *)
LEMMA AskOK ==
  ASSUME MediumInv, NEW c \in Client, NEW p \in Menu, Ask(c, p)
  PROVE  ClientSide'
<1> DEFINE s == Sent(p)
           q == [from |-> c, number |-> sent + 1, ask |-> s]
<1>1. HubInv /\ Typed /\ Sessions /\ Numbered /\ AsPicked /\ Truthful
  BY DEF MediumInv, ClientSide
<1>2. /\ at[c] = "menu" /\ sent < MaxRequests /\ sent' = sent + 1
      /\ requests' = Append(requests, q)
      /\ asked' = [asked EXCEPT ![c] = s] /\ ticket' = [ticket EXCEPT ![c] = sent + 1]
      /\ watched' = [watched EXCEPT ![c] = NoTask] /\ told' = [told EXCEPT ![c] = "nothing"]
      /\ at' = [at EXCEPT ![c] = "waiting"]
      /\ UNCHANGED <<allVars, answer, feed, served, timeouts>>
  BY DEF Ask
<1>3. UNCHANGED <<tasks, published, serving>>
  BY <1>2 DEF allVars, vars, hubVars
<1>4. /\ asked'[c] = s /\ ticket'[c] = sent + 1 /\ watched'[c] = NoTask
      /\ told'[c] = "nothing" /\ at'[c] = "waiting"
      /\ \A x \in Client \ {c} : /\ asked'[x] = asked[x] /\ ticket'[x] = ticket[x]
                                 /\ watched'[x] = watched[x] /\ told'[x] = told[x]
                                 /\ at'[x] = at[x]
  BY <1>1, <1>2 DEF Typed
<1>5. sent \in Nat /\ sent + 1 \in 1..MaxRequests /\ MaxRequests \in Nat
  BY <1>1, <1>2, MediumAssumption DEF Typed
<1>6. q \in Request /\ s \in Sendable /\ s # NoRequest
  BY <1>5, MediumAssumption DEF Request, Sendable
<1>7. /\ requests' \in Seq(Request) /\ Len(requests') = Len(requests) + 1
      /\ In(requests') = In(requests) \cup {q}
  BY <1>1, <1>2, <1>6, InAppend DEF Typed
<1>8. In(requests) \subseteq Request
  BY <1>1, InSeq DEF Typed
<1>9. Typed'
  <2>1. Len(requests') <= sent'
    <3>1. Len(requests) <= sent /\ Len(requests) \in Nat
      BY <1>1, LenProperties DEF Typed
    <3> QED
      BY <1>2, <1>5, <1>7, <3>1
  <2>2. sent' \in 0..MaxRequests
    BY <1>2, <1>5
  <2>3. /\ asked' \in [Client -> Sendable \cup {NoRequest}] /\ ticket' \in [Client -> Nat]
        /\ watched' \in [Client -> TaskId \cup {NoTask}]
        /\ told' \in [Client -> Ended \cup {"nothing", "timeout"}]
        /\ at' \in [Client -> {"away", "menu", "waiting", "watching"}]
    BY <1>1, <1>2, <1>5, <1>6 DEF Typed
  <2> QED
    BY <1>1, <1>2, <1>3, <1>7, <2>1, <2>2, <2>3 DEF Typed
<1>10. Sessions'
  <2>1. ASSUME NEW x \in Client PROVE Session(x)'
    <3>1. CASE x = c
      <4>1. sent + 1 # 0
        BY <1>5
      <4> QED
        BY <1>1, <1>2, <1>4, <1>6, <3>1, <4>1 DEF Session
    <3>2. CASE x # c
      BY <1>1, <1>2, <1>4, <3>2 DEF Sessions, Session
    <3> QED
      BY <3>1, <3>2
  <2> QED
    BY <2>1 DEF Sessions
<1>11. Numbered'
  <2>1. \A n \in 1..sent : n \in 1..(sent + 1) /\ n # sent + 1
    BY <1>5
  <2>2. \A r \in In(requests') : r.number \in 1..sent'
    <3>1. q.number \in 1..(sent + 1)
      BY <1>5
    <3> HIDE DEF q
    <3> QED
      BY <1>1, <1>2, <1>7, <2>1, <3>1 DEF Numbered
  <2>3. ASSUME NEW x \in Client PROVE ticket'[x] <= sent'
    <3>1. ticket[x] \in Nat /\ ticket[x] <= sent
      BY <1>1 DEF Typed, Numbered
    <3> QED
      BY <1>2, <1>4, <1>5, <3>1
  <2>4. served' # NoRequest => served'.number \in 1..sent'
    BY <1>1, <1>2, <2>1 DEF Numbered
  <2> QED
    BY <2>2, <2>3, <2>4 DEF Numbered
<1>12. AsPicked'
  <2>1. ASSUME NEW r \in Request, r.number \in 1..sent, r.number = ticket'[r.from]
        PROVE  r.number = ticket[r.from] /\ asked'[r.from] = asked[r.from]
    <3>1. r.from \in Client
      BY DEF Request
    <3>2. r.number # sent + 1
      BY <1>5, <2>1
    <3> QED
      BY <1>4, <2>1, <3>1, <3>2
  <2>2. \A r \in In(requests') : Current(r)' => asked'[r.from] = r.ask
    <3>1. ASSUME NEW r \in In(requests), ticket'[r.from] = r.number PROVE asked'[r.from] = r.ask
      BY <1>1, <1>8, <2>1, <3>1 DEF Numbered, AsPicked, Current
    <3>2. asked'[q.from] = q.ask
      BY <1>4
    <3> HIDE DEF q
    <3> QED
      BY <1>7, <3>1, <3>2 DEF Current
  <2>3. served' # NoRequest => /\ IsFor(serving, served.ask)'
                               /\ Current(served)' => asked'[served'.from] = served'.ask
    <3>1. served # NoRequest => served \in Request /\ served.number \in 1..sent
      BY <1>1 DEF Typed, Numbered
    <3> QED
      BY <1>1, <1>2, <1>3, <2>1, <3>1 DEF AsPicked, Current, IsFor
  <2>4. answer[c] = NoTask
    BY <1>1, <1>2 DEF Sessions, Session
  <2>5. \A x \in Client : /\ answer'[x] # NoTask => IsFor(answer[x], asked[x])'
                          /\ at'[x] = "watching" => IsFor(watched[x], asked[x])'
    BY <1>1, <1>2, <1>3, <1>4, <2>4 DEF AsPicked, IsFor
  <2> QED
    BY <2>2, <2>3, <2>5 DEF AsPicked
<1>13. Truthful'
  BY <1>1, <1>2, <1>3, <1>4 DEF Truthful, Ended
<1> QED
  BY <1>9, <1>10, <1>11, <1>12, <1>13 DEF ClientSide

(* The client watches the task it was answered with. *)
LEMMA AcceptedOK ==
  ASSUME MediumInv, NEW c \in Client, Accepted(c)
  PROVE  ClientSide'
<1>1. HubInv /\ Typed /\ Sessions /\ Numbered /\ AsPicked /\ Truthful
  BY DEF MediumInv, ClientSide
<1>2. /\ at[c] = "waiting" /\ answer[c] # NoTask
      /\ at' = [at EXCEPT ![c] = "watching"] /\ watched' = [watched EXCEPT ![c] = answer[c]]
      /\ answer' = [answer EXCEPT ![c] = NoTask] /\ ticket' = [ticket EXCEPT ![c] = 0]
      /\ UNCHANGED <<allVars, asked, told, feed, requests, served, sent, timeouts>>
  BY DEF Accepted
<1>3. UNCHANGED <<tasks, published, serving>>
  BY <1>2 DEF allVars, vars, hubVars
<1>4. /\ at'[c] = "watching" /\ watched'[c] = answer[c] /\ answer'[c] = NoTask /\ ticket'[c] = 0
      /\ \A x \in Client \ {c} : /\ at'[x] = at[x] /\ watched'[x] = watched[x]
                                 /\ answer'[x] = answer[x] /\ ticket'[x] = ticket[x]
  BY <1>1, <1>2 DEF Typed
<1>5. Typed'
  <2>1. /\ at' \in [Client -> {"away", "menu", "waiting", "watching"}]
        /\ watched' \in [Client -> TaskId \cup {NoTask}]
        /\ answer' \in [Client -> TaskId \cup {NoTask}] /\ ticket' \in [Client -> Nat]
    BY <1>1, <1>2 DEF Typed
  <2> QED
    BY <1>1, <1>2, <1>3, <2>1 DEF Typed
<1>6. Sessions'
  <2>1. ASSUME NEW x \in Client PROVE Session(x)'
    BY <1>1, <1>2, <1>4 DEF Sessions, Session
  <2> QED
    BY <2>1 DEF Sessions
<1>7. \A x \in Client, n \in 1..sent : ticket'[x] = n => ticket[x] = n
  BY <1>4
<1>8. Numbered'
  <2>1. sent \in Nat
    BY <1>1, MediumAssumption DEF Typed
  <2>2. \A x \in Client : ticket'[x] <= sent
    BY <1>1, <1>4, <2>1 DEF Numbered
  <2> QED
    BY <1>1, <1>2, <2>2 DEF Numbered
<1>9. AsPicked'
  <2>1. \A r \in In(requests) : r.from \in Client /\ r.number \in 1..sent
    BY <1>1, RequestFacts
  <2>2. served # NoRequest => served.from \in Client /\ served.number \in 1..sent
    BY <1>1 DEF Typed, Request, Numbered
  <2>3. \A r \in In(requests') : Current(r)' => asked'[r.from] = r.ask
    BY <1>1, <1>2, <1>7, <2>1 DEF AsPicked, Current
  <2>4. served' # NoRequest => /\ IsFor(serving, served.ask)'
                               /\ Current(served)' => asked'[served'.from] = served'.ask
    BY <1>1, <1>2, <1>3, <1>7, <2>2 DEF AsPicked, Current, IsFor
  <2>5. \A x \in Client : /\ answer'[x] # NoTask => IsFor(answer[x], asked[x])'
                          /\ at'[x] = "watching" => IsFor(watched[x], asked[x])'
    BY <1>1, <1>2, <1>3, <1>4 DEF AsPicked, IsFor
  <2> QED
    BY <2>3, <2>4, <2>5 DEF AsPicked
<1>10. Truthful'
  <2>1. told[c] \notin Ended
    BY <1>1, <1>2 DEF Sessions, Session, Ended
  <2> QED
    BY <1>1, <1>2, <1>3, <1>4, <2>1 DEF Truthful
<1> QED
  BY <1>5, <1>6, <1>8, <1>9, <1>10 DEF ClientSide

(* A client that gives up waits for no request, so no answer finds it. *)
LEMMA GiveUpOK ==
  ASSUME MediumInv, NEW c \in Client, GiveUp(c)
  PROVE  ClientSide'
<1>1. HubInv /\ Typed /\ Sessions /\ Numbered /\ AsPicked /\ Truthful
  BY DEF MediumInv, ClientSide
<1>2. /\ at[c] = "waiting" /\ answer[c] = NoTask /\ timeouts < MaxTimeouts
      /\ at' = [at EXCEPT ![c] = "menu"] /\ ticket' = [ticket EXCEPT ![c] = 0]
      /\ asked' = [asked EXCEPT ![c] = NoRequest] /\ timeouts' = timeouts + 1
      /\ UNCHANGED <<allVars, answer, watched, told, feed, requests, served, sent>>
  BY DEF GiveUp
<1>3. UNCHANGED <<tasks, published, serving>>
  BY <1>2 DEF allVars, vars, hubVars
<1>4. /\ at'[c] = "menu" /\ asked'[c] = NoRequest /\ ticket'[c] = 0
      /\ \A x \in Client \ {c} : /\ at'[x] = at[x] /\ asked'[x] = asked[x]
                                 /\ ticket'[x] = ticket[x]
  BY <1>1, <1>2 DEF Typed
<1>5. Typed'
  <2>1. /\ at' \in [Client -> {"away", "menu", "waiting", "watching"}]
        /\ asked' \in [Client -> Sendable \cup {NoRequest}] /\ ticket' \in [Client -> Nat]
    BY <1>1, <1>2 DEF Typed
  <2>2. timeouts' \in 0..MaxTimeouts
    BY <1>1, <1>2, MediumAssumption DEF Typed
  <2> QED
    BY <1>1, <1>2, <1>3, <2>1, <2>2 DEF Typed
<1>6. Sessions'
  <2>1. ASSUME NEW x \in Client PROVE Session(x)'
    BY <1>1, <1>2, <1>4 DEF Sessions, Session
  <2> QED
    BY <2>1 DEF Sessions
<1>7. \A x \in Client, n \in 1..sent : ticket'[x] = n => ticket[x] = n /\ asked'[x] = asked[x]
  BY <1>4
<1>8. Numbered'
  <2>1. sent \in Nat
    BY <1>1, MediumAssumption DEF Typed
  <2>2. \A x \in Client : ticket'[x] <= sent
    BY <1>1, <1>4, <2>1 DEF Numbered
  <2> QED
    BY <1>1, <1>2, <2>2 DEF Numbered
<1>9. AsPicked'
  <2>1. \A r \in In(requests) : r.from \in Client /\ r.number \in 1..sent
    BY <1>1, RequestFacts
  <2>2. served # NoRequest => served.from \in Client /\ served.number \in 1..sent
    BY <1>1 DEF Typed, Request, Numbered
  <2>3. \A r \in In(requests') : Current(r)' => asked'[r.from] = r.ask
    BY <1>1, <1>2, <1>7, <2>1 DEF AsPicked, Current
  <2>4. served' # NoRequest => /\ IsFor(serving, served.ask)'
                               /\ Current(served)' => asked'[served'.from] = served'.ask
    BY <1>1, <1>2, <1>3, <1>7, <2>2 DEF AsPicked, Current, IsFor
  <2>5. \A x \in Client : /\ answer'[x] # NoTask => IsFor(answer[x], asked[x])'
                          /\ at'[x] = "watching" => IsFor(watched[x], asked[x])'
    BY <1>1, <1>2, <1>3, <1>4 DEF AsPicked, IsFor
  <2> QED
    BY <2>3, <2>4, <2>5 DEF AsPicked
<1>10. Truthful'
  BY <1>1, <1>2, <1>3 DEF Truthful
<1> QED
  BY <1>5, <1>6, <1>8, <1>9, <1>10 DEF ClientSide

(* A watch ends: by the outcome of the watched task or by its deadline. *)
LEMMA WatchEndsOK ==
  ASSUME MediumInv, NEW c \in Client, at[c] = "watching",
         NEW verdict \in Ended \cup {"timeout"},
         verdict \in Ended => verdict \in published[watched[c]],
         at' = [at EXCEPT ![c] = "menu"], told' = [told EXCEPT ![c] = verdict],
         asked' = [asked EXCEPT ![c] = NoRequest],
         feed' \in [Client -> Seq(Message)],
         \A x \in Client : Len(feed'[x]) <= FeedCap /\ In(feed'[x]) \subseteq In(feed[x]),
         timeouts' \in 0..MaxTimeouts,
         UNCHANGED <<allVars, ticket, answer, watched, requests, served, sent>>
  PROVE  ClientSide'
<1>1. HubInv /\ Typed /\ Sessions /\ Numbered /\ AsPicked /\ Truthful
  BY DEF MediumInv, ClientSide
<1>2. UNCHANGED <<tasks, published, serving>>
  BY DEF allVars, vars, hubVars
<1>3. /\ at'[c] = "menu" /\ told'[c] = verdict /\ asked'[c] = NoRequest
      /\ \A x \in Client \ {c} : /\ at'[x] = at[x] /\ told'[x] = told[x]
                                 /\ asked'[x] = asked[x]
  BY <1>1 DEF Typed
<1>4. ticket[c] = 0 /\ answer[c] = NoTask /\ watched[c] # NoTask
  BY <1>1 DEF Typed, Sessions, Session
<1>5. Typed'
  <2>1. /\ at' \in [Client -> {"away", "menu", "waiting", "watching"}]
        /\ told' \in [Client -> Ended \cup {"nothing", "timeout"}]
        /\ asked' \in [Client -> Sendable \cup {NoRequest}]
    BY <1>1 DEF Typed
  <2> QED
    BY <1>1, <1>2, <2>1 DEF Typed
<1>6. Sessions'
  <2>1. ASSUME NEW x \in Client PROVE Session(x)'
    BY <1>1, <1>3, <1>4 DEF Sessions, Session
  <2> QED
    BY <2>1 DEF Sessions
<1>7. Numbered'
  BY <1>1 DEF Numbered
<1>8. AsPicked'
  <2>1. \A n \in 1..sent : n # ticket[c]
    BY <1>4
  <2>2. \A r \in In(requests) : r.from \in Client /\ r.number \in 1..sent
    BY <1>1, RequestFacts
  <2>3. served # NoRequest => served.from \in Client /\ served.number \in 1..sent
    BY <1>1 DEF Typed, Request, Numbered
  <2>4. \A r \in In(requests') : Current(r)' => asked'[r.from] = r.ask
    BY <1>1, <1>3, <2>1, <2>2 DEF AsPicked, Current
  <2>5. served' # NoRequest => /\ IsFor(serving, served.ask)'
                               /\ Current(served)' => asked'[served'.from] = served'.ask
    BY <1>1, <1>2, <1>3, <2>1, <2>3 DEF AsPicked, Current, IsFor
  <2>6. \A x \in Client : /\ answer'[x] # NoTask => IsFor(answer[x], asked[x])'
                          /\ at'[x] = "watching" => IsFor(watched[x], asked[x])'
    BY <1>1, <1>2, <1>3, <1>4 DEF AsPicked, IsFor
  <2> QED
    BY <2>4, <2>5, <2>6 DEF AsPicked
<1>9. Truthful'
  <2>1. \A x \in Client : told'[x] \in Ended => watched[x] # NoTask /\ told'[x] \in published[watched[x]]
    BY <1>1, <1>3, <1>4 DEF Truthful
  <2> QED
    BY <1>1, <1>2, <2>1 DEF Truthful
<1> QED
  BY <1>5, <1>6, <1>7, <1>8, <1>9 DEF ClientSide

LEMMA WatchTimesOutOK ==
  ASSUME MediumInv, NEW c \in Client, WatchTimesOut(c)
  PROVE  ClientSide'
<1>1. Typed
  BY DEF MediumInv, ClientSide
<1>2. timeouts' \in 0..MaxTimeouts
  BY <1>1, MediumAssumption DEF WatchTimesOut, Typed
<1>3. /\ feed' \in [Client -> Seq(Message)]
      /\ \A x \in Client : Len(feed'[x]) <= FeedCap /\ In(feed'[x]) \subseteq In(feed[x])
  BY <1>1 DEF WatchTimesOut, Typed
<1>4. "timeout" \in Ended \cup {"timeout"} /\ "timeout" \notin Ended
  BY DEF Ended
<1> QED
  BY <1>2, <1>3, <1>4, WatchEndsOK DEF WatchTimesOut

(* The outcome read was published, since it came from the feed. *)
LEMMA ReadOK ==
  ASSUME MediumInv, NEW c \in Client, Read(c)
  PROVE  ClientSide'
<1> DEFINE m == Head(feed[c])
<1>1. HubInv /\ Typed /\ Sessions /\ Numbered /\ AsPicked /\ Truthful
  BY DEF MediumInv, ClientSide
<1>2. /\ at[c] = "watching" /\ feed[c] # <<>> /\ feed' = [feed EXCEPT ![c] = Tail(@)]
      /\ IF m.task = watched[c] /\ m.status \in Ended
         THEN /\ told' = [told EXCEPT ![c] = m.status] /\ at' = [at EXCEPT ![c] = "menu"]
              /\ asked' = [asked EXCEPT ![c] = NoRequest]
         ELSE UNCHANGED <<told, at, asked>>
      /\ UNCHANGED <<allVars, ticket, answer, watched, requests, served, sent, timeouts>>
  BY DEF Read
<1>3. /\ m \in In(feed[c]) /\ Tail(feed[c]) \in Seq(Message)
      /\ In(Tail(feed[c])) \subseteq In(feed[c]) /\ Len(Tail(feed[c])) <= FeedCap
  <2>1. feed[c] \in Seq(Message) /\ Len(feed[c]) <= FeedCap
    BY <1>1 DEF Typed
  <2>2. /\ m \in In(feed[c]) /\ Tail(feed[c]) \in Seq(Message)
        /\ In(Tail(feed[c])) \subseteq In(feed[c])
        /\ Len(feed[c]) \in Nat \ {0} /\ Len(Tail(feed[c])) = Len(feed[c]) - 1
    BY <1>2, <2>1, InTail
  <2> QED
    BY <2>1, <2>2, MediumAssumption
<1>4. feed' \in [Client -> Seq(Message)]
  BY <1>1, <1>2, <1>3 DEF Typed
<1>5. \A x \in Client : Len(feed'[x]) <= FeedCap /\ In(feed'[x]) \subseteq In(feed[x])
  BY <1>1, <1>2, <1>3 DEF Typed
<1>6. timeouts \in 0..MaxTimeouts
  BY <1>1 DEF Typed
<1>7. CASE m.task = watched[c] /\ m.status \in Ended
  <2>1. m.status \in published[watched[c]]
    BY <1>1, <1>3, <1>7 DEF Truthful
  <2> HIDE DEF m
  <2> QED
    BY <1>2, <1>4, <1>5, <1>6, <1>7, <2>1, WatchEndsOK
<1>8. CASE ~ (m.task = watched[c] /\ m.status \in Ended)
  <2>1. UNCHANGED <<told, at, asked>> /\ UNCHANGED <<tasks, published, serving>>
    BY <1>2, <1>8 DEF allVars, vars, hubVars
  <2>2. Typed' /\ Sessions' /\ Numbered'
    BY <1>1, <1>2, <1>4, <1>5, <2>1 DEF Typed, Sessions, Session, Numbered
  <2>3. AsPicked'
    BY <1>1, <1>2, <2>1 DEF AsPicked, Current, IsFor
  <2>4. Truthful'
    BY <1>1, <1>2, <1>5, <2>1 DEF Truthful
  <2> QED
    BY <2>2, <2>3, <2>4 DEF ClientSide
<1> QED
  BY <1>7, <1>8
------------------------------------------------------------------------------
(* The invariant *)

LEMMA MediumInitOK == MediumInit => MediumInv
<1> SUFFICES ASSUME MediumInit PROVE MediumInv
  OBVIOUS
<1>1. HubInv /\ serving = NoTask
  BY HubInitOK DEF MediumInit, HubInit
<1>2. In(<<>>) = {} /\ <<>> \in Seq(Message) /\ <<>> \in Seq(Request) /\ Len(<<>>) = 0
  BY InEmpty
<1>3. Typed
  BY <1>1, <1>2, MediumAssumption DEF MediumInit, Typed
<1>4. Sessions
  BY DEF MediumInit, Sessions, Session
<1>5. Numbered /\ AsPicked
  BY <1>2 DEF MediumInit, Numbered, AsPicked
<1>6. Truthful
  BY <1>2 DEF MediumInit, Truthful, Ended
<1> QED
  BY <1>1, <1>3, <1>4, <1>5, <1>6 DEF MediumInv, ClientSide

LEMMA MediumNextOK == MediumInv /\ [MediumNext]_mediumVars => MediumInv'
<1> SUFFICES ASSUME MediumInv, [MediumNext]_mediumVars PROVE MediumInv'
  OBVIOUS
<1>1. HubInv /\ [HubNext]_allVars
  BY MediumIsHubStep DEF MediumInv, ClientSide
<1>2. HubInv'
  BY <1>1, HubNextOK
<1>3. ASSUME Others(Internal) PROVE ClientSide'
  BY <1>1, <1>3, OthersOK, InternalKeepsServing DEF Others
<1>4. ASSUME UNCHANGED mediumVars PROVE ClientSide'
  BY <1>1, <1>4, OthersOK DEF mediumVars, allVars, hubVars
<1>5. ServeRequest \/ Answer \/ (\E w \in NodeId : Broadcast(w)) => ClientSide'
  BY <1>1, ServeRequestOK, AnswerOK, BroadcastOK
<1>6. ASSUME NEW c \in Client,
             Accepted(c) \/ Read(c) \/ Connect(c) \/ GiveUp(c) \/ WatchTimesOut(c)
      PROVE  ClientSide'
  BY <1>6, AcceptedOK, ReadOK, ConnectOK, GiveUpOK, WatchTimesOutOK
<1>7. ASSUME NEW c \in Client, NEW p \in Menu, Ask(c, p) PROVE ClientSide'
  BY <1>7, AskOK
<1> QED
  BY <1>2, <1>3, <1>4, <1>5, <1>6, <1>7 DEF MediumNext, ClientStep, MediumInv

LEMMA MediumInvariance == MediumSpec => []MediumInv
BY MediumInitOK, MediumNextOK, PTL DEF MediumSpec
------------------------------------------------------------------------------
(* The promise to the clients: each step is one of ClientPromise, or none. *)

(* The requests as ClientPromise sees them, without their numbers *)
Wish(r) == [from |-> r.from, ask |-> r.ask]
Wishes(q) == [i \in DOMAIN q |-> Wish(q[i])]

LEMMA WishesFacts ==
  ASSUME NEW q \in Seq(Request)
  PROVE  /\ Wishes(q) \in Seq([from : Client, ask : Sendable]) /\ Len(Wishes(q)) = Len(q)
         /\ \A i \in 1..Len(q) : Wishes(q)[i] = Wish(q[i])
<1> DEFINE n == Len(q)
           W == [from : Client, ask : Sendable]
<1>1. n \in Nat /\ DOMAIN q = 1..n /\ \A i \in 1..n : q[i] \in Request
  BY LenProperties, ElementOfSeq
<1>2. \A i \in 1..n : Wish(q[i]) \in W
  BY <1>1 DEF Wish, Request
<1>3. Wishes(q) \in [1..n -> W] /\ \A i \in 1..n : Wishes(q)[i] = Wish(q[i])
  BY <1>1, <1>2 DEF Wishes
<1> HIDE DEF n, W
<1>4. Wishes(q) \in Seq(W)
  BY <1>1, <1>3, SeqDef
<1>5. Len(Wishes(q)) = n
  BY <1>1, <1>3, <1>4, LenProperties
<1> QED
  BY <1>3, <1>4, <1>5 DEF n, W

LEMMA WishesEmpty == Wishes(<<>>) = <<>>
<1>1. <<>> \in Seq(Request) /\ Len(<<>>) = 0
  BY EmptySeq
<1>2. Wishes(<<>>) \in Seq([from : Client, ask : Sendable]) /\ Len(Wishes(<<>>)) = 0
  BY <1>1, WishesFacts
<1> QED
  BY <1>2, EmptySeq

LEMMA WishesAppend ==
  ASSUME NEW q \in Seq(Request), NEW e \in Request
  PROVE  Wishes(Append(q, e)) = Append(Wishes(q), Wish(e))
<1> DEFINE n == Len(q)
           W == [from : Client, ask : Sendable]
           l == Wishes(Append(q, e))
           r == Append(Wishes(q), Wish(e))
<1>1. /\ n \in Nat /\ Append(q, e) \in Seq(Request) /\ Len(Append(q, e)) = n + 1
      /\ Append(q, e)[n + 1] = e /\ \A i \in 1..n : Append(q, e)[i] = q[i]
  BY AppendProperties, LenProperties
<1>2. /\ Wishes(q) \in Seq(W) /\ Len(Wishes(q)) = n /\ Wish(e) \in W
      /\ \A i \in 1..n : Wishes(q)[i] = Wish(q[i])
  BY WishesFacts DEF Wish, Request
<1>3. /\ l \in Seq(W) /\ Len(l) = n + 1
      /\ \A i \in 1..(n + 1) : l[i] = Wish(Append(q, e)[i])
  BY <1>1, WishesFacts
<1> HIDE DEF W, n, l
<1>4. /\ r \in Seq(W) /\ Len(r) = n + 1
      /\ r[n + 1] = Wish(e) /\ \A i \in 1..n : r[i] = Wishes(q)[i]
  BY <1>2, AppendProperties
<1> HIDE DEF r
<1>5. ASSUME NEW i \in 1..(n + 1) PROVE l[i] = r[i]
  <2>1. CASE i = n + 1
    BY <1>1, <1>3, <1>4, <2>1
  <2>2. CASE i \in 1..n
    BY <1>1, <1>2, <1>3, <1>4, <2>2
  <2> QED
    BY <1>1, <2>1, <2>2
<1>6. l = r
  BY <1>3, <1>4, <1>5, SeqEqual
<1> QED
  BY <1>6 DEF l, r

LEMMA WishesTail ==
  ASSUME NEW q \in Seq(Request), q # <<>>
  PROVE  /\ Wishes(q) # <<>> /\ Head(Wishes(q)) = Wish(Head(q))
         /\ Wishes(Tail(q)) = Tail(Wishes(q))
<1> DEFINE n == Len(q)
           W == [from : Client, ask : Sendable]
           p == Wishes(q)
           l == Wishes(Tail(q))
           r == Tail(p)
<1>1. /\ n \in Nat \ {0} /\ Tail(q) \in Seq(Request) /\ Len(Tail(q)) = n - 1
      /\ \A i \in 1..(n - 1) : Tail(q)[i] = q[i + 1]
      /\ Head(q) = q[1]
  BY EmptySeq, HeadTailProperties
<1>2. p \in Seq(W) /\ Len(p) = n /\ \A i \in 1..n : p[i] = Wish(q[i])
  BY WishesFacts
<1>3. l \in Seq(W) /\ Len(l) = n - 1 /\ \A i \in 1..(n - 1) : l[i] = Wish(Tail(q)[i])
  BY <1>1, WishesFacts
<1> HIDE DEF W, n, p, l
<1>4. p # <<>>
  BY <1>1, <1>2, EmptySeq
<1>5. Head(p) = p[1] /\ p[1] = Wish(q[1])
  BY <1>1, <1>2, <1>4
<1>6. r \in Seq(W) /\ Len(r) = n - 1 /\ \A i \in 1..(n - 1) : r[i] = p[i + 1]
  BY <1>2, <1>4, HeadTailProperties
<1> HIDE DEF r
<1>7. ASSUME NEW i \in 1..(n - 1) PROVE l[i] = r[i]
  <2>1. i + 1 \in 1..n
    BY <1>1
  <2> QED
    BY <1>1, <1>2, <1>3, <1>6, <2>1
<1>8. l = r
  BY <1>1, <1>3, <1>6, <1>7, SeqEqual
<1> QED
  BY <1>1, <1>4, <1>5, <1>8 DEF p, l, r

(* What the medium server works at was submitted by a client and is        *)
(* nobody's answer yet.                                                    *)
OfferedOnce ==
  /\ served # NoRequest => \A c \in Client : answer[c] # serving
  /\ thread[Medium] # "idle" => served # NoRequest

LEMMA MediumThreadWakes ==
  ASSUME HubInv, Internal, thread[Medium] = "idle" PROVE thread'[Medium] = "idle"
<1>1. thread \in [Dispatcher -> {"idle", "list", "assign", "push"}] /\ Sender # Medium
      /\ Medium \in Dispatcher
  BY HubAssumption DEF HubInv, Delivery, ThreadsOK
<1>2. ASSUME NEW w \in NodeId, WorkerStep(w) PROVE UNCHANGED thread
  BY <1>2 DEF WorkerStep, Join, Dial, Pull, Reject, BeginGeneric, ContinueGeneric, BeginOllama,
              Finish, OllamaFails, SendProgress
<1>3. ASSUME NEW d \in Dispatcher, HubStep(d) PROVE thread'[Medium] = "idle"
  BY <1>1, <1>3 DEF HubStep, List, AssignFrames, Push
<1>4. WakeSender \/ EndPass(Sender) => thread'[Medium] = "idle"
  BY <1>1 DEF WakeSender, EndPass
<1>5. ASSUME NEW w \in NodeId, ReceiveProfile(w) \/ Crash(w) \/ CutPrompt(w) \/ ClosePipe(w)
      PROVE  UNCHANGED thread
  BY <1>5 DEF ReceiveProfile, Crash, CutPrompt, Vanish, ClosePipe
<1> QED
  BY <1>2, <1>3, <1>4, <1>5 DEF Internal

LEMMA OfferedOnceOK ==
  MediumInv /\ OfferedOnce /\ [MediumNext]_mediumVars => OfferedOnce'
<1> SUFFICES ASSUME MediumInv, OfferedOnce, [MediumNext]_mediumVars PROVE OfferedOnce'
  OBVIOUS
<1>1. Typed /\ AsPicked /\ HubInv
  BY DEF MediumInv, ClientSide
<1>2. ASSUME ServeRequest PROVE OfferedOnce'
  <2>1. PICK t \in TaskId : ServeSubmit(t, Head(requests).ask)
    BY <1>2 DEF ServeRequest
  <2>2. /\ t \notin DOMAIN tasks /\ serving' = t /\ UNCHANGED answer
        /\ requests # <<>> /\ served' = Head(requests)
    BY <1>2, <2>1 DEF ServeRequest, ServeSubmit
  <2>3. \A c \in Client : answer[c] # NoTask => answer[c] \in DOMAIN tasks
    BY <1>1 DEF AsPicked, IsFor
  <2>4. served' # NoRequest
    <3>1. Head(requests) \in Request
      BY <1>1, <2>2, InTail DEF Typed
    <3> QED
      BY <2>2, <3>1, MediumAssumption DEF Request
  <2> QED
    BY <2>1, <2>2, <2>3, <2>4, HubAssumption DEF OfferedOnce
<1>3. ASSUME Answer PROVE OfferedOnce'
  <2>1. thread' = [thread EXCEPT ![Medium] = "idle"] /\ served' = NoRequest
    BY <1>3 DEF Answer, EndPass
  <2>2. thread'[Medium] = "idle"
    BY <1>1, <2>1, HubAssumption DEF HubInv, Delivery, ThreadsOK
  <2> QED
    BY <2>1, <2>2 DEF OfferedOnce
<1>4. ASSUME Others(Internal) PROVE OfferedOnce'
  BY <1>1, <1>4, InternalKeepsServing, MediumThreadWakes DEF Others, clientVars, OfferedOnce
<1>5. ASSUME \/ \E w \in NodeId : Broadcast(w)
             \/ UNCHANGED mediumVars
             \/ \E c \in Client : Read(c) \/ Connect(c) \/ GiveUp(c) \/ WatchTimesOut(c)
             \/ \E c \in Client, p \in Menu : Ask(c, p)
      PROVE  UNCHANGED <<answer, served, serving, thread>>
  BY <1>5 DEF Broadcast, ReceiveProgress, Read, Connect, GiveUp, WatchTimesOut, Ask,
              mediumVars, clientVars, allVars, hubVars
<1>6. ASSUME NEW c \in Client, Accepted(c) PROVE OfferedOnce'
  <2>1. answer' = [answer EXCEPT ![c] = NoTask] /\ UNCHANGED <<served, serving, thread>>
    BY <1>6 DEF Accepted, allVars, hubVars
  <2>2. served # NoRequest => serving # NoTask
    BY <1>1 DEF Typed
  <2>3. \A x \in Client : answer'[x] = NoTask \/ answer'[x] = answer[x]
    BY <1>1, <2>1 DEF Typed
  <2> QED
    BY <2>1, <2>2, <2>3 DEF OfferedOnce
<1>7. UNCHANGED <<answer, served, serving, thread>> => OfferedOnce'
  BY DEF OfferedOnce
<1> QED
  BY <1>2, <1>3, <1>4, <1>5, <1>6, <1>7 DEF MediumNext, ClientStep

LEMMA OfferedOnceAlways == MediumSpec => []OfferedOnce
<1>1. MediumInit => OfferedOnce
  BY HubAssumption DEF MediumInit, HubInit, OfferedOnce
<1> QED
  BY <1>1, MediumInvariance, OfferedOnceOK, PTL DEF MediumSpec

AbsOutcome == [t \in TaskId |-> Outcomes(t)]
AbsVars == <<at, asked, watched, told, AbsQueue, AbsMade, AbsOffers, AbsOutcome>>

(* No task comes into being but by a request. *)
LEMMA MadeStays ==
  ASSUME HubInv, [HubNext]_allVars, DOMAIN tasks' = DOMAIN tasks
  PROVE  UNCHANGED AbsMade
BY TasksStay DEF AbsMade

LEMMA InternalMakesNothing ==
  ASSUME HubInv, Internal
  PROVE  DOMAIN tasks' = DOMAIN tasks /\ UNCHANGED published
<1>1. ASSUME NEW w \in NodeId, WorkerStep(w) PROVE UNCHANGED <<tasks, published>>
  BY <1>1 DEF WorkerStep, Join, Dial, Pull, Reject, BeginGeneric, ContinueGeneric, BeginOllama,
              Finish, OllamaFails, SendProgress, vars
<1>2. ASSUME NEW d \in Dispatcher, HubStep(d)
      PROVE  DOMAIN tasks' = DOMAIN tasks /\ UNCHANGED published
  BY <1>2 DEF HubStep, List, ListNodes, AssignFrames, Assign, Push, vars
<1>3. WakeSender \/ EndPass(Sender) => UNCHANGED <<tasks, published>>
  BY DEF WakeSender, EndPass, vars
<1>4. ASSUME NEW w \in NodeId, ReceiveProfile(w) \/ Crash(w) \/ CutPrompt(w) \/ ClosePipe(w)
      PROVE  UNCHANGED <<tasks, published>>
  BY <1>4 DEF ReceiveProfile, Register, Crash, CutPrompt, Vanish, ClosePipe, vars
<1> QED
  BY <1>1, <1>2, <1>3, <1>4 DEF Internal

(* A request served makes its task and offers it. *)
LEMMA ServeRequestMakes ==
  ASSUME MediumInv, [HubNext]_allVars, ServeRequest
  PROVE  \E t \in TaskId : Service!Make(t)
<1> DEFINE q == Head(requests)
<1>1. Typed /\ HubInv
  BY DEF MediumInv, ClientSide
<1>2. PICK t \in TaskId : ServeSubmit(t, q.ask)
  BY DEF ServeRequest
<1>3. /\ requests # <<>> /\ requests' = Tail(requests) /\ served' = q
      /\ UNCHANGED <<at, asked, answer, watched, told, published>>
  BY <1>2 DEF ServeRequest, ServeSubmit
<1>4. /\ serving = NoTask /\ serving' = t /\ t \notin DOMAIN tasks
      /\ DOMAIN tasks' = DOMAIN tasks \cup {t} /\ tasks'[t] = NewTask(q.ask)
      /\ \A k \in DOMAIN tasks : tasks'[k] = tasks[k]
  BY <1>2 DEF ServeSubmit, Submit, Put
<1>5. requests \in Seq(Request) /\ q \in Request
  BY <1>1, <1>3, InTail DEF Typed
<1>6. /\ AbsQueue = Wishes(requests) /\ AbsQueue' = Wishes(requests')
  BY DEF AbsQueue, Wishes, Wish
<1>7. AbsQueue # <<>> /\ Head(AbsQueue) = Wish(q) /\ AbsQueue' = Tail(AbsQueue)
  BY <1>3, <1>5, <1>6, WishesTail
<1>8. served = NoRequest /\ q # NoRequest
  BY <1>1, <1>4, <1>5, MediumAssumption DEF Typed, Request
<1>9. AbsOffers' = AbsOffers \cup {<<Wish(q).from, t>>}
  BY <1>3, <1>4, <1>8 DEF AbsOffers, Wish
<1>10. t \notin DOMAIN AbsMade
  BY <1>4 DEF AbsMade
<1>11. AbsMade' = [k \in DOMAIN AbsMade \cup {t} |->
                     IF k = t THEN Service!Kind(Wish(q).ask) ELSE AbsMade[k]]
  <2>1. Service!Kind(Wish(q).ask) = [type |-> q.ask.type, required |-> q.ask.required]
    BY DEF Service!Kind, Wish
  <2>2. AbsMade'[t] = [type |-> q.ask.type, required |-> q.ask.required]
    BY <1>4 DEF AbsMade, NewTask
  <2>3. DOMAIN AbsMade = DOMAIN tasks /\ \A k \in DOMAIN tasks : AbsMade'[k] = AbsMade[k]
    BY <1>4 DEF AbsMade
  <2>4. AbsMade' = [k \in DOMAIN tasks \cup {t} |-> AbsMade'[k]]
    BY <1>4 DEF AbsMade
  <2> QED
    BY <2>1, <2>2, <2>3, <2>4
<1>12. UNCHANGED AbsOutcome
  BY <1>3 DEF AbsOutcome, Outcomes
<1> QED
  BY <1>3, <1>7, <1>9, <1>10, <1>11, <1>12 DEF Service!Make, AbsOutcome

(* The answer passes the offer on, or nobody waits for it any more. *)
LEMMA AnswerOffers ==
  ASSUME MediumInv, OfferedOnce, Answer
  PROVE  (\E c \in Client, t \in TaskId : Service!Withdraw(c, t)) \/ UNCHANGED AbsVars
<1> DEFINE b == served.from
<1>1. HubInv /\ Typed /\ NoTask \notin TaskId
  BY HubAssumption DEF MediumInv, ClientSide
<1>2. /\ served' = NoRequest /\ thread[Medium] = "push"
      /\ UNCHANGED <<at, asked, watched, told, requests, tasks, published>>
  BY DEF Answer, EndPass, vars
<1>3. UNCHANGED <<AbsQueue, AbsMade, AbsOutcome>>
  BY <1>2 DEF AbsQueue, AbsMade, AbsOutcome, Outcomes
<1>4. /\ served # NoRequest /\ served \in Request /\ b \in Client
      /\ serving \in TaskId
  <2>1. served # NoRequest /\ served \in Request
    BY <1>1, <1>2 DEF OfferedOnce, Typed
  <2>2. serving \in TaskId
    BY <1>1, <2>1 DEF Typed, HubInv, Delivery, ThreadsOK
  <2> QED
    BY <2>1, <2>2 DEF Request
<1>5. answer' = IF ticket[b] = served.number THEN [answer EXCEPT ![b] = serving] ELSE answer
  BY DEF Answer
<1>6. \A c \in Client : answer[c] # serving
  BY <1>4 DEF OfferedOnce
<1> DEFINE Waiting(x) == {<<c, x[c]>> : c \in {c \in Client : x[c] # NoTask}}
<1>7. AbsOffers = Waiting(answer) \cup {<<b, serving>>} /\ AbsOffers' = Waiting(answer')
  BY <1>2, <1>4 DEF AbsOffers
<1>8. CASE ticket[b] # served.number
  <2>1. <<b, serving>> \in AbsOffers /\ AbsOffers' = AbsOffers \ {<<b, serving>>}
    BY <1>5, <1>6, <1>7, <1>8
  <2> QED
    BY <1>2, <1>3, <1>4, <2>1 DEF Service!Withdraw, AbsOutcome
<1>9. CASE ticket[b] = served.number
  <2>1. answer'[b] = serving /\ \A c \in Client \ {b} : answer'[c] = answer[c]
    BY <1>1, <1>4, <1>5, <1>9 DEF Typed
  <2>2. Waiting(answer') = {<<c, answer[c]>> : c \in {c \in Client \ {b} : answer[c] # NoTask}}
                             \cup {<<b, serving>>}
    BY <1>1, <1>4, <2>1
  <2>3. CASE answer[b] = NoTask
    <3>1. AbsOffers' = AbsOffers
      BY <1>7, <2>2, <2>3
    <3> QED
      BY <1>2, <1>3, <3>1 DEF AbsVars
  <2>4. CASE answer[b] # NoTask
    <3>1. <<b, answer[b]>> \in AbsOffers /\ AbsOffers' = AbsOffers \ {<<b, answer[b]>>}
      BY <1>4, <1>6, <1>7, <2>2, <2>4
    <3>2. answer[b] \in TaskId
      BY <1>1, <1>4, <2>4 DEF Typed
    <3> QED
      BY <1>2, <1>3, <1>4, <3>1, <3>2 DEF Service!Withdraw, AbsOutcome
  <2> QED
    BY <2>3, <2>4
<1> QED
  BY <1>8, <1>9

(* A report of an outcome is the first of its task. *)
LEMMA BroadcastConcludes ==
  ASSUME MediumInv, [HubNext]_allVars, NEW w \in NodeId, Broadcast(w)
  PROVE  (\E t \in TaskId, o \in Ended : Service!Conclude(t, o)) \/ UNCHANGED AbsVars
<1> DEFINE r == Head(progress[w])
<1>1. HubInv /\ published \in [TaskId -> SUBSET Status] /\ progress[w] \in Seq(Report)
  BY DEF MediumInv, HubInv, Delivery, SocketsOK
<1>2. /\ progress[w] # <<>>
      /\ published' = [published EXCEPT ![r.task] = @ \cup {r.status}]
      /\ Deliver(r)
      /\ UNCHANGED <<at, asked, answer, watched, told, requests, served, serving>>
  BY DEF Broadcast, ReceiveProgress
<1>3. r \in Report /\ r.task \in Reported(w)
  BY <1>1, <1>2, TailFacts DEF Reported
<1>4. r.task \in TaskId /\ r.status \in Status /\ r.task \in DOMAIN tasks
  BY <1>1, <1>3 DEF Report, HubInv, Delivery, Ledger, InPlayRuns, Alive
<1>5. DOMAIN tasks' = DOMAIN tasks
  BY <1>2 DEF Deliver, Progress, vars
<1>6. UNCHANGED <<AbsQueue, AbsMade, AbsOffers>>
  BY <1>1, <1>2, <1>5, MadeStays DEF AbsQueue, AbsOffers
<1>7. PICK t \in TaskId, o \in Status : t = r.task /\ o = r.status
  BY <1>4
<1> HIDE DEF r
<1>8. Outcomes(t)' = Outcomes(t) \cup ({o} \cap Ended)
      /\ \A k \in TaskId \ {t} : Outcomes(k)' = Outcomes(k)
  <2>1. published'[t] = published[t] \cup {o}
        /\ \A k \in TaskId \ {t} : published'[k] = published[k]
    BY <1>1, <1>2, <1>7
  <2> QED
    BY <2>1 DEF Outcomes
<1>9. CASE o \notin Ended
  <2>1. \A k \in TaskId : Outcomes(k)' = Outcomes(k)
    BY <1>8, <1>9
  <2> QED
    BY <1>2, <1>6, <2>1 DEF AbsVars, AbsOutcome
<1>10. CASE o \in Ended
  <2>1. Outcomes(t) = {}
    BY <1>1, <1>3, <1>7 DEF HubInv, Delivery, Ledger, Concluded, Outcomes, Ended
  <2>2. AbsOutcome' = [AbsOutcome EXCEPT ![t] = {o}]
    BY <1>8, <1>10, <2>1 DEF AbsOutcome
  <2>3. t \in DOMAIN AbsMade
    BY <1>4, <1>7 DEF AbsMade
  <2> QED
    BY <1>2, <1>6, <1>10, <2>1, <2>2, <2>3 DEF Service!Conclude, AbsOutcome
<1> QED
  BY <1>9, <1>10

(* What does not touch the hub's side of the clients *)
LEMMA SameService ==
  UNCHANGED <<tasks, published>> =>
    /\ UNCHANGED <<AbsMade, AbsOutcome>>
    /\ UNCHANGED requests => UNCHANGED AbsQueue
    /\ UNCHANGED <<answer, served, serving>> => UNCHANGED AbsOffers
BY DEF AbsMade, AbsOutcome, Outcomes, AbsQueue, AbsOffers

LEMMA ConnectConnects ==
  ASSUME NEW c \in Client, Connect(c) PROVE Service!Connect(c)
<1>1. UNCHANGED <<tasks, published, asked, answer, watched, told, requests, served, serving>>
  BY DEF Connect, allVars, vars, hubVars
<1> QED
  BY <1>1, SameService DEF Connect, Service!Connect, AbsOutcome

LEMMA AskSubmits ==
  ASSUME MediumInv, NEW c \in Client, NEW p \in Menu, Ask(c, p)
  PROVE  Service!Submit(c, Sent(p))
<1> DEFINE s == Sent(p)
           q == [from |-> c, number |-> sent', ask |-> s]
<1>1. Typed /\ sent \in Nat
  BY MediumAssumption DEF MediumInv, ClientSide, Typed
<1>2. /\ UNCHANGED <<tasks, published, answer, served, serving>>
      /\ requests' = Append(requests, q) /\ sent' = sent + 1
  BY DEF Ask, allVars, vars, hubVars
<1>3. requests \in Seq(Request) /\ q \in Request
  BY <1>1, <1>2 DEF Typed, Request, Sendable
<1>4. AbsQueue' = Append(AbsQueue, Wish(q))
  <2>1. AbsQueue = Wishes(requests) /\ AbsQueue' = Wishes(requests')
    BY DEF AbsQueue, Wishes, Wish
  <2> HIDE DEF q
  <2> QED
    BY <1>2, <1>3, <2>1, WishesAppend
<1>5. Wish(q) = [from |-> c, ask |-> s]
  BY DEF Wish
<1> QED
  BY <1>2, <1>4, <1>5, SameService DEF Ask, Service!Submit, AbsOutcome

LEMMA AcceptedTakes ==
  ASSUME MediumInv, OfferedOnce, NEW c \in Client, Accepted(c)
  PROVE  \E t \in TaskId : Service!Take(c, t)
<1> DEFINE t == answer[c]
<1>1. Typed /\ AsPicked
  BY DEF MediumInv, ClientSide
<1>2. /\ UNCHANGED <<tasks, published, requests, served, serving, asked, told>>
      /\ answer' = [answer EXCEPT ![c] = NoTask] /\ t # NoTask
      /\ at[c] = "waiting" /\ at' = [at EXCEPT ![c] = "watching"]
      /\ watched' = [watched EXCEPT ![c] = t]
  BY DEF Accepted, allVars, vars, hubVars
<1>3. t \in TaskId /\ t \in DOMAIN tasks
      /\ tasks[t].type = asked[c].type /\ tasks[t].required = asked[c].required
  BY <1>1, <1>2 DEF Typed, AsPicked, IsFor
<1>4. AbsMade[t] = Service!Kind(asked[c])
  BY <1>3 DEF AbsMade, Service!Kind
<1>5. <<c, t>> \in AbsOffers /\ AbsOffers' = AbsOffers \ {<<c, t>>}
  <2>1. answer'[c] = NoTask /\ \A x \in Client \ {c} : answer'[x] = answer[x]
    BY <1>1, <1>2 DEF Typed
  <2>2. served # NoRequest => serving # t
    BY DEF OfferedOnce
  <2> QED
    BY <1>2, <2>1, <2>2 DEF AbsOffers
<1> QED
  BY <1>2, <1>3, <1>4, <1>5, SameService DEF Service!Take, AbsOutcome

LEMMA BackToMenu ==
  ASSUME NEW c \in Client, GiveUp(c) \/ WatchTimesOut(c)
  PROVE  Service!GiveUp(c) \/ Service!TimeOut(c)
<1>1. UNCHANGED <<tasks, published, answer, watched, requests, served, serving>>
  BY DEF GiveUp, WatchTimesOut, allVars, vars, hubVars
<1> QED
  BY <1>1, SameService
     DEF GiveUp, WatchTimesOut, Service!GiveUp, Service!TimeOut, Service!Back, AbsOutcome

LEMMA ReadTells ==
  ASSUME MediumInv, NEW c \in Client, Read(c)
  PROVE  (\E o \in Ended : Service!Tell(c, o)) \/ UNCHANGED AbsVars
<1>1. HubInv /\ Typed /\ Truthful
  BY DEF MediumInv, ClientSide
<1>2. PICK m \in Message : m = Head(feed[c]) /\ m \in In(feed[c])
  BY <1>1, InTail DEF Typed, Read
<1>3. UNCHANGED <<tasks, published, answer, watched, requests, served, serving>>
  BY DEF Read, allVars, vars, hubVars
<1>4. UNCHANGED <<AbsQueue, AbsMade, AbsOffers, AbsOutcome>>
  BY <1>3, SameService
<1>5. CASE m.task = watched[c] /\ m.status \in Ended
  <2>1. /\ m.task \in TaskId /\ m.status \in published[m.task] /\ m.status # "Running"
        /\ published[m.task] \in SUBSET Status
    BY <1>1, <1>2, <1>5 DEF Truthful, Message, Ended, HubInv, Delivery, SocketsOK
  <2>2. published[m.task] \ {"Running"} = {m.status}
    BY <1>1, <2>1 DEF HubInv, Delivery, Ledger, Concluded
  <2>3. Outcomes(m.task) = {m.status}
    BY <1>5, <2>1, <2>2 DEF Outcomes, Ended, Status
  <2>4. AbsOutcome[watched[c]] = {m.status}
    BY <1>5, <2>1, <2>3 DEF AbsOutcome
  <2> QED
    BY <1>2, <1>3, <1>4, <1>5, <2>4 DEF Read, Service!Tell, Service!Back, AbsOutcome
<1>6. CASE ~ (m.task = watched[c] /\ m.status \in Ended)
  <2>1. UNCHANGED <<at, asked, told>>
    BY <1>2, <1>6 DEF Read
  <2> QED
    BY <1>3, <1>4, <2>1 DEF AbsVars
<1> QED
  BY <1>5, <1>6

LEMMA ServiceInit == MediumInit => Service!Init
<1> SUFFICES ASSUME MediumInit PROVE Service!Init
  OBVIOUS
<1>1. /\ tasks = EmptyMap /\ published = [t \in TaskId |-> {}]
      /\ requests = <<>> /\ served = NoRequest /\ answer = [c \in Client |-> NoTask]
  BY DEF MediumInit, HubInit
<1>2. AbsQueue = <<>>
  <2>1. AbsQueue = Wishes(requests)
    BY DEF AbsQueue, Wishes, Wish
  <2> QED
    BY <1>1, <2>1, WishesEmpty
<1>3. AbsMade = [t \in {} |-> NoRequest]
  BY <1>1 DEF AbsMade, EmptyMap
<1>4. AbsOffers = {}
  BY <1>1 DEF AbsOffers
<1>5. AbsOutcome = [t \in TaskId |-> {}]
  BY <1>1 DEF AbsOutcome, Outcomes
<1> QED
  BY <1>2, <1>3, <1>4, <1>5 DEF MediumInit, Service!Init, AbsOutcome

LEMMA ServiceStep ==
  MediumInv /\ OfferedOnce /\ [MediumNext]_mediumVars => [Service!Next]_(Service!vars)
<1> SUFFICES ASSUME MediumInv, OfferedOnce, [MediumNext]_mediumVars
             PROVE  Service!Next \/ UNCHANGED AbsVars
  BY DEF Service!vars, AbsVars, AbsOutcome
<1>1. HubInv /\ [HubNext]_allVars
  BY MediumIsHubStep DEF MediumInv, ClientSide
<1>2. ASSUME Others(Internal) PROVE UNCHANGED AbsVars
  <2>1. /\ DOMAIN tasks' = DOMAIN tasks /\ UNCHANGED <<published, serving>>
        /\ UNCHANGED <<at, asked, answer, watched, told, requests, served>>
    BY <1>1, <1>2, InternalMakesNothing, InternalKeepsServing DEF Others, clientVars
  <2>2. UNCHANGED AbsMade
    BY <1>1, <2>1, MadeStays
  <2> QED
    BY <2>1, <2>2 DEF AbsVars, AbsQueue, AbsOffers, AbsOutcome, Outcomes
<1>3. ASSUME UNCHANGED mediumVars PROVE UNCHANGED AbsVars
  <2>1. UNCHANGED <<tasks, published, serving, at, asked, answer, watched, told, requests, served>>
    BY <1>3 DEF mediumVars, clientVars, allVars, vars, hubVars
  <2> QED
    BY <2>1, SameService DEF AbsVars
<1>4. ASSUME ServeRequest PROVE Service!Next
  BY <1>1, <1>4, ServeRequestMakes DEF Service!Next
<1>5. ASSUME Answer PROVE Service!Next \/ UNCHANGED AbsVars
  BY <1>5, AnswerOffers DEF Service!Next
<1>6. ASSUME NEW w \in NodeId, Broadcast(w) PROVE Service!Next \/ UNCHANGED AbsVars
  BY <1>1, <1>6, BroadcastConcludes DEF Service!Next
<1>7. ASSUME NEW c \in Client, ClientStep(c) PROVE Service!Next \/ UNCHANGED AbsVars
  BY <1>7, AcceptedTakes, ReadTells DEF ClientStep, Service!Next
<1>8. ASSUME NEW c \in Client, Connect(c) \/ GiveUp(c) \/ WatchTimesOut(c) PROVE Service!Next
  BY <1>8, ConnectConnects, BackToMenu DEF Service!Next
<1>9. ASSUME NEW c \in Client, NEW p \in Menu, Ask(c, p) PROVE Service!Next
  <2>1. Sent(p) \in Sendable
    BY DEF Sendable
  <2> QED
    BY <1>9, <2>1, AskSubmits DEF Service!Next
<1> QED
  BY <1>2, <1>3, <1>4, <1>5, <1>6, <1>7, <1>8, <1>9 DEF MediumNext
------------------------------------------------------------------------------
(* The theorems *)

(* Whatever the clients do, the hub behaves as Hub says it does when they  *)
(* may ask for anything at any time.                                       *)
THEOREM MediumUsesHub == MediumSpec => HubSpec
<1>1. MediumInit => HubInit
  BY DEF MediumInit
<1>2. MediumInv /\ [MediumNext]_mediumVars => [HubNext]_allVars
  BY MediumIsHubStep DEF MediumInv, ClientSide
<1> QED
  BY <1>1, <1>2, MediumInvariance, PTL DEF MediumSpec, HubSpec

(* So with the clients connected every task is at one place, every Running *)
(* task accounted for, none handed out twice and a completion final.       *)
THEOREM ClientsAreHarmless ==
  MediumSpec => /\ [](SingleDelivery /\ RunningAccounted /\ HandedOutOnce)
                /\ CompletedIsFinal
BY MediumUsesHub, DeliveredToOne, RunningIsAccounted, AtMostOnce, CompletionIsFinal, PTL

(* Types, and what the place of a client implies. *)
THEOREM MediumTypeCorrect == MediumSpec => []MediumTypeOK
<1>1. MediumInv => MediumTypeOK
  BY HubTypes DEF MediumInv, ClientSide, MediumTypeOK, Typed, Sessions, Session
<1> QED
  BY <1>1, MediumInvariance, PTL

(* A client that watches a task watches what its user picked. *)
THEOREM WatchedTaskIsOwn == MediumSpec => []WatchesOwnTask
<1>1. MediumInv => WatchesOwnTask
  BY DEF MediumInv, ClientSide, AsPicked, IsFor, WatchesOwnTask
<1> QED
  BY <1>1, MediumInvariance, PTL

(* What a user was told is the one outcome the task ever has. *)
THEOREM OutcomeToldIsFinal == MediumSpec => []ToldTheOutcome
<1>1. MediumInv => ToldTheOutcome
  <2> SUFFICES ASSUME MediumInv, NEW c \in Client, told[c] \in Ended
               PROVE  Outcomes(watched[c]) = {told[c]}
    BY DEF ToldTheOutcome
  <2>1. /\ watched[c] \in TaskId /\ told[c] \in published[watched[c]]
        /\ Concluded /\ published \in [TaskId -> SUBSET Status]
    BY DEF MediumInv, ClientSide, Typed, Truthful, HubInv, Delivery, Ledger, SocketsOK
  <2>2. told[c] # "Running"
    BY DEF Ended
  <2>3. published[watched[c]] \ {"Running"} = {told[c]}
    BY <2>1, <2>2 DEF Concluded
  <2> QED
    BY <2>1, <2>3 DEF Outcomes, Ended, Status
<1> QED
  BY <1>1, MediumInvariance, PTL

(* Hub and clients implement ClientPromise: one task of the kind picked    *)
(* for each request, taken once and only by the client that made it, and   *)
(* one outcome, which is what the client is told.                          *)
THEOREM ImplementsClientPromise == MediumSpec => KeepsClientPromise
BY ServiceInit, ServiceStep, MediumInvariance, OfferedOnceAlways, PTL
   DEF MediumSpec, KeepsClientPromise, Service!Spec
==============================================================================
