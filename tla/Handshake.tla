------------------------------ MODULE Handshake ------------------------------
(***************************************************************************)
(* The challenge-response handshake between the hub's authentication       *)
(* server (run_auth_server in server.rs, a Rep0 socket served by a single  *)
(* loop) and its clients (execute_handshake_attempt and the retry loop of  *)
(* run_demo_lifecycle in host-background-agent's transport/mod.rs, a fresh *)
(* Req0 socket per attempt).                                               *)
(*                                                                         *)
(* Abstracted: a token is a number never drawn before, a signature is the  *)
(* signer with the token signed.  The server works in milliseconds, so a   *)
(* client's 2 s run out only on a request nobody will answer, and the      *)
(* server's 500 ms only when nobody is going to send it anything.  Rep0    *)
(* sends a reply to whom the last request came from, and nowhere if that   *)
(* socket is closed; a closed socket takes its unread request with it.     *)
(***************************************************************************)
EXTENDS Integers, FiniteSets

CONSTANTS Client,      \* nodes that join
          None,        \* no request, no reply
          MaxTokens,   \* bound: challenges issued
          MaxCrashes   \* bound: clients that may crash

Join == [type |-> "Join"]
Response(c, k) == [type |-> "Response", signer |-> c, signed |-> k]
Challenge(k) == [type |-> "Challenge", token |-> k]
Result(ok) == [type |-> "Result", authenticated |-> ok]

Token == 1..MaxTokens
Message == {Join} \cup {Response(c, k) : c \in Client, k \in Token}
             \cup {Challenge(k) : k \in Token} \cup {Result(ok) : ok \in BOOLEAN}

ASSUME HandshakeAssumption ==
  None \notin Client \cup Message /\ MaxTokens \in Nat /\ MaxCrashes \in Nat

VARIABLES
  state,     \* state[c]: where the handshake of c is
  request,   \* request[c]: what c has sent and the server has not read
  reply,     \* reply[c]: what the server has sent and c has not read
  server,    \* "listening", "challenged" or "dead"
  token,     \* the token of the challenge the server waits on
  drawn,     \* tokens drawn so far are 1..drawn
  issuedTo,  \* history: issuedTo[k] is the client token k was sent to
  granted    \* history: granted[c] is the token c was authenticated by, 0 if none

vars == <<state, request, reply, server, token, drawn, issuedTo, granted>>

Init == /\ state = [c \in Client |-> "idle"]
        /\ request = [c \in Client |-> None]
        /\ reply = [c \in Client |-> None]
        /\ server = "listening"
        /\ token = 0
        /\ drawn = 0
        /\ issuedTo = [k \in Token |-> None]
        /\ granted = [c \in Client |-> 0]

Has(c, type) == request[c] # None /\ request[c].type = type
------------------------------------------------------------------------------
(* The server *)

(* Fault: any signature of an earlier challenge will do. *)
VerifiedLoosely(response, k) == response.signed <= k

(* verify_challenge_response, for the identity in the response itself; its *)
(* thumbprint is added to the trusted ones before.                         *)
Verified(response, k) == response.signed = k

ReadJoin(c) ==
  /\ server = "listening" /\ Has(c, "Join")
  /\ drawn < MaxTokens
  /\ drawn' = drawn + 1
  /\ token' = drawn + 1
  /\ issuedTo' = [issuedTo EXCEPT ![drawn + 1] = c]
  /\ request' = [request EXCEPT ![c] = None]
  /\ reply' = [reply EXCEPT ![c] = Challenge(drawn + 1)]
  /\ server' = "challenged"
  /\ UNCHANGED <<state, granted>>

(* The next request is taken for the response, whoever it comes from. *)
ReadResponse(c) ==
  /\ server = "challenged" /\ Has(c, "Response")
  /\ LET ok == Verified(request[c], token)
     IN  /\ reply' = [reply EXCEPT ![c] = Result(ok)]
         /\ granted' = IF ok THEN [granted EXCEPT ![c] = token] ELSE granted
  /\ request' = [request EXCEPT ![c] = None]
  /\ server' = "listening"
  /\ UNCHANGED <<state, token, drawn, issuedTo>>

(* Fault: an unexpected request gets the server out of its loop. *)
ReadUnexpectedFatal(c) ==
  /\ \/ server = "listening" /\ Has(c, "Response")
     \/ server = "challenged" /\ Has(c, "Join")
  /\ request' = [request EXCEPT ![c] = None]
  /\ server' = "dead"
  /\ UNCHANGED <<state, reply, token, drawn, issuedTo, granted>>

(* A request of the wrong type is dropped without a reply and the          *)
(* handshake under way with it.                                            *)
ReadUnexpected(c) ==
  /\ \/ server = "listening" /\ Has(c, "Response")
     \/ server = "challenged" /\ Has(c, "Join")
  /\ request' = [request EXCEPT ![c] = None]
  /\ server' = "listening"
  /\ UNCHANGED <<state, reply, token, drawn, issuedTo, granted>>

Quiet == \A c \in Client : request[c] = None /\ reply[c] = None

(* The second recv has no arm for TimedOut: the server returns.            *)
SecondRecvTimesOut ==
  /\ server = "challenged" /\ Quiet
  /\ server' = "dead"
  /\ UNCHANGED <<state, request, reply, token, drawn, issuedTo, granted>>
------------------------------------------------------------------------------
(* A client *)

(* A new attempt dials, which fails at once when nobody listens. *)
SendJoin(c) ==
  /\ state[c] = "idle" /\ server # "dead"
  /\ state' = [state EXCEPT ![c] = "joining"]
  /\ request' = [request EXCEPT ![c] = Join]
  /\ UNCHANGED <<reply, server, token, drawn, issuedTo, granted>>

SendResponse(c) ==
  /\ state[c] = "joining" /\ reply[c] # None
  /\ state' = [state EXCEPT ![c] = "responding"]
  /\ request' = [request EXCEPT ![c] = Response(c, reply[c].token)]
  /\ reply' = [reply EXCEPT ![c] = None]
  /\ UNCHANGED <<server, token, drawn, issuedTo, granted>>

ReadResult(c) ==
  /\ state[c] = "responding" /\ reply[c] # None
  /\ state' = [state EXCEPT ![c] = IF reply[c].authenticated THEN "authenticated" ELSE "idle"]
  /\ reply' = [reply EXCEPT ![c] = None]
  /\ UNCHANGED <<request, server, token, drawn, issuedTo, granted>>

(* Fault: a client that gives up leaves its request with the server. *)
AttemptAbandoned(c) ==
  /\ state[c] \in {"joining", "responding"} /\ reply[c] = None
  /\ state' = [state EXCEPT ![c] = "idle"]
  /\ UNCHANGED <<request, reply, server, token, drawn, issuedTo, granted>>

(* Fault: a client gives up on a reply that is already there. *)
AttemptImpatient(c) ==
  /\ state[c] \in {"joining", "responding"} /\ request[c] = None
  /\ state' = [state EXCEPT ![c] = "idle"]
  /\ reply' = [reply EXCEPT ![c] = None]
  /\ UNCHANGED <<request, server, token, drawn, issuedTo, granted>>

(* Two seconds without the reply: the attempt fails, its socket is closed, *)
(* and after a backoff there is another one.                               *)
AttemptTimesOut(c) ==
  /\ state[c] \in {"joining", "responding"} /\ reply[c] = None
  /\ request[c] = None \/ server = "dead"
  /\ state' = [state EXCEPT ![c] = "idle"]
  /\ request' = [request EXCEPT ![c] = None]
  /\ UNCHANGED <<reply, server, token, drawn, issuedTo, granted>>

Crash(c) ==
  /\ state[c] \notin {"crashed", "authenticated"}
  /\ Cardinality({x \in Client : state[x] = "crashed"}) < MaxCrashes
  /\ state' = [state EXCEPT ![c] = "crashed"]
  /\ request' = [request EXCEPT ![c] = None]
  /\ reply' = [reply EXCEPT ![c] = None]
  /\ UNCHANGED <<server, token, drawn, issuedTo, granted>>
------------------------------------------------------------------------------
ServerStep == \/ \E c \in Client : ReadJoin(c) \/ ReadResponse(c) \/ ReadUnexpected(c)
              \/ SecondRecvTimesOut
ClientStep(c) == SendJoin(c) \/ SendResponse(c) \/ ReadResult(c) \/ AttemptTimesOut(c)

Next == ServerStep \/ (\E c \in Client : ClientStep(c)) \/ (\E c \in Client : Crash(c))

Spec == Init /\ [][Next]_vars

(* The server's loop runs, and a client that is not authenticated retries. *)
Fairness == WF_vars(ServerStep) /\ \A c \in Client : WF_vars(ClientStep(c))

FairSpec == Spec /\ Fairness
------------------------------------------------------------------------------
(* Properties *)

TypeOK ==
  /\ state \in [Client -> {"idle", "joining", "responding", "authenticated", "crashed"}]
  /\ request \in [Client -> Message \cup {None}] /\ reply \in [Client -> Message \cup {None}]
  /\ \A c \in Client :
       /\ request[c] \in {None, Join} \cup {Response(c, k) : k \in 1..drawn}
       /\ reply[c] \in {None} \cup {Challenge(k) : k \in 1..drawn} \cup {Result(b) : b \in BOOLEAN}
       /\ state[c] = "joining" /\ reply[c] # None => reply[c].type = "Challenge"
       /\ state[c] = "responding" /\ reply[c] # None => reply[c].type = "Result"
  /\ server \in {"listening", "challenged", "dead"}
  /\ drawn \in 0..MaxTokens /\ token = drawn
  /\ issuedTo \in [Token -> Client \cup {None}]
  /\ granted \in [Client -> 0..drawn]

(* However the exchanges of several clients interleave on the one socket,  *)
(* a client is granted access only by a challenge that was issued to it,   *)
(* and one that believes it is authenticated was granted access.           *)
GrantsAreOwn ==
  \A c \in Client : /\ granted[c] # 0 => issuedTo[granted[c]] = c
                    /\ state[c] = "authenticated" => granted[c] # 0

(* A grant is not lost: the client it went to comes to know of it, though  *)
(* other clients' requests and the server's end come in between.           *)
GrantReachesClient ==
  \A c \in Client : granted[c] # 0 ~> state[c] \in {"authenticated", "crashed"}

(* As long as no client goes away in the middle, colliding handshakes cost *)
(* attempts but never the server.                                          *)
ServerSurvives == server = "dead" => \E c \in Client : state[c] = "crashed"

(* ADR-003: a node backs off and retries "to find and rejoin the Hub".     *)
(* When it dials again the server is there.  One client that disappears    *)
(* between challenge and response ends the server for all the others.      *)
RejoinPossible == \A c \in Client : state[c] = "idle" => server # "dead"
==============================================================================
