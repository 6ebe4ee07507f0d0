--------------------------- MODULE HandshakeProofs ---------------------------
(***************************************************************************)
(* Theorems about Handshake, for any clients, crashes and challenges.  The *)
(* inductive invariant adds to TypeOK which exchange each client is in     *)
(* (Exchange), that every token on its way belongs to the client it is on  *)
(* the way to (Owned), and that a server that waits for a response waits   *)
(* for somebody (Awaited).                                                 *)
(***************************************************************************)
EXTENDS Handshake, TLAPS

(* A client has at most one of a request and a reply under way, and it is  *)
(* the one its place in the handshake calls for.                           *)
Exchange ==
  \A c \in Client :
    /\ request[c] # None => reply[c] = None
    /\ reply[c] # None => state[c] \in {"joining", "responding"}
    /\ Has(c, "Join") => state[c] = "joining"
    /\ Has(c, "Response") => state[c] = "responding"

Accepted == Result(TRUE)
Rejected == Result(FALSE)

(* A token is on its way only to and from the client it was issued to. *)
OwnedBy(c) ==
  /\ \A k \in Token : reply[c] = Challenge(k) => issuedTo[k] = c
  /\ \A k \in Token : request[c] = Response(c, k) => issuedTo[k] = c
  /\ reply[c] = Accepted => granted[c] # 0
  /\ granted[c] # 0 => issuedTo[granted[c]] = c
  /\ state[c] = "authenticated" => granted[c] # 0

Owned == \A c \in Client : OwnedBy(c)

Challenged(c) == reply[c] # None /\ reply[c].type = "Challenge"

Awaited ==
  /\ server = "challenged" =>
       \E c \in Client : Challenged(c) \/ Has(c, "Response") \/ state[c] = "crashed"
  /\ ServerSurvives

IInv == TypeOK /\ Exchange /\ Owned /\ Awaited

(* The results are two. *)
LEMMA Results == {Result(b) : b \in BOOLEAN} = {Accepted, Rejected}
BY DEF Accepted, Rejected

(* Messages of different types differ, and none of them is None. *)
LEMMA Messages ==
  /\ Join \in Message /\ Join # None /\ Join.type = "Join"
  /\ \A c \in Client, k \in Token :
       /\ Response(c, k) \in Message /\ Response(c, k) # None
       /\ Response(c, k).type = "Response" /\ Response(c, k).signed = k
  /\ \A k \in Token : /\ Challenge(k) \in Message /\ Challenge(k) # None
                      /\ Challenge(k).type = "Challenge" /\ Challenge(k).token = k
  /\ Accepted \in Message /\ Accepted # None /\ Accepted.type = "Result"
  /\ Rejected \in Message /\ Rejected # None /\ Rejected.type = "Result"
  /\ Accepted.authenticated /\ ~ Rejected.authenticated
<1>1. None \notin Message
  BY HandshakeAssumption
<1>2. Join \in Message /\ Join.type = "Join"
  BY DEF Message, Join
<1>3. ASSUME NEW c \in Client, NEW k \in Token
      PROVE  /\ Response(c, k) \in Message
             /\ Response(c, k).type = "Response" /\ Response(c, k).signed = k
  BY DEF Message, Response
<1>4. ASSUME NEW k \in Token
      PROVE  /\ Challenge(k) \in Message
             /\ Challenge(k).type = "Challenge" /\ Challenge(k).token = k
  BY DEF Message, Challenge
<1>5. /\ Accepted \in Message /\ Accepted.type = "Result" /\ Accepted.authenticated
      /\ Rejected \in Message /\ Rejected.type = "Result" /\ ~ Rejected.authenticated
  <2>1. Accepted \in Message /\ Rejected \in Message
    BY Results DEF Message
  <2> QED
    BY <2>1 DEF Accepted, Rejected, Result
<1> QED
  BY <1>1, <1>2, <1>3, <1>4, <1>5

(* What TypeOK says of the message of a type *)
LEMMA MessageForms ==
  ASSUME TypeOK, NEW c \in Client
  PROVE  /\ request[c] # None => Has(c, "Join") \/ Has(c, "Response")
         /\ Has(c, "Join") => request[c] = Join
         /\ Has(c, "Response") => \E k \in Token : k <= drawn /\ request[c] = Response(c, k)
         /\ reply[c] # None /\ state[c] = "joining"
              => \E k \in Token : k <= drawn /\ reply[c] = Challenge(k)
         /\ reply[c] # None /\ state[c] = "responding"
              => reply[c] \in {Accepted, Rejected}
<1>1. 1..drawn \subseteq Token /\ \A k \in 1..drawn : k <= drawn
  BY HandshakeAssumption DEF TypeOK, Token
<1>2. request[c] \in {None, Join} \cup {Response(c, k) : k \in 1..drawn}
  BY DEF TypeOK
<1>3. reply[c] \in {None} \cup {Challenge(k) : k \in 1..drawn} \cup {Accepted, Rejected}
  BY Results DEF TypeOK
<1>4. /\ state[c] = "joining" /\ reply[c] # None => reply[c].type = "Challenge"
      /\ state[c] = "responding" /\ reply[c] # None => reply[c].type = "Result"
  BY DEF TypeOK
<1>5. /\ request[c] # None => Has(c, "Join") \/ Has(c, "Response")
      /\ Has(c, "Join") => request[c] = Join
      /\ Has(c, "Response") => \E k \in Token : k <= drawn /\ request[c] = Response(c, k)
  BY <1>1, <1>2, Messages DEF Has
<1>6. reply[c] # None /\ state[c] = "joining"
        => \E k \in Token : k <= drawn /\ reply[c] = Challenge(k)
  BY <1>1, <1>3, <1>4, Messages
<1>7. reply[c] # None /\ state[c] = "responding"
        => reply[c] \in {Accepted, Rejected}
  BY <1>1, <1>3, <1>4, Messages
<1> QED
  BY <1>5, <1>6, <1>7

(* Messages that differ in type or content differ. *)
LEMMA Distinct ==
  /\ \A c \in Client, k \in Token : Response(c, k) # Join
  /\ \A c, d \in Client, j, k \in Token : Response(c, j) = Response(d, k) => j = k
  /\ \A j, k \in Token : Challenge(j) = Challenge(k) => j = k
  /\ \A k \in Token : Challenge(k) # Accepted /\ Challenge(k) # Rejected
  /\ Accepted # Rejected
<1>1. \A c \in Client, k \in Token : Response(c, k) # Join
  BY Messages
<1>2. \A c, d \in Client, j, k \in Token : Response(c, j) = Response(d, k) => j = k
  BY Messages
<1>3. \A j, k \in Token : Challenge(j) = Challenge(k) => j = k
  BY Messages
<1>4. \A k \in Token : Challenge(k) # Accepted /\ Challenge(k) # Rejected
  BY Messages
<1> QED
  BY <1>1, <1>2, <1>3, <1>4, Messages

(* A token on its way has been drawn. *)
LEMMA UsedTokens ==
  ASSUME TypeOK, NEW c \in Client, NEW k \in Token,
         reply[c] = Challenge(k) \/ request[c] = Response(c, k)
  PROVE  k \in 1..drawn
<1>1. 1..drawn \subseteq Token
  BY HandshakeAssumption DEF TypeOK, Token
<1>2. CASE reply[c] = Challenge(k)
  <2>1. reply[c] \in {None} \cup {Challenge(j) : j \in 1..drawn} \cup {Accepted, Rejected}
    BY Results DEF TypeOK
  <2> QED
    BY <1>1, <1>2, <2>1, Messages, Distinct
<1>3. CASE request[c] = Response(c, k)
  BY <1>1, <1>3, Messages, Distinct DEF TypeOK
<1> QED
  BY <1>2, <1>3

(* Initially nothing is under way. *)
LEMMA InitOK == Init => IInv
<1> SUFFICES ASSUME Init PROVE IInv
  OBVIOUS
<1>1. TypeOK
  BY HandshakeAssumption DEF Init, TypeOK, Token
<1>2. Exchange
  BY DEF Init, Exchange, Has
<1>3. Owned
  BY Messages DEF Init, Owned, OwnedBy
<1>4. Awaited
  BY DEF Init, Awaited, ServerSurvives
<1> QED
  BY <1>1, <1>2, <1>3, <1>4 DEF IInv

(* The challenge drawn for a Join is new, and goes to the one who joins. *)
LEMMA ReadJoinOK == ASSUME IInv, NEW c \in Client, ReadJoin(c) PROVE IInv'
<1> USE DEF IInv
<1>1. /\ drawn + 1 \in Token /\ drawn' = drawn + 1 /\ drawn \in Nat
      /\ Challenge(drawn + 1) \in Message
      /\ request[c] # None /\ reply[c] = None /\ state[c] = "joining"
  BY HandshakeAssumption, Messages DEF ReadJoin, TypeOK, Token, Exchange, Has
<1>2. TypeOK'
  <2>1. /\ request' \in [Client -> Message \cup {None}]
        /\ reply' \in [Client -> Message \cup {None}]
        /\ issuedTo' \in [Token -> Client \cup {None}]
        /\ granted' \in [Client -> 0..drawn']
        /\ drawn' \in 0..MaxTokens /\ token' = drawn'
    BY <1>1, HandshakeAssumption DEF TypeOK, ReadJoin, Token
  <2>2. ASSUME NEW x \in Client
        PROVE  /\ request'[x] \in {None, Join} \cup {Response(x, k) : k \in 1..drawn'}
               /\ reply'[x] \in {None} \cup {Challenge(k) : k \in 1..drawn'}
                                     \cup {Result(b) : b \in BOOLEAN}
    BY <1>1 DEF TypeOK, ReadJoin
  <2>3. ASSUME NEW x \in Client
        PROVE  /\ state'[x] = "joining" /\ reply'[x] # None => reply'[x].type = "Challenge"
               /\ state'[x] = "responding" /\ reply'[x] # None => reply'[x].type = "Result"
    BY <1>1, Messages DEF TypeOK, ReadJoin
  <2> QED
    BY <2>1, <2>2, <2>3 DEF TypeOK, ReadJoin
<1>3. Exchange'
  BY <1>1 DEF Exchange, ReadJoin, TypeOK, Has
<1>4. Owned'
  <2> SUFFICES ASSUME NEW x \in Client PROVE OwnedBy(x)'
    BY DEF Owned
  <2>1. OwnedBy(x) /\ \A k \in 1..drawn : issuedTo'[k] = issuedTo[k]
    BY <1>1 DEF ReadJoin, TypeOK, Token, Owned
  <2>2. ASSUME NEW k \in Token, reply'[x] = Challenge(k) PROVE issuedTo'[k] = x
    <3>1. CASE x = c
      <4>1. k = drawn + 1
        BY <1>1, <2>2, <3>1, Distinct DEF ReadJoin, TypeOK
      <4> QED
        BY <1>1, <3>1, <4>1 DEF ReadJoin, TypeOK
    <3>2. CASE x # c
      <4>1. reply[x] = Challenge(k)
        BY <2>2, <3>2 DEF ReadJoin, TypeOK
      <4> QED
        BY <4>1, <2>1, UsedTokens DEF OwnedBy
    <3> QED
      BY <3>1, <3>2
  <2>3. ASSUME NEW k \in Token, request'[x] = Response(x, k) PROVE issuedTo'[k] = x
    <3>1. request[x] = Response(x, k)
      BY <2>3, <1>1, Messages DEF ReadJoin, TypeOK
    <3> QED
      BY <3>1, <2>1, UsedTokens DEF OwnedBy
  <2>4. reply'[x] = Accepted => granted'[x] # 0
    BY <1>1, <2>1, Distinct DEF OwnedBy, ReadJoin, TypeOK
  <2>5. granted'[x] # 0 => issuedTo'[granted'[x]] = x
    <3>1. granted'[x] = granted[x] /\ (granted[x] # 0 => granted[x] \in 1..drawn)
      BY DEF ReadJoin, TypeOK
    <3> QED
      BY <3>1, <2>1 DEF OwnedBy
  <2>6. state'[x] = "authenticated" => granted'[x] # 0
    BY <2>1 DEF OwnedBy, ReadJoin
  <2> QED
    BY <2>2, <2>3, <2>4, <2>5, <2>6 DEF OwnedBy
<1>5. Awaited'
  BY <1>1, Messages DEF Awaited, ServerSurvives, Challenged, ReadJoin, TypeOK
<1> QED
  BY <1>2, <1>3, <1>4, <1>5

(* Nothing is owed to a client by what takes its messages away. *)
LEMMA OwnedKept ==
  ASSUME Owned, UNCHANGED <<issuedTo, granted>>,
         \A c \in Client : /\ reply'[c] \in {reply[c], None}
                           /\ request'[c] \in {request[c], None, Join}
                           /\ state'[c] = "authenticated" => granted[c] # 0
  PROVE  Owned'
<1> SUFFICES ASSUME NEW c \in Client PROVE OwnedBy(c)'
  BY DEF Owned
<1>1. OwnedBy(c)
  BY DEF Owned
<1>2. \A k \in Token : reply'[c] = Challenge(k) => issuedTo'[k] = c
  BY <1>1, Messages DEF OwnedBy
<1>3. \A k \in Token : request'[c] = Response(c, k) => issuedTo'[k] = c
  BY <1>1, Messages, Distinct DEF OwnedBy
<1>4. reply'[c] = Accepted => granted'[c] # 0
  BY <1>1, Messages DEF OwnedBy
<1> QED
  BY <1>1, <1>2, <1>3, <1>4 DEF OwnedBy

(* A response verifies when it signs the last challenge, which then was   *)
(* issued to the signer, whoever else answered or joined in between.      *)
LEMMA ReadResponseOK == ASSUME IInv, NEW c \in Client, ReadResponse(c) PROVE IInv'
<1> USE DEF IInv
<1>1. PICK k \in Token :
        /\ k <= drawn /\ request[c] = Response(c, k) /\ issuedTo[k] = c
        /\ reply[c] = None /\ state[c] = "responding"
  <2>1. PICK k \in Token : k <= drawn /\ request[c] = Response(c, k)
    BY MessageForms DEF ReadResponse
  <2>2. issuedTo[k] = c
    BY <2>1 DEF Owned, OwnedBy
  <2> QED
    BY <2>1, <2>2 DEF ReadResponse, Exchange, Has
<1>2. /\ token = k => /\ reply' = [reply EXCEPT ![c] = Accepted]
                     /\ granted' = [granted EXCEPT ![c] = k]
      /\ token # k => /\ reply' = [reply EXCEPT ![c] = Rejected]
                     /\ granted' = granted
  <2>1. request[c].signed = k
    BY <1>1, Messages
  <2>2. CASE token = k
    BY <2>1, <2>2 DEF ReadResponse, Verified, Accepted
  <2>3. CASE token # k
    BY <2>1, <2>3 DEF ReadResponse, Verified, Rejected
  <2> QED
    BY <2>2, <2>3
<1>3. TypeOK'
  <2>1. /\ request' = [request EXCEPT ![c] = None] /\ server' = "listening"
        /\ UNCHANGED <<state, token, drawn, issuedTo>>
    BY DEF ReadResponse
  <2>2. /\ request' \in [Client -> Message \cup {None}]
        /\ reply' \in [Client -> Message \cup {None}]
    <3>1. \E r \in {Accepted, Rejected} : reply' = [reply EXCEPT ![c] = r]
      BY <1>2
    <3> QED
      BY <2>1, <3>1, Messages DEF TypeOK
  <2>5. granted' \in [Client -> 0..drawn']
    BY <1>1, <1>2, <2>1, HandshakeAssumption DEF TypeOK, Token
  <2>3. ASSUME NEW x \in Client
        PROVE  /\ request'[x] \in {None, Join} \cup {Response(x, j) : j \in 1..drawn'}
               /\ reply'[x] \in {None} \cup {Challenge(j) : j \in 1..drawn'}
                                     \cup {Result(b) : b \in BOOLEAN}
    BY <1>2, <2>1, Results DEF TypeOK
  <2>4. ASSUME NEW x \in Client
        PROVE  /\ state'[x] = "joining" /\ reply'[x] # None => reply'[x].type = "Challenge"
               /\ state'[x] = "responding" /\ reply'[x] # None => reply'[x].type = "Result"
    BY <1>1, <1>2, <2>1, Messages DEF TypeOK
  <2> QED
    BY <2>1, <2>2, <2>3, <2>4, <2>5 DEF TypeOK
<1>4. Exchange'
  BY <1>1, <1>2, Messages DEF Exchange, ReadResponse, TypeOK, Has
<1>5. Owned'
  <2> SUFFICES ASSUME NEW x \in Client PROVE OwnedBy(x)'
    BY DEF Owned
  <2>1. OwnedBy(x)
    BY DEF Owned
  <2>2. CASE x # c
    BY <2>1, <2>2 DEF OwnedBy, ReadResponse, TypeOK
  <2>3. CASE x = c
    <3>1. request'[c] = None /\ issuedTo' = issuedTo /\ state' = state /\ k # 0
      BY DEF ReadResponse, TypeOK, Token
    <3>2. CASE token = k
      <4>1. reply'[c] = Accepted /\ granted'[c] = k
        BY <1>2, <3>2 DEF TypeOK
      <4> QED
        BY <1>1, <2>3, <3>1, <4>1, Messages, Distinct DEF OwnedBy
    <3>3. CASE token # k
      <4>1. reply'[c] = Rejected /\ granted' = granted
        BY <1>2, <3>3 DEF TypeOK
      <4> QED
        BY <2>1, <2>3, <3>1, <4>1, Messages, Distinct DEF OwnedBy
    <3> QED
      BY <3>2, <3>3
  <2> QED
    BY <2>2, <2>3
<1>6. Awaited'
  BY <1>1, <1>2, Messages DEF Awaited, ServerSurvives, Challenged, ReadResponse, TypeOK, Has
<1> QED
  BY <1>3, <1>4, <1>5, <1>6

(* A dropped request leaves the server listening, so nobody is awaited. *)
LEMMA ReadUnexpectedOK == ASSUME IInv, NEW c \in Client, ReadUnexpected(c) PROVE IInv'
<1> USE DEF IInv
<1>1. request[c] # None /\ reply[c] = None
  BY DEF ReadUnexpected, Exchange, Has
<1>2. TypeOK'
  BY <1>1, Messages, HandshakeAssumption DEF ReadUnexpected, TypeOK
<1>3. Exchange'
  BY <1>1, Messages DEF Exchange, ReadUnexpected, TypeOK, Has
<1>4. Owned'
  BY <1>1, OwnedKept DEF ReadUnexpected, TypeOK, Owned, OwnedBy
<1>5. Awaited'
  BY <1>1, Messages DEF Awaited, ServerSurvives, Challenged, ReadUnexpected, TypeOK, Has
<1> QED
  BY <1>2, <1>3, <1>4, <1>5

(* A new attempt starts with nothing of an earlier one under way. *)
LEMMA SendJoinOK == ASSUME IInv, NEW c \in Client, SendJoin(c) PROVE IInv'
<1> USE DEF IInv
<1>1. request[c] = None /\ reply[c] = None
  BY MessageForms DEF SendJoin, Exchange
<1>2. TypeOK'
  BY <1>1, Messages, HandshakeAssumption DEF SendJoin, TypeOK
<1>3. Exchange'
  BY <1>1, Messages DEF Exchange, SendJoin, TypeOK, Has
<1>4. Owned'
  BY <1>1, OwnedKept DEF SendJoin, TypeOK, Owned, OwnedBy
<1>5. Awaited'
  BY <1>1, Messages DEF Awaited, ServerSurvives, Challenged, SendJoin, TypeOK, Has
<1> QED
  BY <1>2, <1>3, <1>4, <1>5

(* The server that waits for the challenged client now waits for its response. *)
LEMMA SendResponseOK == ASSUME IInv, NEW c \in Client, SendResponse(c) PROVE IInv'
<1> USE DEF IInv
<1>1. PICK k \in Token : k <= drawn /\ reply[c] = Challenge(k)
  BY MessageForms DEF SendResponse
<1>2. issuedTo[k] = c /\ reply[c].token = k
  BY <1>1, Messages DEF Owned, OwnedBy
<1>3. TypeOK'
  <2>1. /\ state' = [state EXCEPT ![c] = "responding"]
        /\ request' = [request EXCEPT ![c] = Response(c, k)]
        /\ reply' = [reply EXCEPT ![c] = None]
        /\ UNCHANGED <<server, token, drawn, issuedTo, granted>>
    BY <1>2 DEF SendResponse
  <2>2. /\ state' \in [Client -> {"idle", "joining", "responding", "authenticated", "crashed"}]
        /\ request' \in [Client -> Message \cup {None}]
        /\ reply' \in [Client -> Message \cup {None}]
    BY <2>1, Messages DEF TypeOK
  <2>3. ASSUME NEW x \in Client
        PROVE  /\ request'[x] \in {None, Join} \cup {Response(x, j) : j \in 1..drawn'}
               /\ reply'[x] \in {None} \cup {Challenge(j) : j \in 1..drawn'}
                                     \cup {Result(b) : b \in BOOLEAN}
    BY <1>1, <2>1 DEF TypeOK, Token
  <2>4. ASSUME NEW x \in Client
        PROVE  /\ state'[x] = "joining" /\ reply'[x] # None => reply'[x].type = "Challenge"
               /\ state'[x] = "responding" /\ reply'[x] # None => reply'[x].type = "Result"
    BY <2>1 DEF TypeOK
  <2> QED
    BY <2>1, <2>2, <2>3, <2>4 DEF TypeOK
<1>4. Exchange'
  BY <1>1, <1>2, Messages DEF Exchange, SendResponse, TypeOK, Has
<1>5. Owned'
  <2> SUFFICES ASSUME NEW x \in Client PROVE OwnedBy(x)'
    BY DEF Owned
  <2>1. OwnedBy(x)
    BY DEF Owned
  <2>2. CASE x # c
    BY <2>1, <2>2 DEF OwnedBy, SendResponse, TypeOK
  <2>3. CASE x = c
    <3>1. /\ request'[c] = Response(c, k) /\ reply'[c] = None
          /\ state'[c] = "responding" /\ UNCHANGED <<issuedTo, granted>>
      BY <1>1, <1>2 DEF SendResponse, TypeOK
    <3> QED
      BY <1>1, <1>2, <2>1, <2>3, <3>1, Messages, Distinct DEF OwnedBy
  <2> QED
    BY <2>2, <2>3
<1>6. Awaited'
  BY <1>1, <1>2, Messages DEF Awaited, ServerSurvives, Challenged, SendResponse, TypeOK, Has
<1> QED
  BY <1>3, <1>4, <1>5, <1>6

(* A client believes what it was told, and Accepted was told on a grant. *)
LEMMA ReadResultOK == ASSUME IInv, NEW c \in Client, ReadResult(c) PROVE IInv'
<1> USE DEF IInv
<1>1. /\ reply[c] \in {Accepted, Rejected}
      /\ reply[c].authenticated => granted[c] # 0
  BY MessageForms, Messages DEF ReadResult, Owned, OwnedBy
<1>2. TypeOK'
  BY <1>1, Messages, HandshakeAssumption DEF ReadResult, TypeOK
<1>3. Exchange'
  BY <1>1, Messages DEF Exchange, ReadResult, TypeOK, Has
<1>4. Owned'
  BY <1>1, OwnedKept DEF ReadResult, TypeOK, Owned, OwnedBy
<1>5. Awaited'
  BY <1>1, Messages DEF Awaited, ServerSurvives, Challenged, ReadResult, TypeOK, Has
<1> QED
  BY <1>2, <1>3, <1>4, <1>5

(* An attempt is given up when nobody waits for it. *)
LEMMA AttemptTimesOutOK == ASSUME IInv, NEW c \in Client, AttemptTimesOut(c) PROVE IInv'
<1> USE DEF IInv
<1>1. reply[c] = None
  BY DEF AttemptTimesOut
<1>2. TypeOK'
  BY <1>1, Messages, HandshakeAssumption DEF AttemptTimesOut, TypeOK
<1>3. Exchange'
  BY <1>1, Messages DEF Exchange, AttemptTimesOut, TypeOK, Has
<1>4. Owned'
  BY <1>1, OwnedKept DEF AttemptTimesOut, TypeOK, Owned, OwnedBy
<1>5. Awaited'
  BY <1>1, Messages DEF Awaited, ServerSurvives, Challenged, AttemptTimesOut, TypeOK, Has
<1> QED
  BY <1>2, <1>3, <1>4, <1>5

(* The one the server waits for may be the one that goes away. *)
LEMMA CrashOK == ASSUME IInv, NEW c \in Client, Crash(c) PROVE IInv'
<1> USE DEF IInv
<1>1. state[c] # "authenticated"
  BY DEF Crash
<1>2. TypeOK'
  BY <1>1, Messages, HandshakeAssumption DEF Crash, TypeOK
<1>3. Exchange'
  BY <1>1, Messages DEF Exchange, Crash, TypeOK, Has
<1>4. Owned'
  BY <1>1, OwnedKept DEF Crash, TypeOK, Owned, OwnedBy
<1>5. Awaited'
  BY <1>1, Messages DEF Awaited, ServerSurvives, Challenged, Crash, TypeOK, Has
<1> QED
  BY <1>2, <1>3, <1>4, <1>5

(* All is quiet, so the one the server waits for has crashed. *)
LEMMA SecondRecvTimesOutOK == ASSUME IInv, SecondRecvTimesOut PROVE IInv'
<1> USE DEF IInv
<1>1. TypeOK'
  BY DEF SecondRecvTimesOut, TypeOK
<1>2. Exchange'
  BY DEF Exchange, SecondRecvTimesOut, Has
<1>3. Owned'
  BY DEF Owned, OwnedBy, SecondRecvTimesOut
<1>4. Awaited'
  BY DEF Awaited, ServerSurvives, Challenged, SecondRecvTimesOut, Quiet, Has
<1> QED
  BY <1>1, <1>2, <1>3, <1>4

(* IInv is inductive. *)
THEOREM Invariance == Spec => []IInv
<1>1. IInv /\ [Next]_vars => IInv'
  <2> SUFFICES ASSUME IInv, [Next]_vars PROVE IInv'
    OBVIOUS
  <2>1. ASSUME NEW c \in Client, ReadJoin(c) \/ ReadResponse(c) \/ ReadUnexpected(c)
        PROVE  IInv'
    BY <2>1, ReadJoinOK, ReadResponseOK, ReadUnexpectedOK
  <2>2. CASE SecondRecvTimesOut
    BY <2>2, SecondRecvTimesOutOK
  <2>3. ASSUME NEW c \in Client, ClientStep(c) PROVE IInv'
    BY <2>3, SendJoinOK, SendResponseOK, ReadResultOK, AttemptTimesOutOK DEF ClientStep
  <2>4. ASSUME NEW c \in Client, Crash(c) PROVE IInv'
    BY <2>4, CrashOK
  <2>5. CASE UNCHANGED vars
    BY <2>5 DEF vars, IInv, TypeOK, Exchange, Owned, OwnedBy, Awaited, ServerSurvives,
                Challenged, Has
  <2> QED
    BY <2>1, <2>2, <2>3, <2>4, <2>5 DEF Next, ServerStep
<1> QED
  BY InitOK, <1>1, PTL DEF Spec

(* What the socket carries stays well-typed: a client that waits for a     *)
(* challenge is sent no result, and the other way round.                   *)
THEOREM TypeCorrect == Spec => []TypeOK
BY Invariance, PTL DEF IInv

(* However the handshakes of any number of clients collide on the server's *)
(* one socket, a grant answers a challenge issued to the client it is for. *)
THEOREM GrantsAreTheirOwn == Spec => []GrantsAreOwn
<1>1. IInv => GrantsAreOwn
  BY DEF IInv, Owned, OwnedBy, GrantsAreOwn
<1> QED
  BY <1>1, Invariance, PTL

(* The server leaves its loop only after a client has gone away.           *)
THEOREM ServerOutlivesCollisions == Spec => []ServerSurvives
<1>1. IInv => ServerSurvives
  BY DEF IInv, Awaited
<1> QED
  BY <1>1, Invariance, PTL
==============================================================================
