-------------------------------- MODULE MCHub --------------------------------
(* Instances of Hub for TLC. *)
EXTENDS Hub, TLC

CONSTANTS n1, n2, t1, t2, t3, c1, ollama, p1, ckpt

(* Both nodes offer c1; only the leader n1 offers the model runner.        *)
MixedAdvertised == (n1 :> {c1, ollama}) @@ (n2 :> {c1})
AllAdvertised == [w \in NodeId |-> {c1}]

HubProfiles == {Profile(w) : w \in NodeId}

(* A submission as run_medium_server makes it *)
Submission(type, required) ==
  [type |-> type, payload |-> p1, maxRetries |-> 3, required |-> required]
MixedSubmissions == {Submission("StatefulLongRunning", {c1}),
                     Submission("StatelessIdempotent", {ollama})}
PlainSubmissions == {Submission("StatelessIdempotent", {c1})}
==============================================================================
