---------------------------- MODULE ClientPromise ----------------------------
(***************************************************************************)
(* What the hub promises the clients that submit tasks to it, without      *)
(* threads, sockets, buffers or workers.  Every request makes one task, of *)
(* the kind that was picked.  The task is offered to the client that made  *)
(* the request and to nobody else, and is taken at most once.  Every task  *)
(* has one outcome at most, and whoever watches it is told that one.       *)
(* Medium.tla implements this module under the mapping at its end.         *)
(***************************************************************************)
EXTENDS Sequences

CONSTANTS Client,   \* who submits
          TaskId,   \* identifiers of tasks
          Menu,     \* what can be asked for
          Ending,   \* the ways a task may end
          NoPick,   \* nothing picked
          NoTask    \* no task

VARIABLES place,    \* place[c]: "away", "menu", "waiting" or "watching"
          pick,     \* pick[c]: what c wants, NoPick in the menu
          has,      \* has[c]: the task c has taken, NoTask until it is offered one
          told,     \* told[c]: how c was told that task ended
          queue,    \* requests no task was made for yet
          made,     \* made[t]: the kind of task t, defined once it is made
          offers,   \* who may still take which task
          outcome   \* outcome[t]: empty, or the one way t ended

vars == <<place, pick, has, told, queue, made, offers, outcome>>

Kind(s) == [type |-> s.type, required |-> s.required]

Init ==
  /\ place = [c \in Client |-> "away"]
  /\ pick = [c \in Client |-> NoPick]
  /\ has = [c \in Client |-> NoTask]
  /\ told = [c \in Client |-> "nothing"]
  /\ queue = <<>>
  /\ made = [t \in {} |-> NoPick]
  /\ offers = {}
  /\ outcome = [t \in TaskId |-> {}]

Connect(c) ==
  /\ place[c] = "away"
  /\ place' = [place EXCEPT ![c] = "menu"]
  /\ UNCHANGED <<pick, has, told, queue, made, offers, outcome>>

Submit(c, s) ==
  /\ place[c] = "menu"
  /\ place' = [place EXCEPT ![c] = "waiting"]
  /\ pick' = [pick EXCEPT ![c] = s]
  /\ has' = [has EXCEPT ![c] = NoTask]
  /\ told' = [told EXCEPT ![c] = "nothing"]
  /\ queue' = Append(queue, [from |-> c, ask |-> s])
  /\ UNCHANGED <<made, offers, outcome>>

(* Requests are served in order; an identifier is used once. *)
Make(t) ==
  /\ queue # <<>> /\ t \notin DOMAIN made
  /\ queue' = Tail(queue)
  /\ made' = [k \in DOMAIN made \cup {t} |->
                IF k = t THEN Kind(Head(queue).ask) ELSE made[k]]
  /\ offers' = offers \cup {<<Head(queue).from, t>>}
  /\ UNCHANGED <<place, pick, has, told, outcome>>

(* An offer the client did not wait for is gone. *)
Withdraw(c, t) ==
  /\ <<c, t>> \in offers
  /\ offers' = offers \ {<<c, t>>}
  /\ UNCHANGED <<place, pick, has, told, queue, made, outcome>>

Take(c, t) ==
  /\ place[c] = "waiting" /\ <<c, t>> \in offers
  /\ made[t] = Kind(pick[c])
  /\ place' = [place EXCEPT ![c] = "watching"]
  /\ has' = [has EXCEPT ![c] = t]
  /\ offers' = offers \ {<<c, t>>}
  /\ UNCHANGED <<pick, told, queue, made, outcome>>

(* A task that was made ends, once. *)
Conclude(t, o) ==
  /\ t \in DOMAIN made /\ outcome[t] = {}
  /\ outcome' = [outcome EXCEPT ![t] = {o}]
  /\ UNCHANGED <<place, pick, has, told, queue, made, offers>>

Back(c) == /\ place' = [place EXCEPT ![c] = "menu"]
           /\ pick' = [pick EXCEPT ![c] = NoPick]
           /\ UNCHANGED <<has, queue, made, offers, outcome>>

Tell(c, o) == /\ place[c] = "watching" /\ outcome[has[c]] = {o}
              /\ told' = [told EXCEPT ![c] = o]
              /\ Back(c)

(* Waiting and watching both have their deadline. *)
GiveUp(c) == place[c] = "waiting" /\ UNCHANGED told /\ Back(c)
TimeOut(c) == /\ place[c] = "watching"
              /\ told' = [told EXCEPT ![c] = "timeout"]
              /\ Back(c)

Next == \/ \E c \in Client : Connect(c) \/ GiveUp(c) \/ TimeOut(c)
        \/ \E c \in Client, s \in Menu : Submit(c, s)
        \/ \E c \in Client, t \in TaskId : Take(c, t) \/ Withdraw(c, t)
        \/ \E c \in Client, o \in Ending : Tell(c, o)
        \/ \E t \in TaskId : Make(t)
        \/ \E t \in TaskId, o \in Ending : Conclude(t, o)

Spec == Init /\ [][Next]_vars
==============================================================================
