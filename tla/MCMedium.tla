------------------------------- MODULE MCMedium -------------------------------
(* Instances of Medium for TLC. *)
EXTENDS MCHub, Medium

CONSTANT u1

(* The leader n1 is a Mac and n2 a Linux machine: both have the model      *)
(* runner on PATH and offer it, but the probe looks for its bundle.        *)
BothAdvertised == [w \in NodeId |-> {c1, ollama}]

(* The third choice of the menu where every worker can run it, and what is *)
(* sent for it                                                             *)
InteractiveMenu == {Submission("InteractiveLowLatency", {c1})}

(* Identifiers are drawn and compared, never ordered. *)
TaskSymmetry == Permutations({t1, t2})
==============================================================================
