------------------------------ MODULE MCElection ------------------------------
(* Instances of Election for TLC; ids are numbers, so nothing is symmetric. *)
EXTENDS Election
==============================================================================
