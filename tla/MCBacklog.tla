------------------------------ MODULE MCBacklog -----------------------------
(* Instances of AgenticBacklog for TLC: issue 1 is the most urgent. *)
EXTENDS AgenticBacklog
=============================================================================
