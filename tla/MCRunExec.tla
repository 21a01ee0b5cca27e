------------------------------ MODULE MCRunExec -----------------------------
(* Instances of RunExec for TLC: the constants are numbers and Booleans, so
   the configurations give them directly. *)
EXTENDS RunExec
=============================================================================
