---------------------------- MODULE MCSchedShell ----------------------------
(***************************************************************************)
(* A small instance of SchedShell: two slots and memory for two processes, *)
(* enough for the shell's target to be taken over by a fork, dispatched,   *)
(* or reaped between any two steps of a shell command.                     *)
(***************************************************************************)
EXTENDS SchedShell
=============================================================================
