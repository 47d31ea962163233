------------------------------ MODULE MCSched ------------------------------
(***************************************************************************)
(* Small instances of Sched.  Two table slots beyond the boot process let  *)
(* the table fill up and zombies be reclaimed; the frame count lets two    *)
(* processes live, a third fail for lack of tables, and an exec fail at    *)
(* each of its three allocations.                                          *)
(***************************************************************************)
EXTENDS Sched
=============================================================================
