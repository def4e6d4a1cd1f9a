------------------------------ MODULE MCTimer ------------------------------
(* Three timers of one process: enough for a halted one, one that is running
   and one that waits for the thread. *)
EXTENDS Timer
CONSTANTS t1, t2, t3
=============================================================================
