------------------------------- MODULE MCTask -------------------------------
(***************************************************************************)
(* The instance of Task that TLC checks.  WORD stands for 2^64; an         *)
(* argument within 9 of it wraps around in task_sleep.                     *)
(***************************************************************************)
EXTENDS Task

MCSleepMs == {0, 15, 63}            \* one tick, two ticks, wrap-around
=============================================================================
