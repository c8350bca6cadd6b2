----------------------------- MODULE MCScheduler -----------------------------
(* The instance of Scheduler that TLC checks.  A tick is fifteen seconds:  *)
(* a minute has four, the loop sleeps two, and the clock starts at one     *)
(* minute.                                                                 *)
EXTENDS Scheduler

(* A cron expression with second 0 that fires twice, and one that fires at *)
(* second 45.                                                              *)
MCCrons == {{4, 8}, {7}}
=============================================================================
