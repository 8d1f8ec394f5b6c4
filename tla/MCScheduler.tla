---------------------------- MODULE MCScheduler ------------------------------
(* Instances of Scheduler for TLC.                                          *)
EXTENDS Scheduler

TimerOnly == {"ext"}
TimerAndProgramChecks == {"ext", "pc"}
TimerAndYield == {"ext", "yield"}
TimerChecksAndAwait == {"ext", "pc", "await"}
AllCauses == Causes
=============================================================================
