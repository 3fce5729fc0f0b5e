---------------------------- MODULE MCScheduler ----------------------------
(* Instances of Scheduler for TLC.                                         *)
EXTENDS Scheduler

\* Values of ClockSteps: an exact clock, and one that has to
\* be set back by more than the time between two ticks.
NoClockStep == {0}
SmallClockSteps == {-2, 0}
=============================================================================
