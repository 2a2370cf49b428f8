--------------------------- MODULE MCScheduleQueue ---------------------------
(* Small instances of ScheduleQueue for TLC.                               *)
EXTENDS ScheduleQueue

CONSTANTS Hourly, Daily

\* Two expressions with a common tick, so that an edit changes the next tick
\* without changing all of them.
MCCronTicks == [c \in Crons |-> IF c = Hourly THEN {1, 2, 3} ELSE {2, 3}]
=============================================================================
