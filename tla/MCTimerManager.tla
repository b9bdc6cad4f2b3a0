--------------------------- MODULE MCTimerManager ---------------------------
(* Model values for TimerManager: two timers, whose numbers stand for their
   addresses, and one period. *)
EXTENDS TimerManager

TwoTimers == {1, 2}
OnePeriod == {1}
=============================================================================
