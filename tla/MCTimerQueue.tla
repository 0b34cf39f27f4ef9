---------------------------- MODULE MCTimerQueue ----------------------------
(***************************************************************************)
(* TimerQueue with three timers over a few ticks of the clock.  No two     *)
(* timers differ in anything but their name.                               *)
(***************************************************************************)
EXTENDS TimerQueue, TLC

TimerSymmetry == Permutations(Timers)
=============================================================================
