----------------------------- MODULE MCTimerEv ------------------------------
(* TimerEv with a day of five seconds and ints of five bits.               *)
EXTENDS TimerEv

(* Two units: one divides the day into unequal parts, one is longer.       *)
SmallQuantifier == [s |-> 1, w |-> 6]

(* Every day, no day, a list of days.                                      *)
SmallLists == {<<"*">>, <<>>, <<",">>, <<"1", ",", "7">>}
=============================================================================
