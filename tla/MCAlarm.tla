------------------------------ MODULE MCAlarm -------------------------------
(* Model-checking instance of Alarm: half-second ticks, a wakeup alarm on  *)
(* each of the two clocks, which come apart when the time is set.          *)
EXTENDS Alarm
=============================================================================
