----------------------------- MODULE MCAlarmDev -----------------------------
(* The alarm device with alarms of all its types.                          *)
EXTENDS AlarmDev

MCTypes == 0 .. 4

=============================================================================
