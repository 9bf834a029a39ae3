CONSTANTS
    Sec = 2
    BootTime = 4
    MaxTime = 7
    NewTimes = {2, 9}
    MaxSetRtc = 1
    ClientTypes = {0, 2}
    Delays = {5}
SPECIFICATION AlarmSpec
INVARIANTS NeverSleepsPastAlarm TimersArmed ElapsedPreserved
PROPERTY DueAlarmsGoOff
CHECK_DEADLOCK FALSE
