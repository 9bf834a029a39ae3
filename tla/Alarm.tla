------------------------------- MODULE Alarm --------------------------------
(***************************************************************************)
(* Android alarms (drivers/rtc/alarm.c): one queue and one high-resolution *)
(* timer per alarm type, the RTC alarm that wakes a sleeping system, and   *)
(* setting the wall time without moving elapsed realtime.                  *)
(*                                                                         *)
(* The kernel is built for one processor: a section under alarm_slock and  *)
(* a timer or RTC interrupt are single steps.  What interleaves is the     *)
(* user's calls, alarm_set_rtc between its two locked sections, timers,    *)
(* the passing of time and the stages of a suspend.                        *)
(*                                                                         *)
(* Abstractions.  The only client of alarm.c is alarm-dev.c, which owns    *)
(* one alarm per type, so that a queue is empty or holds that alarm.  Time *)
(* is in ticks, Sec of them a second; the RTC counts whole seconds.        *)
(* CLOCK_MONOTONIC, the clock of SYSTEMTIME, stands still while the system *)
(* sleeps: its times are kept on the clock real, and move with it.  The    *)
(* clocks that alarm_suspend reads one after another are read in one tick. *)
(* The RTC rings once and is then disarmed.  The power-on alarm (types 2   *)
(* and 3 of rtc_set_alarm) and the registration of devices are left out.   *)
(***************************************************************************)
EXTENDS Integers, FiniteSets

CONSTANTS
    Sec,             \* ticks of a second
    BootTime,        \* wall time at boot
    MaxTime,         \* bound: ticks the model runs for
    NewTimes,        \* wall times that alarm_set_rtc is given
    MaxSetRtc,       \* bound: calls of alarm_set_rtc
    ClientTypes,     \* the types of the alarms that are set
    Delays           \* they are due so many ticks after boot

ASSUME AlarmAssumption ==
    /\ Sec \in Nat \ {0} /\ MaxTime \in Nat /\ MaxSetRtc \in Nat
    /\ BootTime \in Nat /\ NewTimes \subseteq Nat
    /\ ClientTypes \subseteq 0..4 /\ Delays \subseteq Nat

RTC_WAKEUP == 0
RTC == 1
ELAPSED_REALTIME_WAKEUP == 2
ELAPSED_REALTIME == 3
SYSTEMTIME == 4
Types == 0..4

Wakeup == {RTC_WAKEUP, ELAPSED_REALTIME_WAKEUP}
Elapsed == {ELAPSED_REALTIME_WAKEUP, ELAPSED_REALTIME}

VARIABLES
    real,         \* ticks since boot, the time outside
    wall_offset,  \* CLOCK_REALTIME - real
    rtc_offset,   \* the RTC's time, in ticks - real
    rtc_alarm,    \* second at which the RTC rings, or NotSet
    expires,      \* per type: when the queued alarm is due, or NotQueued
    timer,        \* per type: the hrtimer
    delta,        \* per type: clock of the timer - clock of the alarms
    stopped,      \* stopped, of all queues but SYSTEMTIME
    stopped_time, \* 0 while the queues are not stopped
    suspended,
    rtc_lock,     \* alarm_rtc_wake_lock: ticks left, 0 if inactive, or Held
    setting,      \* where alarm_set_rtc is, the time it was given, its ret
    sets,         \* calls of alarm_set_rtc so far
    set_failed,   \* history: do_settimeofday has failed
    lag,          \* history: ticks that passed while the queues were stopped
    pm,           \* stage of the suspend
    device_ticks  \* history: ticks from alarm_suspend to the last check of wake locks

alarmVars == <<real, wall_offset, rtc_offset, rtc_alarm, expires, timer,
               delta, stopped, stopped_time, suspended, rtc_lock, setting, sets,
               set_failed, lag, pm, device_ticks>>

clockVars == <<real, wall_offset, rtc_offset, lag>>
setVars   == <<setting, sets, set_failed, stopped, stopped_time, delta>>
pmVars    == <<pm, device_ticks, suspended, rtc_alarm>>

-----------------------------------------------------------------------------
(* State.                                                                  *)

NotQueued == -1
NotSet == -1
Held == -1

(* Tasks run; suspend has seen no wake lock and freezes the tasks; they    *)
(* are frozen; alarm_suspend has set suspended; it has cancelled timers;   *)
(* it has returned 0; the processor is off; it is on again, alarm_resume   *)
(* not yet called.                                                         *)
Stages == {"run", "entering", "frozen", "begun", "cancelled", "suspended",
           "asleep", "resuming"}

(* alarm_set_rtc: not running; queues stopped; time set (or not); queues   *)
(* restarted.                                                              *)
SetStages == {"idle", "stopped", "timed", "restarted"}

AlarmTypeOK ==
    /\ real \in 0..MaxTime /\ lag \in 0..real
    /\ wall_offset \in Int /\ rtc_offset \in Int /\ rtc_alarm \in Int
    /\ expires \in [Types -> Int]
    /\ timer \in [Types -> [armed : BOOLEAN, expires : Int]]
    /\ delta \in [Types -> Int]
    /\ stopped \in BOOLEAN /\ stopped_time \in Int
    /\ suspended \in BOOLEAN
    /\ rtc_lock \in {Held} \cup 0..(2 * Sec)
    /\ setting \in [at : SetStages, new : NewTimes \cup {0}, ok : BOOLEAN]
    /\ sets \in 0..MaxSetRtc /\ set_failed \in BOOLEAN
    /\ pm \in Stages /\ device_ticks \in 0..real

NotSetting == [at |-> "idle", new |-> 0, ok |-> TRUE]

(* alarm_driver_init and alarm_late_init have run.                         *)
AlarmInit ==
    /\ real = 0 /\ lag = 0
    /\ wall_offset = BootTime /\ rtc_offset = BootTime /\ rtc_alarm = NotSet
    /\ expires = [t \in Types |-> NotQueued]
    /\ timer = [t \in Types |-> [armed |-> FALSE, expires |-> 0]]
    /\ delta = [t \in Types |-> IF t \in Elapsed THEN BootTime ELSE 0]
    /\ stopped = FALSE /\ stopped_time = 0
    /\ suspended = FALSE
    /\ rtc_lock = 0
    /\ setting = NotSetting /\ sets = 0 /\ set_failed = FALSE
    /\ pm = "run" /\ device_ticks = 0

-----------------------------------------------------------------------------
(* Clocks.                                                                 *)

wall == real + wall_offset

(* The base of the timer of type t.                                        *)
Clock(t) == IF t = SYSTEMTIME THEN real ELSE wall

(* rtc_read_time: whole seconds.                                           *)
rtc_time == (real + rtc_offset) \div Sec

alarm_get_elapsed_realtime ==
    (IF stopped THEN stopped_time ELSE wall) - delta[ELAPSED_REALTIME]

Stopped(t) == stopped /\ t # SYSTEMTIME

RtcRinging == rtc_alarm = rtc_time

-----------------------------------------------------------------------------
(* update_timer_locked for queue t, when its alarm is due at e (or         *)
(* NotQueued), its delta is d, and the two flags have these values: what   *)
(* becomes of its timer, which was tm, and of alarm_rtc_wake_lock.         *)

UpdateTimer(t, e, tm, d, stop, susp) ==
    IF stop \/ e = NotQueued \/ (t \in Wakeup /\ susp) THEN tm
    ELSE [armed |-> TRUE, expires |-> d + e]

UpdateLock(t, e, lock, stop, susp, head_removed) ==
    IF stop \/ t \notin Wakeup THEN lock
    ELSE IF susp THEN IF e # NotQueued THEN Sec ELSE lock
    ELSE IF head_removed THEN 0 ELSE lock

update_timer_locked(t, e, tm, head_removed) ==
    /\ timer' = [timer EXCEPT ![t] =
                    UpdateTimer(t, e, tm, delta[t], Stopped(t), suspended)]
    /\ rtc_lock' = UpdateLock(t, e, rtc_lock, Stopped(t), suspended, head_removed)

UserRuns == pm \in {"run", "entering"}

(* The alarm is taken out first if it was queued.                          *)
alarm_start_range(t, e) ==
    /\ UserRuns
    /\ expires' = [expires EXCEPT ![t] = e]
    /\ update_timer_locked(t, e, timer[t], expires[t] # NotQueued)
    /\ UNCHANGED <<clockVars, setVars, pmVars>>

(* The timer of the emptied queue is left running.                         *)
alarm_try_to_cancel(t) ==
    /\ UserRuns
    /\ expires[t] # NotQueued
    /\ expires' = [expires EXCEPT ![t] = NotQueued]
    /\ update_timer_locked(t, NotQueued, timer[t], TRUE)
    /\ UNCHANGED <<clockVars, setVars, pmVars>>

-----------------------------------------------------------------------------
(* Interrupts and time.                                                    *)

(* The alarm of queue t that the callback finds due.                       *)
Due(t) ==
    /\ expires[t] # NotQueued
    /\ expires[t] <= (IF Stopped(t) THEN stopped_time ELSE Clock(t)) - delta[t]

alarm_timer_triggered(t) ==
    LET left == IF Due(t) THEN NotQueued ELSE expires[t]
    IN  /\ pm # "asleep"
        /\ timer[t].armed /\ timer[t].expires <= Clock(t)
        /\ expires' = [expires EXCEPT ![t] = left]
        /\ update_timer_locked(t, left, [timer[t] EXCEPT !.armed = FALSE], TRUE)
        /\ UNCHANGED <<clockVars, setVars, pmVars>>

(* alarm_triggered_func, while the processor is on.                        *)
alarm_triggered_func ==
    /\ pm # "asleep"
    /\ RtcRinging
    /\ rtc_lock' = Sec
    /\ rtc_alarm' = NotSet
    /\ UNCHANGED <<clockVars, setVars, pm, device_ticks, suspended, expires, timer>>

(* A tick.  The RTC's interrupt is never late; asleep, CLOCK_MONOTONIC and *)
(* the wake lock timers stand still.                                       *)
Tick ==
    /\ real < MaxTime
    /\ ~RtcRinging
    /\ real' = real + 1
    /\ IF pm = "asleep"
       THEN /\ expires' = [expires EXCEPT ![SYSTEMTIME] =
                              IF @ = NotQueued THEN @ ELSE @ + 1]
            /\ timer' = [timer EXCEPT ![SYSTEMTIME].expires =
                            IF timer[SYSTEMTIME].armed THEN @ + 1 ELSE @]
       ELSE UNCHANGED <<expires, timer>>
    /\ lag' = IF stopped /\ setting.at = "stopped" THEN lag + 1 ELSE lag
    /\ rtc_lock' = IF pm # "asleep" /\ rtc_lock > 0 THEN rtc_lock - 1 ELSE rtc_lock
    /\ device_ticks' = IF pm = "suspended" THEN device_ticks + 1 ELSE device_ticks
    /\ UNCHANGED <<wall_offset, rtc_offset, setVars, pm, suspended, rtc_alarm>>

-----------------------------------------------------------------------------
(* alarm_set_rtc.                                                          *)

(* Mutant: the difference is added.                                        *)
NewDelta_adds(new) == delta[ELAPSED_REALTIME] + (wall - new)

(* Elapsed realtime is tied to the wall time that is about to be set.      *)
NewDelta(new) == delta[ELAPSED_REALTIME] - (wall - new)

(* The first locked section: the timers are cancelled.                     *)
SetRtcStop(new) ==
    /\ UserRuns
    /\ setting.at = "idle" /\ sets < MaxSetRtc
    /\ setting' = [at |-> "stopped", new |-> new, ok |-> TRUE]
    /\ sets' = sets + 1
    /\ rtc_lock' = Held
    /\ timer' = [t \in Types |-> IF t = SYSTEMTIME THEN timer[t]
                                 ELSE [timer[t] EXCEPT !.armed = FALSE]]
    /\ stopped' = TRUE /\ stopped_time' = wall
    /\ delta' = [t \in Types |-> IF t \in Elapsed
                                 THEN NewDelta(new) ELSE delta[t]]
    /\ UNCHANGED <<clockVars, pmVars, expires, set_failed>>

(* do_settimeofday, which can refuse the time.                             *)
SetRtcTime(ok) ==
    /\ setting.at = "stopped"
    /\ setting' = [setting EXCEPT !.at = "timed", !.ok = ok]
    /\ wall_offset' = IF ok THEN setting.new - real ELSE wall_offset
    /\ set_failed' = (set_failed \/ ~ok)
    /\ UNCHANGED <<real, rtc_offset, lag, pmVars, expires, timer, rtc_lock,
                   stopped, stopped_time, delta, sets>>

(* Mutant: the timers are not started again.                               *)
SetRtcRestart_forgets_timers ==
    /\ setting.at = "timed"
    /\ setting' = [setting EXCEPT !.at = "restarted"]
    /\ stopped' = FALSE /\ stopped_time' = 0
    /\ UNCHANGED <<clockVars, pmVars, expires, delta, sets, set_failed, rtc_lock,
                   timer>>

(* The second locked section.                                              *)
SetRtcRestart ==
    /\ setting.at = "timed"
    /\ setting' = [setting EXCEPT !.at = "restarted"]
    /\ stopped' = FALSE /\ stopped_time' = 0
    /\ timer' = [t \in Types |->
                    IF t = SYSTEMTIME THEN timer[t]
                    ELSE UpdateTimer(t, expires[t], timer[t], delta[t], FALSE, suspended)]
    /\ UNCHANGED <<clockVars, pmVars, expires, delta, sets, set_failed, rtc_lock>>

(* rtc_set_time, unless the time was refused, and wake_unlock.             *)
SetRtcDone(ok) ==
    /\ setting.at = "restarted"
    /\ setting' = NotSetting
    /\ rtc_offset' = IF ok THEN (setting.new \div Sec) * Sec - real ELSE rtc_offset
    /\ ok => setting.ok
    /\ rtc_lock' = 0
    /\ UNCHANGED <<real, wall_offset, lag, pmVars, expires, timer, stopped,
                   stopped_time, delta, sets, set_failed>>

-----------------------------------------------------------------------------
(* Suspend and resume.                                                     *)

(* The stages of the suspend around the driver's callbacks.  A task in     *)
(* alarm_set_rtc cannot be frozen.                                         *)
SuspendEnter ==
    /\ pm = "run" /\ rtc_lock = 0
    /\ pm' = "entering"
    /\ UNCHANGED <<clockVars, setVars, device_ticks, suspended, rtc_alarm,
                   expires, timer, rtc_lock>>

TasksFrozen ==
    /\ pm = "entering" /\ setting.at = "idle"
    /\ pm' = "frozen"
    /\ UNCHANGED <<clockVars, setVars, device_ticks, suspended, rtc_alarm,
                   expires, timer, rtc_lock>>

(* Freezing, or suspending a device before or after this one, fails, or    *)
(* some other wake lock aborts the suspend.                                *)
SuspendFails ==
    /\ \/ pm \in {"entering", "frozen"} /\ pm' = "run"
       \/ pm = "suspended" /\ pm' = "resuming"
    /\ device_ticks' = 0
    /\ UNCHANGED <<clockVars, setVars, suspended, rtc_alarm,
                   expires, timer, rtc_lock>>

(* alarm_suspend.  Timers can still fire before they are cancelled.        *)
AlarmSuspendBegin ==
    /\ pm = "frozen"
    /\ pm' = "begun"
    /\ suspended' = TRUE
    /\ UNCHANGED <<clockVars, setVars, device_ticks, rtc_alarm, expires, timer,
                   rtc_lock>>

(* The second index is a mask by mistake, (1 << ELAPSED_REALTIME_WAKEUP),  *)
(* which is 4: it is the timer of SYSTEMTIME that is cancelled (l.375).    *)
ELAPSED_REALTIME_WAKEUP_MASK == 4

AlarmSuspendCancel ==
    /\ pm = "begun"
    /\ pm' = "cancelled"
    /\ timer' = [timer EXCEPT ![RTC_WAKEUP].armed = FALSE,
                              ![ELAPSED_REALTIME_WAKEUP_MASK].armed = FALSE]
    /\ UNCHANGED <<clockVars, setVars, device_ticks, suspended, rtc_alarm,
                   expires, rtc_lock>>

(* The wakeup queue whose timer is set for the earlier time.               *)
WakeupQueues == {t \in Wakeup : expires[t] # NotQueued}

IsWakeupQueue(q) ==
    /\ q \in WakeupQueues
    /\ IF q = RTC_WAKEUP
       THEN \A t \in WakeupQueues : timer[q].expires <= timer[t].expires
       ELSE \A t \in WakeupQueues \ {q} : timer[q].expires < timer[t].expires

(* Mutant: the delta between the wall clock and the RTC has the wrong sign. *)
RtcAlarmTime_adds(q) ==
    (timer[q].expires + (wall - rtc_time * Sec)) \div Sec

(* The timer's expiry on the RTC's clock, in whole seconds.                *)
RtcAlarmTime(q) ==
    (timer[q].expires - (wall - rtc_time * Sec)) \div Sec

(* The rest: the RTC is set for the first wakeup alarm, unless that is     *)
(* about to go off.                                                        *)
AlarmSuspend ==
    /\ pm = "cancelled"
    /\ \/ /\ WakeupQueues = {}
          /\ pm' = "suspended"
          /\ UNCHANGED <<rtc_alarm, timer, rtc_lock, suspended>>
       \/ \E q \in Wakeup :
          /\ IsWakeupQueue(q)
          /\ rtc_alarm' = RtcAlarmTime(q)
          /\ \/ /\ rtc_time + 1 < RtcAlarmTime(q)
                /\ pm' = "suspended"
                /\ UNCHANGED <<timer, rtc_lock, suspended>>
             \/ /\ rtc_time + 1 >= RtcAlarmTime(q)
                /\ pm' = "run"
                /\ suspended' = FALSE
                /\ rtc_lock' = 2 * Sec
                /\ timer' = [t \in Types |->
                                IF t \in Wakeup
                                THEN UpdateTimer(t, expires[t], timer[t], delta[t],
                                                 stopped, FALSE)
                                ELSE timer[t]]
    /\ UNCHANGED <<clockVars, setVars, device_ticks, expires>>

(* power_suspend_late: an active wake lock aborts the suspend.             *)
SuspendLate ==
    /\ pm = "suspended"
    /\ pm' = IF rtc_lock # 0 THEN "resuming" ELSE "asleep"
    /\ device_ticks' = IF rtc_lock # 0 THEN 0 ELSE device_ticks
    /\ UNCHANGED <<clockVars, setVars, suspended, rtc_alarm,
                   expires, timer, rtc_lock>>

(* The RTC wakes the system and its interrupt handler runs.                *)
RtcWakes ==
    /\ pm = "asleep" /\ RtcRinging
    /\ pm' = "resuming"
    /\ rtc_lock' = Sec /\ rtc_alarm' = NotSet
    /\ device_ticks' = 0
    /\ UNCHANGED <<clockVars, setVars, suspended, expires, timer>>

(* Some other interrupt does.                                              *)
OtherWakes ==
    /\ pm = "asleep"
    /\ pm' = "resuming"
    /\ device_ticks' = 0
    /\ UNCHANGED <<clockVars, setVars, suspended, rtc_alarm,
                   expires, timer, rtc_lock>>

(* Mutant: only one of the two wakeup queues gets its timer back.          *)
alarm_resume_one_queue ==
    /\ pm = "resuming"
    /\ pm' = "run"
    /\ suspended' = FALSE
    /\ timer' = [t \in Types |->
                    IF t = ELAPSED_REALTIME_WAKEUP
                    THEN UpdateTimer(t, expires[t], timer[t], delta[t], stopped, FALSE)
                    ELSE timer[t]]
    /\ UNCHANGED <<clockVars, setVars, device_ticks, rtc_alarm, expires, rtc_lock>>

alarm_resume ==
    /\ pm = "resuming"
    /\ pm' = "run"
    /\ suspended' = FALSE
    /\ timer' = [t \in Types |->
                    IF t \in Wakeup
                    THEN UpdateTimer(t, expires[t], timer[t], delta[t], stopped, FALSE)
                    ELSE timer[t]]
    /\ UNCHANGED <<clockVars, setVars, device_ticks, rtc_alarm, expires, rtc_lock>>

-----------------------------------------------------------------------------
(* Due times on the clock of the type.                                     *)
ClientTimes(t) == {IF t \in {RTC_WAKEUP, RTC} THEN BootTime + d ELSE d : d \in Delays}

SetRtcStep ==
    SetRtcRestart \/ \E ok \in BOOLEAN : SetRtcTime(ok) \/ SetRtcDone(ok)

SuspendStep ==
    \/ TasksFrozen \/ AlarmSuspendBegin \/ AlarmSuspendCancel \/ AlarmSuspend
    \/ SuspendLate \/ RtcWakes \/ alarm_resume

AlarmNext ==
    \/ \E t \in ClientTypes : \/ \E e \in ClientTimes(t) : alarm_start_range(t, e)
                              \/ alarm_try_to_cancel(t)
    \/ \E t \in Types : alarm_timer_triggered(t)
    \/ \E new \in NewTimes : SetRtcStop(new)
    \/ SetRtcStep
    \/ Tick \/ alarm_triggered_func
    \/ SuspendEnter \/ SuspendFails \/ SuspendStep \/ OtherWakes

(* What the kernel has begun goes on, and the interrupt of a timer that is *)
(* due is taken as soon as interrupts are enabled: a suspend that cancels  *)
(* and restarts the timer cannot put it off for ever.  No fairness for the *)
(* client's calls nor for time.                                            *)
AlarmFairness ==
    /\ \A t \in Wakeup : SF_alarmVars(alarm_timer_triggered(t))
    /\ WF_alarmVars(SuspendStep)
    /\ WF_alarmVars(SetRtcStep)

AlarmSpec == AlarmInit /\ [][AlarmNext]_alarmVars /\ AlarmFairness

-----------------------------------------------------------------------------
(* Properties.                                                             *)

(* The wall time at which the alarm of queue t is due.                     *)
DueTime(t) == expires[t] + delta[t]

(* The one way to oversleep.  The RTC may ring before the processor is    *)
(* off, and its wake lock then keeps the system up for a second (l.352).   *)
(* Nothing bounds the time that the other devices take after               *)
(* alarm_suspend: the watchdog of drivers/base/power/main.c:528-543 allows *)
(* three seconds to each of them.  When it is more than two, that lock can *)
(* be gone at the last check.                                              *)
RangTooEarly ==
    pm = "asleep" /\ rtc_alarm = NotSet /\ device_ticks > 2 * Sec

(* Whatever set, moved or cancelled alarms and clocks before, a sleeping   *)
(* system is woken by the RTC in time for every wakeup alarm (l.355-427),  *)
(* but for the one case above.                                             *)
NeverSleepsPastAlarm ==
    pm = "asleep" => RangTooEarly \/ \A t \in WakeupQueues : wall <= DueTime(t)

(* Every queue that is neither stopped nor suspended has its timer running *)
(* for its alarm.  SYSTEMTIME is the exception: l.375 cancels its timer    *)
(* and alarm_resume does not start it.                                     *)
TimersArmed ==
    /\ AlarmTypeOK
    /\ \A t \in Types \ {SYSTEMTIME} :
          expires[t] # NotQueued /\ ~Stopped(t) /\ ~(t \in Wakeup /\ suspended)
          => timer[t] = [armed |-> TRUE, expires |-> DueTime(t)]

(* alarm_set_rtc moves the wall time under the alarms but not elapsed      *)
(* realtime, which loses only the time that passes between reading the     *)
(* clock (l.251) and setting it (l.262).                                   *)
ElapsedPreserved ==
    ~stopped /\ ~set_failed => alarm_get_elapsed_realtime = real - lag

(* A wakeup alarm that is due goes off, unless it is cancelled or its time *)
(* is moved: through stopped queues, suspends that are aborted, and        *)
(* resumes; but for a system that oversleeps.                              *)
DueAlarmsGoOff ==
    \A t \in Wakeup : Due(t) ~> ~Due(t) \/ RangTooEarly

=============================================================================
