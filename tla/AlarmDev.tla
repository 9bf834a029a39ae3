------------------------------ MODULE AlarmDev ------------------------------
(***************************************************************************)
(* The alarm device (drivers/rtc/alarm-dev.c): the process that owns       *)
(* /dev/alarm (the AlarmManager service) sets and clears one alarm of each *)
(* type, and one of its threads waits for them.  A wake lock of five       *)
(* seconds keeps the system awake from an alarm until the process comes    *)
(* back to wait for the next one.                                          *)
(*                                                                         *)
(* Of alarm.c only what it promises is kept: an alarm that was started is  *)
(* queued until it is cancelled or, at any moment, goes off (module Alarm  *)
(* shows that it does).  The section under alarm_slock of each call is one *)
(* step, and so is the timer interrupt.                                    *)
(*                                                                         *)
(* Abstractions.  A mask of alarm types is the set of the types.  The      *)
(* wake lock's timeout may run out at any moment.  SET_AND_WAIT is SET     *)
(* followed by WAIT.  The ioctls that read clocks and the power-on alarm   *)
(* are left out.                                                           *)
(***************************************************************************)
EXTENDS Integers

CONSTANTS
    Types         \* the enum android_alarm_type that the process uses

ASSUME DevAssumption == Types \subseteq 0..4

VARIABLES
    queued,          \* the alarms that alarm.c holds
    alarm_opened,
    alarm_pending,
    alarm_enabled,
    wait_pending,
    alarm_wake_lock, \* "free", "timed" (active), or "expired"
    waiter,          \* where the thread in ANDROID_ALARM_WAIT is
    told,            \* history: WAIT has returned alarms, and was not called again
    setting,         \* a call of alarm_set_rtc is running
    asked,           \* history: alarms set, neither cleared nor gone off
    owed,            \* history: alarms gone off, neither cleared nor returned
    releasing,       \* the types alarm_release has still to cancel, or Idle
    cancelling       \* the type it is about to cancel, or NotCancelling

devVars == <<queued, alarm_opened, alarm_pending, alarm_enabled, wait_pending,
             alarm_wake_lock, waiter, told, setting, asked, owed, releasing,
             cancelling>>

TIME_CHANGE == 16
Idle == {-1}           \* alarm_release is not running
NotCancelling == -1

DevTypeOK ==
    /\ queued \subseteq Types
    /\ alarm_opened \in BOOLEAN
    /\ alarm_pending \subseteq Types \cup {TIME_CHANGE}
    /\ alarm_enabled \subseteq Types
    /\ wait_pending \in BOOLEAN
    /\ alarm_wake_lock \in {"free", "timed", "expired"}
    /\ waiter \in {"idle", "waiting", "asleep", "woken"}
    /\ told \in BOOLEAN /\ setting \in BOOLEAN
    /\ asked \subseteq Types /\ owed \subseteq Types
    /\ releasing = Idle \/ releasing \subseteq Types
    /\ cancelling \in Types \cup {NotCancelling}

DevInit ==
    /\ queued = {}
    /\ alarm_opened = FALSE /\ alarm_pending = {} /\ alarm_enabled = {}
    /\ wait_pending = FALSE /\ alarm_wake_lock = "free"
    /\ waiter = "idle" /\ told = FALSE /\ setting = FALSE
    /\ asked = {} /\ owed = {}
    /\ releasing = Idle /\ cancelling = NotCancelling

-----------------------------------------------------------------------------
(* alarm_ioctl.  The first call that needs it makes the file the owner of  *)
(* the device; the calls of any other file return -EBUSY, also while the   *)
(* owner's is being released.                                              *)
Ioctl ==
    /\ releasing = Idle
    /\ alarm_opened' = TRUE

ANDROID_ALARM_SET(t) ==
    /\ Ioctl
    /\ alarm_enabled' = alarm_enabled \cup {t}
    /\ queued' = queued \cup {t}
    /\ asked' = asked \cup {t}
    /\ UNCHANGED <<alarm_pending, wait_pending, alarm_wake_lock, waiter, told,
                   setting, owed, releasing, cancelling>>

(* Mutant: the lock is released with the last pending alarm, although the  *)
(* process still works on the ones it was told of.                         *)
ClearLock_ignores_wait(t) ==
    IF alarm_pending # {} /\ alarm_pending \ {t} = {} THEN "free" ELSE alarm_wake_lock

(* What a CLEAR of type t makes of the wake lock.                          *)
ClearLock(t) ==
    IF alarm_pending # {} /\ alarm_pending \ {t} = {} /\ ~wait_pending
    THEN "free" ELSE alarm_wake_lock

ANDROID_ALARM_CLEAR(t) ==
    /\ Ioctl
    /\ queued' = queued \ {t}
    /\ alarm_pending' = alarm_pending \ {t}
    /\ alarm_wake_lock' = ClearLock(t)
    /\ alarm_enabled' = alarm_enabled \ {t}
    /\ asked' = asked \ {t} /\ owed' = owed \ {t}
    /\ UNCHANGED <<wait_pending, waiter, told, setting, releasing, cancelling>>

(* ANDROID_ALARM_WAIT, up to wait_event_interruptible: the process is done *)
(* with what it was told.                                                  *)
WaitBegin ==
    /\ waiter = "idle"
    /\ Ioctl
    /\ waiter' = "waiting"
    /\ told' = FALSE
    /\ \/ /\ alarm_pending = {} /\ wait_pending
          /\ alarm_wake_lock' = "free"
          /\ wait_pending' = FALSE
       \/ /\ alarm_pending # {} \/ ~wait_pending
          /\ UNCHANGED <<alarm_wake_lock, wait_pending>>
    /\ UNCHANGED <<queued, alarm_pending, alarm_enabled, setting, asked, owed,
                   releasing, cancelling>>

(* The thread moves, and the device does not.                              *)
WaiterGoes(from, to) ==
    /\ waiter = from /\ waiter' = to
    /\ UNCHANGED <<queued, alarm_opened, alarm_pending, alarm_enabled,
                   wait_pending, alarm_wake_lock, told, setting, asked, owed,
                   releasing, cancelling>>

(* wait_event_interruptible: the thread is on alarm_wait_queue when it     *)
(* tests the condition, and goes on if it holds ...                        *)
WaitWoken == alarm_pending # {} /\ WaiterGoes("waiting", "woken")

(* ... or sleeps: a wake_up that comes after the test is not missed.       *)
WaitSleeps == alarm_pending = {} /\ WaiterGoes("waiting", "asleep")

(* A signal, or the freezer, wakes it too ...                              *)
Signal == WaiterGoes("asleep", "waiting")

(* ... and if nothing is pending the call returns -ERESTARTSYS.            *)
WaitInterrupted == alarm_pending = {} /\ WaiterGoes("waiting", "idle")

(* What becomes of the thread in a wake_up of alarm_wait_queue: it tests   *)
(* the condition again.                                                    *)
wake_up == IF waiter = "asleep" THEN "waiting" ELSE waiter

(* The pending alarms are returned; a CLEAR may have emptied them since.   *)
WaitReturns ==
    /\ waiter = "woken"
    /\ waiter' = "idle"
    /\ told' = (alarm_pending \cap Types # {})
    /\ owed' = owed \ alarm_pending
    /\ wait_pending' = TRUE
    /\ alarm_pending' = {}
    /\ UNCHANGED <<queued, alarm_opened, alarm_enabled, alarm_wake_lock, setting,
                   asked, releasing, cancelling>>

(* ANDROID_ALARM_SET_RTC needs no ownership: alarm_set_rtc (module Alarm)  *)
(* runs without a lock of this file ...                                    *)
SetRtcBegin ==
    /\ ~setting
    /\ setting' = TRUE
    /\ UNCHANGED <<queued, alarm_opened, alarm_pending, alarm_enabled,
                   wait_pending, alarm_wake_lock, waiter, told, asked, owed,
                   releasing, cancelling>>

(* Mutant: the pending alarms are overwritten.                             *)
SetRtcNotify_assigns ==
    /\ setting
    /\ setting' = FALSE
    /\ alarm_pending' = {TIME_CHANGE}
    /\ waiter' = wake_up
    /\ UNCHANGED <<queued, alarm_opened, alarm_enabled, wait_pending,
                   alarm_wake_lock, told, asked, owed, releasing, cancelling>>

(* Mutant: nobody is woken up.                                             *)
SetRtcNotify_silent ==
    /\ setting
    /\ setting' = FALSE
    /\ alarm_pending' = alarm_pending \cup {TIME_CHANGE}
    /\ UNCHANGED <<queued, alarm_opened, alarm_enabled, wait_pending,
                   alarm_wake_lock, waiter, told, asked, owed, releasing,
                   cancelling>>

(* ... and when it has returned, successfully or not, the waiting thread   *)
(* is told.  No wake lock is taken for it.                                 *)
SetRtcNotify ==
    /\ setting
    /\ setting' = FALSE
    /\ alarm_pending' = alarm_pending \cup {TIME_CHANGE}
    /\ waiter' = wake_up
    /\ UNCHANGED <<queued, alarm_opened, alarm_enabled, wait_pending,
                   alarm_wake_lock, told, asked, owed, releasing, cancelling>>

-----------------------------------------------------------------------------
(* alarm_release, when the last reference to the owner's file is dropped:  *)
(* nothing is owed to the process any more.  The lock is given up around   *)
(* each alarm_cancel.                                                      *)

ReleaseBegin ==
    /\ alarm_opened /\ waiter = "idle" /\ releasing = Idle
    /\ releasing' = Types
    /\ asked' = {} /\ owed' = {} /\ told' = FALSE
    /\ UNCHANGED <<queued, alarm_opened, alarm_pending, alarm_enabled,
                   wait_pending, alarm_wake_lock, waiter, setting, cancelling>>

(* The types are taken in ascending order, each disabled under the lock... *)
ReleaseDisable(t) ==
    /\ releasing # Idle /\ cancelling = NotCancelling
    /\ t \in releasing /\ \A u \in releasing : t <= u
    /\ alarm_enabled' = alarm_enabled \ {t}
    /\ releasing' = releasing \ {t}
    /\ cancelling' = t
    /\ UNCHANGED <<queued, alarm_opened, alarm_pending, wait_pending,
                   alarm_wake_lock, waiter, told, setting, asked, owed>>

(* ... and cancelled without it.                                           *)
ReleaseCancel ==
    /\ cancelling # NotCancelling
    /\ queued' = queued \ {cancelling}
    /\ cancelling' = NotCancelling
    /\ UNCHANGED <<alarm_opened, alarm_pending, alarm_enabled, wait_pending,
                   alarm_wake_lock, waiter, told, setting, asked, owed, releasing>>

(* Mutant: the lock is released only if alarms are pending, not while the  *)
(* process had still to come back from the ones it was told of.            *)
ReleaseLock_pending_only == IF alarm_pending # {} THEN "free" ELSE alarm_wake_lock

ReleaseLock ==
    IF alarm_pending # {} \/ wait_pending THEN "free" ELSE alarm_wake_lock

ReleaseEnd ==
    /\ releasing = {} /\ cancelling = NotCancelling
    /\ alarm_wake_lock' = ReleaseLock
    /\ wait_pending' = FALSE /\ alarm_pending' = {}
    /\ alarm_opened' = FALSE
    /\ releasing' = Idle
    /\ UNCHANGED <<queued, alarm_enabled, waiter, told, setting, asked, owed,
                   cancelling>>

-----------------------------------------------------------------------------
(* The timer interrupt: alarm.c takes the alarm off its queue and calls    *)
(* alarm_triggered.                                                        *)
alarm_triggered(t) ==
    /\ t \in queued
    /\ queued' = queued \ {t}
    /\ \/ /\ t \in alarm_enabled
          /\ alarm_wake_lock' = "timed"
          /\ alarm_enabled' = alarm_enabled \ {t}
          /\ alarm_pending' = alarm_pending \cup {t}
          /\ waiter' = wake_up
       \/ /\ t \notin alarm_enabled
          /\ UNCHANGED <<alarm_wake_lock, alarm_enabled, alarm_pending, waiter>>
    /\ asked' = asked \ {t}
    /\ owed' = owed \cup ({t} \cap asked)
    /\ UNCHANGED <<alarm_opened, wait_pending, told, setting, releasing,
                   cancelling>>

(* Five seconds after the last alarm.                                      *)
WakeLockExpires ==
    /\ alarm_wake_lock = "timed"
    /\ alarm_wake_lock' = "expired"
    /\ UNCHANGED <<queued, alarm_opened, alarm_pending, alarm_enabled,
                   wait_pending, waiter, told, setting, asked, owed, releasing,
                   cancelling>>

-----------------------------------------------------------------------------
ReleaseStep ==
    \/ \E t \in Types : ReleaseDisable(t)
    \/ ReleaseCancel
    \/ ReleaseEnd

DevNext ==
    \/ \E t \in Types : ANDROID_ALARM_SET(t) \/ ANDROID_ALARM_CLEAR(t)
    \/ WaitBegin \/ WaitWoken \/ WaitSleeps \/ Signal
    \/ WaitInterrupted \/ WaitReturns
    \/ SetRtcBegin \/ SetRtcNotify
    \/ ReleaseBegin \/ ReleaseStep
    \/ \E t \in Types : alarm_triggered(t)
    \/ WakeLockExpires

(* A release runs to its end, and a thread that is awake in the call goes  *)
(* on; one that sleeps is up to wake_up.                                   *)
DevFairness == WF_devVars(ReleaseStep) /\ WF_devVars(WaitWoken) /\ WF_devVars(WaitReturns)

DevSpec == DevInit /\ [][DevNext]_devVars /\ DevFairness

-----------------------------------------------------------------------------
(* From the interrupt of an alarm until the process has cleared it, or was *)
(* told of it and came back to wait, the wake lock is given up by nothing  *)
(* but its own timeout: not by a CLEAR of another type, by a WAIT that     *)
(* finds a new alarm pending, or by a change of the time in between.       *)
AlarmKeepsAwake ==
    releasing = Idle /\ (alarm_pending \cap Types # {} \/ told)
        => alarm_wake_lock # "free"

(* The alarms the process has set and neither cleared nor seen are the     *)
(* ones that the device and alarm.c know: none is lost or dropped by       *)
(* another call, none goes off after it was cleared.                       *)
NoAlarmLost ==
    /\ DevTypeOK
    /\ releasing = Idle =>
          /\ asked = alarm_enabled /\ asked = queued
          /\ owed = alarm_pending \cap Types

(* The wake lock never outlives its purpose: while it is active something  *)
(* is pending or the process has to come back to wait; and a process that  *)
(* closed the device, or died, leaves no alarm and no wake lock behind,    *)
(* although timers fire between the steps of alarm_release.                *)
NothingLeftBehind ==
    /\ alarm_wake_lock = "timed" => alarm_pending # {} \/ wait_pending
    /\ ~alarm_opened =>
          /\ alarm_wake_lock # "timed" /\ ~wait_pending
          /\ alarm_enabled = {} /\ queued = {}
          /\ alarm_pending \subseteq {TIME_CHANGE}

(* A thread that waits while something is pending gets its answer, unless  *)
(* the last pending alarm is cleared: no wake_up is missing or lost; and   *)
(* the device can be opened again after a release.                         *)
WaiterTold ==
    /\ waiter # "idle" /\ alarm_pending # {} ~> waiter = "idle" \/ alarm_pending = {}
    /\ releasing # Idle ~> ~alarm_opened

=============================================================================
