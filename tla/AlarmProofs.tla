----------------------------- MODULE AlarmProofs -----------------------------
(***************************************************************************)
(* Proofs about Alarm, for every length of a second, boot time, client and *)
(* set of times to set.                                                    *)
(*                                                                         *)
(* The three properties rest on one invariant.  Timers: they are right     *)
(* where TimersArmed says, and in alarm_suspend the expiry of a timer that *)
(* is not running any more is still the one to give to the RTC.  Time:     *)
(* while the queues are stopped, elapsed realtime is already tied to the   *)
(* time that is going to be set.  Sleep: from alarm_suspend on, either the *)
(* RTC has still to ring, and will before the first alarm is due, or it    *)
(* has rung and its wake lock is held until two seconds after              *)
(* alarm_suspend.                                                          *)
(***************************************************************************)
EXTENDS Alarm, TLAPS

(* The stages in which alarm_suspend has set suspended.                    *)
Down == {"begun", "cancelled", "suspended", "asleep", "resuming"}

(* Who may run when: alarm_set_rtc not beyond the freezing of the tasks.   *)
StageInv ==
    /\ suspended <=> pm \in Down
    /\ pm \notin {"run", "entering"} => setting.at = "idle"
    /\ pm \notin {"suspended", "asleep"} => device_ticks = 0
    /\ pm = "asleep" => rtc_lock = 0
    /\ stopped <=> setting.at \in {"stopped", "timed"}

(* Unless setting the time has failed once, elapsed realtime is real time  *)
(* less the time lost; and it will be, at the moment the new time is set.  *)
ElapsedInv ==
    ~set_failed =>
        delta[ELAPSED_REALTIME] =
            lag + IF setting.at = "stopped" THEN setting.new - real ELSE wall_offset

(* alarm_suspend finds the expiry of a wakeup alarm in its timer, although *)
(* that may have been cancelled or have fired.                             *)
StaleInv ==
    pm \in {"begun", "cancelled"} =>
        \A t \in WakeupQueues : timer[t].expires = DueTime(t)

(* The time of the RTC in ticks.                                           *)
RtcTicks == real + rtc_offset

(* The RTC has still to ring, in time for every alarm, and more than a     *)
(* second after alarm_suspend.                                             *)
ToRing ==
    /\ RtcTicks <= rtc_alarm * Sec
    /\ \A t \in WakeupQueues : rtc_alarm * Sec - RtcTicks <= DueTime(t) - wall
    /\ pm = "suspended" => Sec < device_ticks + (rtc_alarm * Sec - RtcTicks)

(* It has rung, and its wake lock is held until more than two seconds      *)
(* after alarm_suspend.                                                    *)
HasRung ==
    /\ rtc_alarm = NotSet
    /\ Sec < device_ticks
    /\ 2 * Sec < device_ticks + rtc_lock

SleepInv ==
    pm \in {"suspended", "asleep"} /\ WakeupQueues # {} => ToRing \/ HasRung

(* The inductive invariant.                                                *)
AlarmInv ==
    /\ TimersArmed
    /\ StageInv
    /\ ElapsedInv
    /\ StaleInv
    /\ SleepInv

-----------------------------------------------------------------------------
(* Seconds.                                                                *)

(* What rounding a time down to seconds means.                             *)
LEMMA WholeSeconds ==
    ASSUME NEW x \in Int
    PROVE  /\ x \div Sec \in Int
           /\ (x \div Sec) * Sec <= x
           /\ x < (x \div Sec) * Sec + Sec
  BY AlarmAssumption

(* The RTC rings at the first tick of its second.                          *)
LEMMA RingsAt ==
    ASSUME NEW x \in Int, NEW a \in Int, x <= a * Sec
    PROVE  a = x \div Sec <=> x = a * Sec
<1>1. x = a * Sec => x \div Sec = a
  BY AlarmAssumption
<1>2. ASSUME a = x \div Sec PROVE x = a * Sec
  <2>1. a * Sec \in Int
    BY AlarmAssumption
  <2> QED
    BY <1>2, <2>1, WholeSeconds
<1> QED
  BY <1>1, <1>2

(* A second that is at least two further ends more than a second from now. *)
LEMMA TwoSecondsAhead ==
    ASSUME NEW x \in Int, NEW a \in Int, x \div Sec + 1 < a
    PROVE  x + Sec < a * Sec
<1>1. (x \div Sec) * Sec + 2 * Sec <= a * Sec
  BY AlarmAssumption, WholeSeconds
<1>2. a * Sec \in Int /\ (x \div Sec) * Sec \in Int /\ Sec \in Int
  BY AlarmAssumption, WholeSeconds
<1> QED
  BY <1>1, <1>2, WholeSeconds

(* The RTC alarm of alarm_suspend is not after the expiry of the timer:    *)
(* the distance is rounded down to seconds.                                *)
LEMMA RoundedDown ==
    ASSUME NEW e \in Int, NEW w \in Int, NEW x \in Int, NEW a \in Int,
           a = (e - (w - (x \div Sec) * Sec)) \div Sec
    PROVE  a * Sec - x <= e - w
<1>1. (x \div Sec) * Sec \in Int /\ (x \div Sec) * Sec <= x
  BY AlarmAssumption, WholeSeconds
<1>2. a * Sec <= e - (w - (x \div Sec) * Sec)
  BY <1>1, WholeSeconds
<1>3. a * Sec \in Int
  BY AlarmAssumption
<1> QED
  BY <1>1, <1>2, <1>3

-----------------------------------------------------------------------------
(* What a timer is set to.                                                 *)

(* update_timer_locked yields a timer, and the right one unless the queue  *)
(* is stopped, empty or suspended.                                         *)
LEMMA TimerResult ==
    ASSUME NEW t \in Types, NEW e \in Int, NEW d \in Int,
           NEW stop, NEW susp, NEW tm \in [armed : BOOLEAN, expires : Int]
    PROVE  /\ UpdateTimer(t, e, tm, d, stop, susp) \in [armed : BOOLEAN, expires : Int]
           /\ ~stop /\ e # NotQueued /\ ~(t \in Wakeup /\ susp) =>
                 UpdateTimer(t, e, tm, d, stop, susp) = [armed |-> TRUE, expires |-> e + d]
           /\ susp /\ t \in Wakeup => UpdateTimer(t, e, tm, d, stop, susp) = tm
<1>1. CASE stop \/ e = NotQueued \/ (t \in Wakeup /\ susp)
  <2>1. UpdateTimer(t, e, tm, d, stop, susp) = tm
    BY <1>1 DEF UpdateTimer
  <2> QED
    BY <1>1, <2>1
<1>2. CASE ~(stop \/ e = NotQueued \/ (t \in Wakeup /\ susp))
  <2>1. UpdateTimer(t, e, tm, d, stop, susp) = [armed |-> TRUE, expires |-> d + e]
    BY <1>2 DEF UpdateTimer
  <2>2. d + e = e + d
    OBVIOUS
  <2>3. [armed |-> TRUE, expires |-> d + e] \in [armed : BOOLEAN, expires : Int]
    OBVIOUS
  <2> QED
    BY <1>2, <2>1, <2>2, <2>3
<1> QED
  BY <1>1, <1>2

(* The wake lock's timeout.                                                *)
LEMMA LockResult ==
    ASSUME NEW t \in Types, NEW e \in Int, NEW lock \in {Held} \cup 0..(2 * Sec),
           NEW stop \in BOOLEAN, NEW susp \in BOOLEAN, NEW removed \in BOOLEAN
    PROVE  /\ UpdateLock(t, e, lock, stop, susp, removed) \in {Held} \cup 0..(2 * Sec)
           /\ susp => UpdateLock(t, e, lock, stop, susp, removed) \in {lock, Sec}
  BY AlarmAssumption DEF UpdateLock

(* update_timer_locked, on the queue it is called for.                     *)
LEMMA UpdateResult ==
    ASSUME AlarmTypeOK, NEW t \in Types, NEW e \in Int, NEW removed \in BOOLEAN,
           NEW tm \in [armed : BOOLEAN, expires : Int],
           update_timer_locked(t, e, tm, removed)
    PROVE  /\ timer' \in [Types -> [armed : BOOLEAN, expires : Int]]
           /\ \A u \in Types \ {t} : timer'[u] = timer[u]
           /\ ~Stopped(t) /\ e # NotQueued /\ ~(t \in Wakeup /\ suspended) =>
                 timer'[t] = [armed |-> TRUE, expires |-> e + delta[t]]
           /\ suspended /\ t \in Wakeup => timer'[t] = tm
           /\ rtc_lock' \in {Held} \cup 0..(2 * Sec)
           /\ suspended => rtc_lock' \in {rtc_lock, Sec}
<1> DEFINE new == UpdateTimer(t, e, tm, delta[t], Stopped(t), suspended)
<1>1. /\ timer \in [Types -> [armed : BOOLEAN, expires : Int]]
      /\ delta[t] \in Int /\ Stopped(t) \in BOOLEAN /\ suspended \in BOOLEAN
      /\ rtc_lock \in {Held} \cup 0..(2 * Sec)
  BY DEF AlarmTypeOK, Stopped
<1>2. /\ timer' = [timer EXCEPT ![t] = new]
      /\ rtc_lock' = UpdateLock(t, e, rtc_lock, Stopped(t), suspended, removed)
  BY DEF update_timer_locked
<1>3. /\ new \in [armed : BOOLEAN, expires : Int]
      /\ ~Stopped(t) /\ e # NotQueued /\ ~(t \in Wakeup /\ suspended) =>
            new = [armed |-> TRUE, expires |-> e + delta[t]]
      /\ suspended /\ t \in Wakeup => new = tm
  BY <1>1, TimerResult
<1>4. /\ rtc_lock' \in {Held} \cup 0..(2 * Sec)
      /\ suspended => rtc_lock' \in {rtc_lock, Sec}
  BY <1>1, <1>2, LockResult
<1> HIDE DEF new
<1> QED
  BY <1>1, <1>2, <1>3, <1>4

(* The queues in S get their timers back, with the queues neither stopped  *)
(* nor suspended any more.                                                 *)
LEMMA RestartResult ==
    ASSUME AlarmTypeOK, NEW S \in SUBSET Types,
           timer' = [t \in Types |->
                        IF t \in S
                        THEN UpdateTimer(t, expires[t], timer[t], delta[t], FALSE, FALSE)
                        ELSE timer[t]]
    PROVE  /\ timer' \in [Types -> [armed : BOOLEAN, expires : Int]]
           /\ \A t \in Types \ S : timer'[t] = timer[t]
           /\ \A t \in S : expires[t] # NotQueued =>
                 timer'[t] = [armed |-> TRUE, expires |-> DueTime(t)]
<1>1. ASSUME NEW t \in Types
      PROVE  /\ UpdateTimer(t, expires[t], timer[t], delta[t], FALSE, FALSE)
                   \in [armed : BOOLEAN, expires : Int]
             /\ expires[t] # NotQueued =>
                   UpdateTimer(t, expires[t], timer[t], delta[t], FALSE, FALSE)
                       = [armed |-> TRUE, expires |-> expires[t] + delta[t]]
  <2>1. /\ expires[t] \in Int /\ delta[t] \in Int
        /\ timer[t] \in [armed : BOOLEAN, expires : Int]
    BY DEF AlarmTypeOK
  <2>2. UpdateTimer(t, expires[t], timer[t], delta[t], FALSE, FALSE) =
            IF expires[t] = NotQueued THEN timer[t]
            ELSE [armed |-> TRUE, expires |-> delta[t] + expires[t]]
    BY DEF UpdateTimer
  <2>3. delta[t] + expires[t] = expires[t] + delta[t]
    BY <2>1
  <2>4. [armed |-> TRUE, expires |-> delta[t] + expires[t]]
            \in [armed : BOOLEAN, expires : Int]
    BY <2>1
  <2> QED
    BY <2>1, <2>2, <2>3, <2>4
<1> QED
  BY <1>1 DEF DueTime, AlarmTypeOK

(* The time that alarm_set_rtc was given is a number.                      *)
LEMMA SettingType ==
    ASSUME AlarmTypeOK
    PROVE  /\ setting \in [at : SetStages, new : NewTimes \cup {0}, ok : BOOLEAN]
           /\ setting.new \in Int
<1>1. setting \in [at : SetStages, new : NewTimes \cup {0}, ok : BOOLEAN]
  BY DEF AlarmTypeOK
<1>2. setting.new \in NewTimes \cup {0}
  BY <1>1
<1>3. \A x \in NewTimes \cup {0} : x \in Int
  BY AlarmAssumption
<1> QED
  BY <1>1, <1>2, <1>3

(* A call of alarm_start_range keeps the invariant.                        *)
LEMMA StartKeeps ==
    ASSUME AlarmInv, NEW t \in Types, NEW e \in Int, alarm_start_range(t, e)
    PROVE  AlarmInv'
<1>1. /\ AlarmTypeOK /\ timer[t] \in [armed : BOOLEAN, expires : Int]
      /\ (expires[t] # NotQueued) \in BOOLEAN
  BY DEF AlarmInv, TimersArmed, AlarmTypeOK
<1>2. /\ timer' \in [Types -> [armed : BOOLEAN, expires : Int]]
      /\ \A u \in Types \ {t} : timer'[u] = timer[u]
      /\ ~Stopped(t) /\ e # NotQueued /\ ~(t \in Wakeup /\ suspended) =>
            timer'[t] = [armed |-> TRUE, expires |-> e + delta[t]]
      /\ rtc_lock' \in {Held} \cup 0..(2 * Sec)
  BY <1>1, UpdateResult DEF alarm_start_range
<1>3. /\ expires' \in [Types -> Int] /\ expires'[t] = e
      /\ \A u \in Types \ {t} : expires'[u] = expires[u]
  BY <1>1 DEF AlarmTypeOK, alarm_start_range
<1>4. AlarmTypeOK'
  BY <1>1, <1>2, <1>3 DEF AlarmTypeOK, alarm_start_range, clockVars, setVars,
     pmVars
<1>5. TimersArmed'
  <2>1. UNCHANGED <<stopped, delta, suspended>>
    BY DEF alarm_start_range, setVars, pmVars
  <2> QED
    BY <1>2, <1>3, <1>4, <2>1 DEF AlarmInv, TimersArmed, Stopped, DueTime
<1>6. StageInv' /\ ElapsedInv'
  BY DEF AlarmInv, StageInv, ElapsedInv, alarm_start_range, UserRuns,
     clockVars, setVars, pmVars
<1>7. StaleInv' /\ SleepInv'
  BY DEF StaleInv, SleepInv, alarm_start_range, UserRuns, pmVars
<1> QED
  BY <1>5, <1>6, <1>7 DEF AlarmInv

(* So does alarm_try_to_cancel, which leaves the timer running, ...        *)
LEMMA CancelKeeps ==
    ASSUME AlarmInv, NEW t \in Types, alarm_try_to_cancel(t)
    PROVE  AlarmInv'
<1>1. /\ AlarmTypeOK /\ timer[t] \in [armed : BOOLEAN, expires : Int]
      /\ NotQueued \in Int
  BY DEF AlarmInv, TimersArmed, AlarmTypeOK, NotQueued
<1>2. /\ timer' \in [Types -> [armed : BOOLEAN, expires : Int]]
      /\ \A u \in Types \ {t} : timer'[u] = timer[u]
      /\ rtc_lock' \in {Held} \cup 0..(2 * Sec)
  BY <1>1, UpdateResult DEF alarm_try_to_cancel
<1>3. /\ expires' \in [Types -> Int] /\ expires'[t] = NotQueued
      /\ \A u \in Types \ {t} : expires'[u] = expires[u]
  BY <1>1 DEF AlarmTypeOK, alarm_try_to_cancel
<1>4. AlarmTypeOK'
  BY <1>1, <1>2, <1>3 DEF AlarmTypeOK, alarm_try_to_cancel, clockVars,
     setVars, pmVars
<1>5. TimersArmed'
  <2>1. UNCHANGED <<stopped, delta, suspended>>
    BY DEF alarm_try_to_cancel, setVars, pmVars
  <2> QED
    BY <1>2, <1>3, <1>4, <2>1 DEF AlarmInv, TimersArmed, Stopped, DueTime
<1>6. StageInv' /\ ElapsedInv'
  BY DEF AlarmInv, StageInv, ElapsedInv, alarm_try_to_cancel, UserRuns,
     clockVars, setVars, pmVars
<1>7. StaleInv' /\ SleepInv'
  BY DEF StaleInv, SleepInv, alarm_try_to_cancel, UserRuns, pmVars
<1> QED
  BY <1>5, <1>6, <1>7 DEF AlarmInv

(* ... the timer interrupt, in whatever stage of a suspend it comes, ...   *)
LEMMA TimerKeeps ==
    ASSUME AlarmInv, NEW t \in Types, alarm_timer_triggered(t)
    PROVE  AlarmInv'
<1> DEFINE left == IF Due(t) THEN NotQueued ELSE expires[t]
           tm == [timer[t] EXCEPT !.armed = FALSE]
<1>1. /\ AlarmTypeOK /\ left \in Int /\ left \in {NotQueued, expires[t]}
      /\ tm \in [armed : BOOLEAN, expires : Int] /\ tm.expires = timer[t].expires
  <2>1. AlarmTypeOK /\ timer[t] \in [armed : BOOLEAN, expires : Int] /\ expires[t] \in Int
    BY DEF AlarmInv, TimersArmed, AlarmTypeOK
  <2>2. left \in Int /\ left \in {NotQueued, expires[t]}
    BY <2>1 DEF NotQueued
  <2>3. tm \in [armed : BOOLEAN, expires : Int] /\ tm.expires = timer[t].expires
    BY <2>1
  <2> QED
    BY <2>1, <2>2, <2>3
<1>2. /\ expires' = [expires EXCEPT ![t] = left]
      /\ update_timer_locked(t, left, tm, TRUE)
      /\ pm # "asleep"
      /\ UNCHANGED <<clockVars, setVars, pmVars>>
  BY DEF alarm_timer_triggered
<1> HIDE DEF left, tm
<1>3. /\ timer' \in [Types -> [armed : BOOLEAN, expires : Int]]
      /\ \A u \in Types \ {t} : timer'[u] = timer[u]
      /\ ~Stopped(t) /\ left # NotQueued /\ ~(t \in Wakeup /\ suspended) =>
            timer'[t] = [armed |-> TRUE, expires |-> left + delta[t]]
      /\ suspended /\ t \in Wakeup => timer'[t] = tm
      /\ rtc_lock' \in {Held} \cup 0..(2 * Sec)
      /\ suspended => rtc_lock' \in {rtc_lock, Sec}
  BY <1>1, <1>2, UpdateResult
<1>4. /\ expires' \in [Types -> Int] /\ expires'[t] = left
      /\ \A u \in Types \ {t} : expires'[u] = expires[u]
  BY <1>1, <1>2 DEF AlarmTypeOK
<1>5. AlarmTypeOK'
  BY <1>1, <1>2, <1>3, <1>4 DEF AlarmTypeOK, clockVars, setVars, pmVars
<1>6. TimersArmed'
  <2>1. UNCHANGED <<stopped, delta, suspended>>
    BY <1>2 DEF setVars, pmVars
  <2> QED
    BY <1>5, <1>3, <1>4, <2>1 DEF AlarmInv, TimersArmed, Stopped, DueTime
<1>7. StageInv'
  BY <1>2 DEF AlarmInv, StageInv, setVars, pmVars
<1>8. ElapsedInv'
  BY <1>2 DEF AlarmInv, ElapsedInv, clockVars, setVars
<1>9. StaleInv'
  <2> SUFFICES ASSUME pm \in {"begun", "cancelled"}, NEW u \in WakeupQueues'
               PROVE  timer'[u].expires = DueTime(u)'
    BY <1>2 DEF StaleInv, pmVars
  <2>1. suspended /\ UNCHANGED delta /\ u \in Wakeup /\ u \in Types
    BY <1>2 DEF AlarmInv, StageInv, Down, setVars, WakeupQueues, Wakeup,
       Types, RTC_WAKEUP, ELAPSED_REALTIME_WAKEUP
  <2>2. u \in WakeupQueues /\ expires'[u] = expires[u] /\ timer'[u].expires = timer[u].expires
    BY <1>1, <1>3, <1>4, <2>1 DEF WakeupQueues
  <2> QED
    BY <2>1, <2>2 DEF AlarmInv, StaleInv, DueTime
<1>10. SleepInv'
  <2> SUFFICES ASSUME pm \in {"suspended", "asleep"}, WakeupQueues' # {}
               PROVE  (ToRing \/ HasRung)'
    BY <1>2 DEF SleepInv, pmVars
  <2>1. /\ suspended
        /\ UNCHANGED <<delta, real, rtc_offset, wall_offset, rtc_alarm, pm, device_ticks>>
    BY <1>2 DEF AlarmInv, StageInv, Down, clockVars, setVars, pmVars
  <2>2. \A u \in WakeupQueues' : u \in WakeupQueues /\ DueTime(u)' = DueTime(u)
    BY <1>1, <1>3, <1>4, <2>1 DEF WakeupQueues, DueTime, Wakeup, Types,
       RTC_WAKEUP, ELAPSED_REALTIME_WAKEUP
  <2>3. ToRing => ToRing'
    BY <2>1, <2>2 DEF ToRing, RtcTicks, wall
  <2>4. HasRung => HasRung'
    BY <1>3, <2>1, AlarmAssumption DEF HasRung, AlarmInv, TimersArmed,
       AlarmTypeOK
  <2> QED
    BY <2>2, <2>3, <2>4 DEF AlarmInv, SleepInv
<1> QED
  BY <1>6, <1>7, <1>8, <1>9, <1>10 DEF AlarmInv

(* ... the interrupt of the RTC, which comes at the tick it is set for, ...*)
LEMMA RtcInterruptKeeps ==
    ASSUME AlarmInv, alarm_triggered_func
    PROVE  AlarmInv'
<1>1. AlarmTypeOK'
  BY AlarmAssumption DEF AlarmInv, TimersArmed, AlarmTypeOK,
     alarm_triggered_func, NotSet, clockVars, setVars
<1>2. TimersArmed'
  BY <1>1 DEF AlarmInv, TimersArmed, Stopped, DueTime, alarm_triggered_func,
     setVars
<1>3. StageInv' /\ ElapsedInv' /\ StaleInv'
  BY DEF AlarmInv, StageInv, ElapsedInv, StaleInv, WakeupQueues, DueTime,
     alarm_triggered_func, clockVars, setVars
<1>4. SleepInv'
  <2> SUFFICES ASSUME pm = "suspended", WakeupQueues # {} PROVE HasRung'
    BY DEF SleepInv, WakeupQueues, alarm_triggered_func
  <2>1. /\ RtcTicks \in Int /\ rtc_alarm \in Int /\ device_ticks \in Int
        /\ Sec \in Int /\ rtc_alarm * Sec \in Int
    BY AlarmAssumption DEF AlarmInv, TimersArmed, AlarmTypeOK, RtcTicks
  <2>2. CASE ToRing
    <3>1. RtcTicks = rtc_alarm * Sec
      BY <2>1, <2>2, RingsAt DEF ToRing, alarm_triggered_func, RtcRinging,
         rtc_time, RtcTicks
    <3> QED
      BY <2>1, <2>2, <3>1 DEF ToRing, HasRung, alarm_triggered_func
  <2>3. CASE HasRung
    BY <2>1, <2>3 DEF HasRung, alarm_triggered_func
  <2> QED
    BY <2>2, <2>3 DEF AlarmInv, SleepInv
<1> QED
  BY <1>2, <1>3, <1>4 DEF AlarmInv

(* ... and the passing of time: either the RTC has not rung and cannot     *)
(* ring later than its tick, or it has and its lock runs down together     *)
(* with the time that devices may take.                                    *)
LEMMA TickKeeps ==
    ASSUME AlarmInv, Tick
    PROVE  AlarmInv'
<1>1. /\ expires' \in [Types -> Int]
      /\ timer' \in [Types -> [armed : BOOLEAN, expires : Int]]
      /\ \A t \in Types \ {SYSTEMTIME} : expires'[t] = expires[t] /\ timer'[t] = timer[t]
  <2>1. /\ expires \in [Types -> Int] /\ SYSTEMTIME \in Types
        /\ timer \in [Types -> [armed : BOOLEAN, expires : Int]]
    BY DEF AlarmInv, TimersArmed, AlarmTypeOK, SYSTEMTIME, Types
  <2>2. CASE pm = "asleep"
    <3>1. /\ expires' = [expires EXCEPT ![SYSTEMTIME] = IF @ = NotQueued THEN @ ELSE @ + 1]
          /\ timer' = [timer EXCEPT ![SYSTEMTIME].expires =
                          IF timer[SYSTEMTIME].armed THEN @ + 1 ELSE @]
      BY <2>2 DEF Tick
    <3> QED
      BY <2>1, <3>1
  <2>3. CASE pm # "asleep"
    BY <2>1, <2>3 DEF Tick
  <2> QED
    BY <2>2, <2>3
<1>2. AlarmTypeOK'
  BY <1>1, AlarmAssumption DEF AlarmInv, TimersArmed, AlarmTypeOK, StageInv,
     Tick, Held, setVars
<1>3. TimersArmed'
  BY <1>1, <1>2 DEF AlarmInv, TimersArmed, Stopped, DueTime, Tick, setVars
<1>4. StageInv'
  BY DEF AlarmInv, StageInv, Tick, setVars
<1>5. ElapsedInv'
  <2>1. setting.new \in Int /\ lag \in Int /\ real \in Int
    BY SettingType DEF AlarmInv, TimersArmed, AlarmTypeOK
  <2>2. lag' = (IF setting.at = "stopped" THEN lag + 1 ELSE lag) /\ real' = real + 1
    BY DEF AlarmInv, StageInv, Tick
  <2> QED
    BY <2>1, <2>2 DEF AlarmInv, ElapsedInv, Tick, setVars
<1>6. /\ WakeupQueues' = WakeupQueues
      /\ \A t \in WakeupQueues : t \in Types \ {SYSTEMTIME} /\ DueTime(t)' = DueTime(t)
  BY <1>1 DEF WakeupQueues, DueTime, Tick, setVars, Wakeup, Types,
     RTC_WAKEUP, ELAPSED_REALTIME_WAKEUP, SYSTEMTIME
<1>7. StaleInv'
  BY <1>1, <1>6 DEF AlarmInv, StaleInv, Tick
<1>8. SleepInv'
  <2> SUFFICES ASSUME pm \in {"suspended", "asleep"}, WakeupQueues # {}
               PROVE  (ToRing \/ HasRung)'
    BY <1>6 DEF SleepInv, Tick
  <2>1. /\ RtcTicks \in Int /\ rtc_alarm \in Int /\ device_ticks \in Nat
        /\ Sec \in Int /\ rtc_alarm * Sec \in Int /\ wall \in Int
        /\ rtc_lock \in {Held} \cup 0..(2 * Sec)
    BY AlarmAssumption DEF AlarmInv, TimersArmed,
       AlarmTypeOK, RtcTicks, wall
  <2>2. \A t \in WakeupQueues : DueTime(t) \in Int
    BY <1>6 DEF AlarmInv, TimersArmed, AlarmTypeOK, DueTime
  <2>3. /\ RtcTicks' = RtcTicks + 1 /\ wall' = wall + 1
        /\ rtc_alarm' = rtc_alarm /\ pm' = pm
        /\ device_ticks' = IF pm = "suspended" THEN device_ticks + 1 ELSE device_ticks
        /\ rtc_lock' = IF pm # "asleep" /\ rtc_lock > 0 THEN rtc_lock - 1 ELSE rtc_lock
    <3>1. real \in Int /\ rtc_offset \in Int /\ wall_offset \in Int
      BY DEF AlarmInv, TimersArmed, AlarmTypeOK
    <3>2. real' = real + 1 /\ UNCHANGED <<rtc_offset, wall_offset, rtc_alarm, pm>>
      BY DEF Tick, setVars
    <3>3. RtcTicks' = RtcTicks + 1 /\ wall' = wall + 1
      BY <3>1, <3>2 DEF RtcTicks, wall
    <3> QED
      BY <3>2, <3>3 DEF Tick
  <2>4. CASE ToRing
    <3>1. RtcTicks # rtc_alarm * Sec
      BY <2>1, <2>4, RingsAt DEF ToRing, Tick, RtcRinging, rtc_time, RtcTicks
    <3>2. RtcTicks' <= rtc_alarm' * Sec
      BY <2>1, <2>3, <2>4, <3>1 DEF ToRing
    <3>3. \A t \in WakeupQueues' : (rtc_alarm * Sec - RtcTicks <= DueTime(t) - wall)'
      BY <1>6, <2>1, <2>2, <2>3, <2>4 DEF ToRing
    <3>4. (pm = "suspended" => Sec < device_ticks + (rtc_alarm * Sec - RtcTicks))'
      BY <2>1, <2>3, <2>4 DEF ToRing
    <3> QED
      BY <3>2, <3>3, <3>4 DEF ToRing
  <2>5. CASE HasRung
    BY <2>1, <2>3, <2>5 DEF HasRung, Held
  <2> QED
    BY <2>4, <2>5 DEF AlarmInv, SleepInv
<1> QED
  BY <1>3, <1>4, <1>5, <1>7, <1>8 DEF AlarmInv

-----------------------------------------------------------------------------
(* alarm_set_rtc, which runs only while tasks do.                          *)

(* Elapsed realtime is bound to the new time before that is set.           *)
LEMMA SetRtcStopKeeps ==
    ASSUME AlarmInv, NEW new \in NewTimes, SetRtcStop(new)
    PROVE  AlarmInv'
<1>1. wall \in Int /\ NewDelta(new) \in Int /\ new \in Int
  BY AlarmAssumption DEF AlarmInv, TimersArmed, AlarmTypeOK, wall, NewDelta,
     Types, ELAPSED_REALTIME
<1>2. delta' \in [Types -> Int]
  BY <1>1 DEF AlarmInv, TimersArmed, AlarmTypeOK, SetRtcStop
<1>3. timer' \in [Types -> [armed : BOOLEAN, expires : Int]]
  BY DEF AlarmInv, TimersArmed, AlarmTypeOK, SetRtcStop
<1>4. setting' \in [at : SetStages, new : NewTimes \cup {0}, ok : BOOLEAN]
  BY DEF SetRtcStop, SetStages
<1>5. AlarmTypeOK'
  BY <1>1, <1>2, <1>3, <1>4, AlarmAssumption DEF AlarmInv, TimersArmed,
     AlarmTypeOK, SetRtcStop, Held, clockVars, pmVars
<1>6. TimersArmed'
  BY <1>5 DEF TimersArmed, Stopped, SetRtcStop
<1>7. StageInv'
  BY DEF AlarmInv, StageInv, SetRtcStop, UserRuns, pmVars
<1>8. ElapsedInv'
  <2>1. ~set_failed => delta[ELAPSED_REALTIME] = lag + wall_offset
    BY DEF AlarmInv, ElapsedInv, SetRtcStop
  <2>2. delta'[ELAPSED_REALTIME] = delta[ELAPSED_REALTIME] - (wall - new)
    BY DEF SetRtcStop, NewDelta, Types, Elapsed, ELAPSED_REALTIME
  <2>3. setting'.at = "stopped" /\ setting'.new = new
    BY DEF SetRtcStop
  <2> QED
    BY <1>1, <2>1, <2>2, <2>3 DEF AlarmInv, TimersArmed, AlarmTypeOK,
       ElapsedInv,
       SetRtcStop, wall, clockVars
<1>9. StaleInv' /\ SleepInv'
  BY DEF StaleInv, SleepInv, SetRtcStop, UserRuns, pmVars
<1> QED
  BY <1>6, <1>7, <1>8, <1>9 DEF AlarmInv

(* The time that is set is the one elapsed realtime was bound to.          *)
LEMMA SetRtcTimeKeeps ==
    ASSUME AlarmInv, NEW ok \in BOOLEAN, SetRtcTime(ok)
    PROVE  AlarmInv'
<1>1. /\ setting \in [at : SetStages, new : NewTimes \cup {0}, ok : BOOLEAN]
      /\ setting.new \in Int
  BY SettingType DEF AlarmInv, TimersArmed
<1>2. /\ setting'.at = "timed"
      /\ setting' \in [at : SetStages, new : NewTimes \cup {0}, ok : BOOLEAN]
  BY <1>1 DEF SetRtcTime, SetStages
<1>3. AlarmTypeOK'
  BY <1>1, <1>2 DEF AlarmInv, TimersArmed, AlarmTypeOK, SetRtcTime, pmVars
<1>4. TimersArmed'
  BY <1>3 DEF AlarmInv, TimersArmed, Stopped, DueTime, SetRtcTime, pmVars
<1>5. StageInv' /\ pm \in {"run", "entering"}
  BY <1>2 DEF AlarmInv, StageInv, SetRtcTime, pmVars
<1>6. ElapsedInv'
  BY <1>2 DEF AlarmInv, ElapsedInv, SetRtcTime
<1>7. StaleInv' /\ SleepInv'
  BY <1>5 DEF StaleInv, SleepInv, SetRtcTime, pmVars
<1> QED
  BY <1>4, <1>5, <1>6, <1>7 DEF AlarmInv

(* Restarting the queues sets every timer again.                           *)
LEMMA SetRtcRestartKeeps ==
    ASSUME AlarmInv, SetRtcRestart
    PROVE  AlarmInv'
<1>1. setting \in [at : SetStages, new : NewTimes \cup {0}, ok : BOOLEAN]
  BY SettingType DEF AlarmInv, TimersArmed
<1>2. /\ setting'.at = "restarted"
      /\ setting' \in [at : SetStages, new : NewTimes \cup {0}, ok : BOOLEAN]
  BY <1>1 DEF SetRtcRestart, SetStages
<1>3. pm \in {"run", "entering"} /\ suspended = FALSE
  BY DEF AlarmInv, TimersArmed, AlarmTypeOK, StageInv, Down, SetRtcRestart
<1>4. timer' = [t \in Types |->
                   IF t \in Types \ {SYSTEMTIME}
                   THEN UpdateTimer(t, expires[t], timer[t], delta[t], FALSE, FALSE)
                   ELSE timer[t]]
  BY <1>3 DEF SetRtcRestart
<1>5. /\ timer' \in [Types -> [armed : BOOLEAN, expires : Int]]
      /\ \A t \in Types \ {SYSTEMTIME} : expires[t] # NotQueued =>
            timer'[t] = [armed |-> TRUE, expires |-> DueTime(t)]
  <2>1. AlarmTypeOK /\ Types \ {SYSTEMTIME} \in SUBSET Types
    BY DEF AlarmInv, TimersArmed
  <2> QED
    BY <1>4, <2>1, RestartResult
<1>6. AlarmTypeOK'
  <2>1. stopped' \in BOOLEAN
    BY DEF SetRtcRestart
  <2>2. stopped_time' \in Int
    BY DEF SetRtcRestart
  <2> QED
    BY <1>2, <1>5, <2>1, <2>2 DEF AlarmInv, TimersArmed, AlarmTypeOK,
       SetRtcRestart, clockVars, pmVars
<1>7. TimersArmed'
  BY <1>5, <1>6 DEF TimersArmed, DueTime, SetRtcRestart
<1>8. StageInv' /\ ElapsedInv'
  BY <1>2 DEF AlarmInv, StageInv, ElapsedInv, SetRtcRestart, clockVars, pmVars
<1>9. StaleInv' /\ SleepInv'
  BY <1>3 DEF StaleInv, SleepInv, SetRtcRestart, pmVars
<1> QED
  BY <1>7, <1>8, <1>9 DEF AlarmInv

(* The RTC is set last.                                                    *)
LEMMA SetRtcDoneKeeps ==
    ASSUME AlarmInv, NEW ok \in BOOLEAN, SetRtcDone(ok)
    PROVE  AlarmInv'
<1>1. setting.new \in Int /\ (setting.new \div Sec) * Sec \in Int /\ real \in Int
  <2>1. setting.new \in Int /\ real \in Int
    BY SettingType DEF AlarmInv, TimersArmed, AlarmTypeOK
  <2> QED
    BY <2>1, AlarmAssumption, WholeSeconds
<1>2. /\ setting'.at = "idle"
      /\ setting' \in [at : SetStages, new : NewTimes \cup {0}, ok : BOOLEAN]
      /\ rtc_offset' \in Int
  BY <1>1 DEF AlarmInv, TimersArmed, AlarmTypeOK, SetRtcDone, SetStages,
     NotSetting
<1>3. AlarmTypeOK'
  BY <1>2, AlarmAssumption DEF AlarmInv, TimersArmed, AlarmTypeOK,
     SetRtcDone, pmVars
<1>4. TimersArmed'
  BY <1>3 DEF AlarmInv, TimersArmed, Stopped, DueTime, SetRtcDone, pmVars
<1>5. StageInv' /\ ElapsedInv' /\ pm \in {"run", "entering"}
  BY <1>2 DEF AlarmInv, StageInv, ElapsedInv, SetRtcDone, pmVars
<1>6. StaleInv' /\ SleepInv'
  BY <1>5 DEF StaleInv, SleepInv, SetRtcDone, pmVars
<1> QED
  BY <1>4, <1>5, <1>6 DEF AlarmInv

-----------------------------------------------------------------------------
(* Suspend and resume.                                                     *)

(* The stages before alarm_suspend, and a suspend that fails.              *)
LEMMA StagesKeep ==
    ASSUME AlarmInv, SuspendEnter \/ TasksFrozen \/ SuspendFails
    PROVE  AlarmInv'
<1>1. /\ UNCHANGED <<real, wall_offset, rtc_offset, lag, setting, sets, set_failed,
                     stopped, stopped_time, delta, suspended, rtc_alarm, expires,
                     timer, rtc_lock>>
      /\ pm' \in {"run", "entering", "frozen", "resuming"}
  BY DEF SuspendEnter, TasksFrozen, SuspendFails, clockVars, setVars
<1>2. AlarmTypeOK'
  <2>1. pm' \in Stages /\ device_ticks' \in 0..real'
    BY <1>1, AlarmAssumption DEF AlarmInv, TimersArmed, AlarmTypeOK, Stages,
       SuspendEnter, TasksFrozen, SuspendFails
  <2> QED
    BY <1>1, <2>1 DEF AlarmInv, TimersArmed, AlarmTypeOK
<1>3. TimersArmed'
  BY <1>1, <1>2 DEF AlarmInv, TimersArmed, Stopped, DueTime
<1>4. StageInv'
  BY DEF AlarmInv, StageInv, Down, SuspendEnter, TasksFrozen, SuspendFails,
     setVars
<1>5. ElapsedInv' /\ StaleInv' /\ SleepInv'
  BY <1>1 DEF AlarmInv, ElapsedInv, StaleInv, SleepInv
<1> QED
  BY <1>3, <1>4, <1>5 DEF AlarmInv

(* alarm_suspend begins with all wakeup timers running for their alarms.   *)
LEMMA SuspendBeginKeeps ==
    ASSUME AlarmInv, AlarmSuspendBegin
    PROVE  AlarmInv'
<1>1. AlarmTypeOK'
  BY DEF AlarmInv, TimersArmed, AlarmTypeOK, Stages, AlarmSuspendBegin,
     clockVars, setVars
<1>2. TimersArmed'
  BY <1>1 DEF AlarmInv, TimersArmed, StageInv, Down, Stopped, DueTime,
     AlarmSuspendBegin,
     setVars
<1>3. StageInv' /\ ElapsedInv' /\ SleepInv'
  BY DEF AlarmInv, StageInv, ElapsedInv, SleepInv, Down, AlarmSuspendBegin,
     clockVars, setVars
<1>4. StaleInv'
  <2>1. ~suspended /\ ~stopped
    BY DEF AlarmInv, StageInv, Down, AlarmSuspendBegin
  <2>2. Wakeup \subseteq Types \ {SYSTEMTIME}
    BY DEF Wakeup, Types, RTC_WAKEUP, ELAPSED_REALTIME_WAKEUP, SYSTEMTIME
  <2>3. \A t \in WakeupQueues : timer[t].expires = DueTime(t)
    <3> TAKE t \in WakeupQueues
    <3>1. timer[t] = [armed |-> TRUE, expires |-> DueTime(t)]
      BY <2>1, <2>2 DEF AlarmInv, TimersArmed, Stopped, WakeupQueues
    <3>2. [armed |-> TRUE, expires |-> DueTime(t)].expires = DueTime(t)
      OBVIOUS
    <3> QED
      BY <3>1, <3>2
  <2> QED
    BY <2>3 DEF StaleInv, WakeupQueues, DueTime, AlarmSuspendBegin, setVars
<1> QED
  BY <1>2, <1>3, <1>4 DEF AlarmInv

(* A cancelled timer keeps its expiry.                                     *)
LEMMA SuspendCancelKeeps ==
    ASSUME AlarmInv, AlarmSuspendCancel
    PROVE  AlarmInv'
<1>1. /\ timer' \in [Types -> [armed : BOOLEAN, expires : Int]]
      /\ \A t \in Types : timer'[t].expires = timer[t].expires
      /\ \A t \in {RTC, ELAPSED_REALTIME} : timer'[t] = timer[t]
  <2>1. timer \in [Types -> [armed : BOOLEAN, expires : Int]]
    BY DEF AlarmInv, TimersArmed, AlarmTypeOK
  <2>2. timer' = [timer EXCEPT ![0].armed = FALSE, ![4].armed = FALSE]
    BY DEF AlarmSuspendCancel, RTC_WAKEUP, ELAPSED_REALTIME_WAKEUP_MASK
  <2>3. \A t \in Types : timer'[t] = IF t \in {0, 4} THEN [timer[t] EXCEPT !.armed = FALSE]
                                    ELSE timer[t]
    BY <2>1, <2>2 DEF Types
  <2>4. timer' \in [Types -> [armed : BOOLEAN, expires : Int]]
    BY <2>1, <2>2 DEF Types
  <2> QED
    BY <2>1, <2>3, <2>4 DEF Types, RTC, ELAPSED_REALTIME
<1>2. AlarmTypeOK'
  BY <1>1 DEF AlarmInv, TimersArmed, AlarmTypeOK, Stages, AlarmSuspendCancel,
     clockVars, setVars
<1>3. TimersArmed'
  <2>1. suspended /\ UNCHANGED <<expires, delta, stopped, suspended>>
    BY DEF AlarmInv, StageInv, Down, AlarmSuspendCancel, setVars
  <2>2. \A t \in Types \ {SYSTEMTIME} : t \in Wakeup \/ t \in {RTC, ELAPSED_REALTIME}
    BY DEF Types, Wakeup, RTC_WAKEUP, RTC, ELAPSED_REALTIME_WAKEUP,
       ELAPSED_REALTIME, SYSTEMTIME
  <2> QED
    BY <1>1, <1>2, <2>1, <2>2 DEF AlarmInv, TimersArmed, Stopped, DueTime
<1>4. StageInv' /\ ElapsedInv' /\ SleepInv'
  BY DEF AlarmInv, StageInv, ElapsedInv, SleepInv, Down, AlarmSuspendCancel,
     clockVars, setVars
<1>5. StaleInv'
  <2>1. Wakeup \subseteq Types
    BY DEF Wakeup, Types, RTC_WAKEUP, ELAPSED_REALTIME_WAKEUP
  <2> QED
    BY <1>1, <2>1 DEF AlarmInv, StaleInv, WakeupQueues, DueTime,
       AlarmSuspendCancel, setVars
<1> QED
  BY <1>3, <1>4, <1>5 DEF AlarmInv

(* alarm_suspend goes on: with an RTC alarm at least two seconds ahead,    *)
(* which rings before the earliest alarm is due, or without any wakeup     *)
(* alarm.                                                                  *)
LEMMA AlarmSuspendSleeps ==
    ASSUME AlarmInv, AlarmSuspend, pm' = "suspended"
    PROVE  AlarmInv'
<1>1. /\ UNCHANGED <<clockVars, setVars, device_ticks, expires, timer, rtc_lock, suspended>>
      /\ pm = "cancelled" /\ device_ticks = 0
  BY DEF AlarmInv, StageInv, AlarmSuspend
<1>2. rtc_time \in Int /\ rtc_time * Sec \in Int /\ RtcTicks \in Int /\ wall \in Int
  <2>1. RtcTicks \in Int /\ wall \in Int
    BY DEF AlarmInv, TimersArmed, AlarmTypeOK, RtcTicks, wall
  <2> QED
    BY <2>1, WholeSeconds, AlarmAssumption DEF rtc_time, RtcTicks
<1>3. \A q \in Wakeup : timer[q].expires \in Int /\ RtcAlarmTime(q) \in Int
  <2> TAKE q \in Wakeup
  <2>1. timer[q].expires \in Int
    BY DEF AlarmInv, TimersArmed, AlarmTypeOK, Wakeup, Types, RTC_WAKEUP,
       ELAPSED_REALTIME_WAKEUP
  <2> QED
    BY <1>2, <2>1, WholeSeconds DEF RtcAlarmTime
<1>4. AlarmTypeOK'
  <2>1. rtc_alarm' \in Int
    BY <1>3 DEF AlarmInv, TimersArmed, AlarmTypeOK, AlarmSuspend
  <2> QED
    BY <1>1, <2>1 DEF AlarmInv, TimersArmed, AlarmTypeOK, Stages, clockVars,
       setVars
<1>5. TimersArmed'
  BY <1>1, <1>4 DEF AlarmInv, TimersArmed, Stopped, DueTime, setVars
<1>6. StageInv' /\ ElapsedInv' /\ StaleInv'
  BY <1>1 DEF AlarmInv, StageInv, ElapsedInv, StaleInv, Down, clockVars,
     setVars
<1>7. SleepInv'
  <2> SUFFICES ASSUME WakeupQueues # {} PROVE ToRing'
    BY <1>1 DEF SleepInv, WakeupQueues
  <2>1. PICK q \in Wakeup : /\ IsWakeupQueue(q)
                            /\ rtc_alarm' = RtcAlarmTime(q)
                            /\ rtc_time + 1 < RtcAlarmTime(q)
    BY DEF AlarmSuspend
  <2>2. rtc_alarm' \in Int /\ rtc_alarm' * Sec \in Int
    BY <1>3, <2>1, AlarmAssumption
  <2>3. RtcTicks + Sec < rtc_alarm' * Sec
    BY <1>2, <2>1, <2>2, TwoSecondsAhead DEF rtc_time, RtcTicks
  <2>4. rtc_alarm' * Sec - RtcTicks <= timer[q].expires - wall
    <3>1. rtc_alarm' = (timer[q].expires - (wall - (RtcTicks \div Sec) * Sec)) \div Sec
      BY <2>1 DEF RtcAlarmTime, rtc_time, RtcTicks
    <3> QED
      BY <1>2, <1>3, <2>2, <3>1, RoundedDown
  <2>5. \A t \in WakeupQueues : timer[q].expires <= DueTime(t)
    <3>1. \A t \in WakeupQueues : timer[t].expires = DueTime(t) /\ t \in Wakeup
      BY <1>1 DEF AlarmInv, StaleInv, WakeupQueues
    <3> QED
      BY <1>3, <2>1, <3>1 DEF IsWakeupQueue
  <2>6. /\ RtcTicks' = RtcTicks /\ wall' = wall /\ WakeupQueues' = WakeupQueues
        /\ \A t \in WakeupQueues : DueTime(t)' = DueTime(t) /\ DueTime(t) \in Int
    BY <1>1 DEF AlarmInv, TimersArmed, AlarmTypeOK, RtcTicks, wall,
       WakeupQueues, DueTime, clockVars, setVars, Wakeup, Types, RTC_WAKEUP,
       ELAPSED_REALTIME_WAKEUP
  <2>7. /\ RtcTicks' <= rtc_alarm' * Sec
        /\ Sec < device_ticks' + (rtc_alarm' * Sec - RtcTicks')
    <3>1. device_ticks' = 0 /\ Sec \in Nat /\ RtcTicks' = RtcTicks
      BY <1>1, <2>6, AlarmAssumption
    <3>2. \A x, y \in Int : x + Sec < y => x <= y /\ Sec < 0 + (y - x)
      BY <3>1
    <3> QED
      BY <1>2, <2>2, <2>3, <3>1, <3>2
  <2>8. \A t \in WakeupQueues' : (rtc_alarm * Sec - RtcTicks <= DueTime(t) - wall)'
    BY <1>2, <1>3, <2>2, <2>4, <2>5, <2>6
  <2> QED
    BY <2>7, <2>8 DEF ToRing
<1> QED
  BY <1>5, <1>6, <1>7 DEF AlarmInv

(* alarm_suspend refuses because an alarm is about to go off, and a resume *)
(* of alarm_suspend: both give the wakeup queues their timers back.        *)
LEMMA RunAgainKeeps ==
    ASSUME AlarmInv, pm \in Down, pm' = "run", suspended' = FALSE, device_ticks = 0,
           rtc_lock' \in {Held} \cup 0..(2 * Sec), rtc_alarm' \in Int,
           timer' = [t \in Types |->
                        IF t \in Wakeup
                        THEN UpdateTimer(t, expires[t], timer[t], delta[t], stopped, FALSE)
                        ELSE timer[t]],
           UNCHANGED <<clockVars, setVars, device_ticks, expires>>
    PROVE  AlarmInv'
<1>1. stopped = FALSE
  BY DEF AlarmInv, TimersArmed, AlarmTypeOK, StageInv, Down
<1>2. /\ timer' \in [Types -> [armed : BOOLEAN, expires : Int]]
      /\ \A t \in Types \ Wakeup : timer'[t] = timer[t]
      /\ \A t \in Wakeup : expires[t] # NotQueued =>
            timer'[t] = [armed |-> TRUE, expires |-> DueTime(t)]
  <2>1. AlarmTypeOK /\ Wakeup \in SUBSET Types
    BY DEF AlarmInv, TimersArmed, Wakeup, Types, RTC_WAKEUP,
       ELAPSED_REALTIME_WAKEUP
  <2> QED
    BY <1>1, <2>1, RestartResult
<1>3. AlarmTypeOK'
  <2>1. suspended' \in BOOLEAN
    OBVIOUS
  <2> QED
    BY <1>2, <2>1 DEF AlarmInv, TimersArmed, AlarmTypeOK, Stages, clockVars,
       setVars
<1>4. TimersArmed'
  BY <1>2, <1>3 DEF AlarmInv, TimersArmed, Stopped, DueTime, setVars
<1>5. StageInv' /\ ElapsedInv' /\ StaleInv' /\ SleepInv'
  BY DEF AlarmInv, StageInv, ElapsedInv, StaleInv, SleepInv, Down, clockVars,
     setVars
<1> QED
  BY <1>4, <1>5 DEF AlarmInv

(* alarm_suspend, both outcomes.                                           *)
LEMMA AlarmSuspendKeeps ==
    ASSUME AlarmInv, AlarmSuspend
    PROVE  AlarmInv'
<1>1. CASE pm' = "suspended"
  BY <1>1, AlarmSuspendSleeps
<1>2. CASE pm' # "suspended"
  <2>1. PICK q \in Wakeup : /\ rtc_alarm' = RtcAlarmTime(q)
                            /\ pm' = "run"
                            /\ suspended' = FALSE
                            /\ rtc_lock' = 2 * Sec
                            /\ timer' = [t \in Types |->
                                  IF t \in Wakeup
                                  THEN UpdateTimer(t, expires[t], timer[t], delta[t],
                                                   stopped, FALSE)
                                  ELSE timer[t]]
    BY <1>2 DEF AlarmSuspend
  <2>2. UNCHANGED <<clockVars, setVars, device_ticks, expires>> /\ pm = "cancelled"
    BY DEF AlarmSuspend
  <2>3. rtc_alarm' \in Int /\ rtc_lock' \in {Held} \cup 0..(2 * Sec)
    <3>1. timer[q].expires \in Int /\ RtcTicks \in Int /\ wall \in Int
      BY DEF AlarmInv, TimersArmed, AlarmTypeOK, RtcTicks, wall, Wakeup,
         Types, RTC_WAKEUP, ELAPSED_REALTIME_WAKEUP
    <3>2. rtc_time \in Int /\ rtc_time * Sec \in Int
      BY <3>1, WholeSeconds, AlarmAssumption DEF rtc_time, RtcTicks
    <3>3. RtcAlarmTime(q) \in Int
      BY <3>1, <3>2, WholeSeconds DEF RtcAlarmTime
    <3> QED
      BY <2>1, <3>3, AlarmAssumption
  <2>4. pm \in Down /\ device_ticks = 0
    BY <2>2 DEF AlarmInv, StageInv, Down
  <2> QED
    BY <2>1, <2>2, <2>3, <2>4, RunAgainKeeps
<1> QED
  BY <1>1, <1>2

(* alarm_resume.                                                           *)
LEMMA ResumeKeeps ==
    ASSUME AlarmInv, alarm_resume
    PROVE  AlarmInv'
<1>1. /\ pm \in Down /\ device_ticks = 0
      /\ rtc_alarm' \in Int /\ rtc_lock' \in {Held} \cup 0..(2 * Sec)
  BY DEF AlarmInv, TimersArmed, AlarmTypeOK, StageInv, Down, alarm_resume
<1>2. /\ pm' = "run" /\ suspended' = FALSE
      /\ timer' = [t \in Types |->
                      IF t \in Wakeup
                      THEN UpdateTimer(t, expires[t], timer[t], delta[t], stopped, FALSE)
                      ELSE timer[t]]
      /\ UNCHANGED <<clockVars, setVars, device_ticks, expires>>
  BY DEF alarm_resume
<1> QED
  BY <1>1, <1>2, RunAgainKeeps

(* The last look at the wake locks: if the RTC has rung in the meantime,   *)
(* its lock is still active and the system does not sleep.                 *)
LEMMA SuspendLateKeeps ==
    ASSUME AlarmInv, SuspendLate
    PROVE  AlarmInv'
<1>1. /\ UNCHANGED <<clockVars, setVars, suspended, rtc_alarm, expires, timer, rtc_lock>>
      /\ pm = "suspended" /\ pm' = (IF rtc_lock # 0 THEN "resuming" ELSE "asleep")
      /\ device_ticks' = IF rtc_lock # 0 THEN 0 ELSE device_ticks
  BY DEF SuspendLate
<1>2. AlarmTypeOK'
  <2>1. pm' \in Stages /\ device_ticks' \in 0..real'
    BY <1>1, AlarmAssumption DEF AlarmInv, TimersArmed, AlarmTypeOK, Stages,
       clockVars
  <2> QED
    BY <1>1, <2>1 DEF AlarmInv, TimersArmed, AlarmTypeOK, clockVars, setVars
<1>3. TimersArmed'
  BY <1>1, <1>2 DEF AlarmInv, TimersArmed, Stopped, DueTime, setVars
<1>4. StageInv' /\ ElapsedInv' /\ StaleInv'
  BY <1>1 DEF AlarmInv, StageInv, ElapsedInv, StaleInv, Down, clockVars,
     setVars
<1>5. SleepInv'
  <2> SUFFICES ASSUME rtc_lock = 0, WakeupQueues # {} PROVE (ToRing \/ HasRung)'
    BY <1>1 DEF SleepInv, WakeupQueues
  <2>1. ToRing => ToRing'
    BY <1>1 DEF ToRing, RtcTicks, WakeupQueues, DueTime, wall, clockVars,
       setVars
  <2>2. HasRung => HasRung'
    BY <1>1 DEF HasRung
  <2> QED
    BY <1>1, <2>1, <2>2 DEF AlarmInv, SleepInv
<1> QED
  BY <1>3, <1>4, <1>5 DEF AlarmInv

(* The RTC or another interrupt wakes the system.                          *)
LEMMA WakesKeep ==
    ASSUME AlarmInv, RtcWakes \/ OtherWakes
    PROVE  AlarmInv'
<1>1. /\ UNCHANGED <<clockVars, setVars, suspended, expires, timer>>
      /\ pm = "asleep" /\ pm' = "resuming" /\ device_ticks' = 0
  BY DEF RtcWakes, OtherWakes
<1>2. AlarmTypeOK'
  <2>1. rtc_alarm' \in Int /\ rtc_lock' \in {Held} \cup 0..(2 * Sec)
    BY AlarmAssumption DEF AlarmInv, TimersArmed, AlarmTypeOK, RtcWakes,
       OtherWakes, NotSet
  <2> QED
    BY <1>1, <2>1 DEF AlarmInv, TimersArmed, AlarmTypeOK, Stages, clockVars,
       setVars
<1>3. TimersArmed'
  BY <1>1, <1>2 DEF AlarmInv, TimersArmed, Stopped, DueTime, setVars
<1>4. StageInv' /\ ElapsedInv' /\ StaleInv' /\ SleepInv'
  BY <1>1 DEF AlarmInv, StageInv, ElapsedInv, StaleInv, SleepInv, Down,
     clockVars, setVars
<1> QED
  BY <1>3, <1>4 DEF AlarmInv

-----------------------------------------------------------------------------
(* After alarm_driver_init no alarm is queued and the clocks agree.        *)
LEMMA AlarmInvInit == AlarmInit => AlarmInv
<1> SUFFICES ASSUME AlarmInit PROVE AlarmInv
  OBVIOUS
<1>1. AlarmTypeOK
  <2>1. setting \in [at : SetStages, new : NewTimes \cup {0}, ok : BOOLEAN]
    BY DEF AlarmInit, NotSetting, SetStages
  <2>2. /\ expires \in [Types -> Int] /\ delta \in [Types -> Int]
        /\ timer \in [Types -> [armed : BOOLEAN, expires : Int]]
    BY AlarmAssumption DEF AlarmInit, NotQueued
  <2>3. stopped \in BOOLEAN /\ suspended \in BOOLEAN /\ set_failed \in BOOLEAN
    BY DEF AlarmInit
  <2>4. /\ real \in 0..MaxTime /\ lag \in 0..real
        /\ wall_offset \in Int /\ rtc_offset \in Int /\ rtc_alarm \in Int
        /\ stopped_time \in Int /\ rtc_lock \in {Held} \cup 0..(2 * Sec)
        /\ sets \in 0..MaxSetRtc
        /\ pm \in Stages /\ device_ticks \in 0..real
    BY AlarmAssumption DEF AlarmInit, NotSet, Stages
  <2> QED
    BY <2>1, <2>2, <2>3, <2>4 DEF AlarmTypeOK
<1>2. TimersArmed
  BY <1>1 DEF AlarmInit, TimersArmed
<1>3. StageInv
  BY DEF AlarmInit, StageInv, Down, NotSetting
<1>4. ElapsedInv
  BY AlarmAssumption DEF AlarmInit, ElapsedInv, NotSetting, Types, Elapsed,
     ELAPSED_REALTIME
<1>5. StaleInv /\ SleepInv
  BY DEF AlarmInit, StaleInv, SleepInv
<1> QED
  BY <1>2, <1>3, <1>4, <1>5 DEF AlarmInv

(* Every step keeps the invariant.                                         *)
LEMMA AlarmInvStep == AlarmInv /\ [AlarmNext]_alarmVars => AlarmInv'
<1> SUFFICES ASSUME AlarmInv, [AlarmNext]_alarmVars PROVE AlarmInv'
  OBVIOUS
<1>1. CASE \E t \in ClientTypes : \/ \E e \in ClientTimes(t) : alarm_start_range(t, e)
                                  \/ alarm_try_to_cancel(t)
  <2>1. ClientTypes \subseteq Types
    BY AlarmAssumption DEF Types
  <2>2. \A t \in ClientTypes : ClientTimes(t) \subseteq Int
    BY AlarmAssumption DEF ClientTimes
  <2> QED
    BY <1>1, <2>1, <2>2, StartKeeps, CancelKeeps
<1>2. CASE \E t \in Types : alarm_timer_triggered(t)
  BY <1>2, TimerKeeps
<1>3. CASE \E new \in NewTimes : SetRtcStop(new)
  BY <1>3, SetRtcStopKeeps
<1>4. CASE SetRtcStep
  BY <1>4, SetRtcRestartKeeps, SetRtcTimeKeeps, SetRtcDoneKeeps DEF SetRtcStep
<1>5. CASE Tick \/ alarm_triggered_func
  BY <1>5, TickKeeps, RtcInterruptKeeps
<1>6. CASE SuspendEnter \/ SuspendFails \/ SuspendStep \/ OtherWakes
  BY <1>6, StagesKeep, SuspendBeginKeeps, SuspendCancelKeeps,
     AlarmSuspendKeeps, SuspendLateKeeps, WakesKeep, ResumeKeeps
     DEF SuspendStep
<1>7. CASE UNCHANGED alarmVars
  <2>1. UNCHANGED <<real, wall_offset, rtc_offset, rtc_alarm, expires, timer, delta,
                    stopped, stopped_time, suspended, rtc_lock, setting, sets,
                    set_failed, lag, pm, device_ticks>>
    BY <1>7 DEF alarmVars
  <2>2. TimersArmed'
    BY <2>1 DEF AlarmInv, TimersArmed, AlarmTypeOK, Stopped, DueTime
  <2>3. StageInv' /\ ElapsedInv'
    BY <2>1 DEF AlarmInv, StageInv, ElapsedInv
  <2>4. WakeupQueues' = WakeupQueues /\ \A t : DueTime(t)' = DueTime(t)
    BY <2>1 DEF WakeupQueues, DueTime
  <2>5. StaleInv' /\ SleepInv'
    BY <2>1, <2>4 DEF AlarmInv, StaleInv, SleepInv, ToRing, HasRung,
       RtcTicks, wall
  <2> QED
    BY <2>2, <2>3, <2>5 DEF AlarmInv
<1> QED
  BY <1>1, <1>2, <1>3, <1>4, <1>5, <1>6, <1>7 DEF AlarmNext

-----------------------------------------------------------------------------
(* The invariant holds in every state.                                     *)
THEOREM AlarmInvariant == AlarmSpec => []AlarmInv
  BY AlarmInvInit, AlarmInvStep, PTL DEF AlarmSpec

(* Through set times, aborted suspends and resumes every queue that is     *)
(* neither stopped nor suspended has its timer running for its alarm.      *)
THEOREM TimersTheorem == AlarmSpec => []TimersArmed
<1>1. AlarmInv => TimersArmed
  BY DEF AlarmInv
<1> QED
  BY <1>1, AlarmInvariant, PTL

(* alarm_set_rtc does not move elapsed realtime, but for the time between  *)
(* reading the clock and setting it.                                       *)
THEOREM ElapsedTheorem == AlarmSpec => []ElapsedPreserved
<1>1. AlarmInv => ElapsedPreserved
  <2> SUFFICES ASSUME AlarmInv, ~stopped, ~set_failed
               PROVE  alarm_get_elapsed_realtime = real - lag
    BY DEF ElapsedPreserved
  <2>1. delta[ELAPSED_REALTIME] = lag + wall_offset
    BY DEF AlarmInv, StageInv, ElapsedInv
  <2>2. lag \in Int /\ real \in Int /\ wall_offset \in Int
    BY DEF AlarmInv, TimersArmed, AlarmTypeOK
  <2> QED
    BY <2>1, <2>2 DEF alarm_get_elapsed_realtime, wall
<1> QED
  BY <1>1, AlarmInvariant, PTL

(* A sleeping system is woken in time for every wakeup alarm: the RTC is   *)
(* set early enough, and when it rings before the processor is off, its    *)
(* wake lock keeps the system from sleeping, unless the devices take more  *)
(* than two seconds.                                                       *)
THEOREM SleepTheorem == AlarmSpec => []NeverSleepsPastAlarm
<1>1. AlarmInv => NeverSleepsPastAlarm
  <2> SUFFICES ASSUME AlarmInv, pm = "asleep", NEW t \in WakeupQueues
               PROVE  RangTooEarly \/ wall <= DueTime(t)
    BY DEF NeverSleepsPastAlarm
  <2>1. ToRing \/ HasRung
    BY DEF AlarmInv, SleepInv
  <2>2. CASE HasRung
    <3>1. rtc_lock = 0 /\ device_ticks \in Int
      BY DEF AlarmInv, StageInv, TimersArmed, AlarmTypeOK
    <3> QED
      BY <2>2, <3>1, AlarmAssumption DEF HasRung, RangTooEarly
  <2>3. CASE ToRing
    <3>1. /\ RtcTicks <= rtc_alarm * Sec
          /\ rtc_alarm * Sec - RtcTicks <= DueTime(t) - wall
      BY <2>3 DEF ToRing
    <3>2. RtcTicks \in Int /\ rtc_alarm * Sec \in Int /\ wall \in Int
      BY AlarmAssumption DEF AlarmInv, TimersArmed, AlarmTypeOK, RtcTicks, wall
    <3>3. DueTime(t) \in Int
      BY DEF AlarmInv, TimersArmed, AlarmTypeOK, DueTime, WakeupQueues, Wakeup,
         Types, RTC_WAKEUP, ELAPSED_REALTIME_WAKEUP
    <3> QED
      BY <3>1, <3>2, <3>3
  <2> QED
    BY <2>1, <2>2, <2>3
<1> QED
  BY <1>1, AlarmInvariant, PTL

=============================================================================
