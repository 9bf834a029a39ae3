--------------------------- MODULE AlarmDevProofs ---------------------------
(***************************************************************************)
(* Proofs about AlarmDev: the wake lock covers the alarms, no alarm is     *)
(* lost and a release leaves nothing behind, for every set of types.       *)
(*                                                                         *)
(* None of the three is inductive: each leans on the others and on what    *)
(* holds between the steps of alarm_release, when the lock of the file is  *)
(* given up and timers fire.  Their conjunction with the two parts below   *)
(* is.                                                                     *)
(***************************************************************************)
EXTENDS AlarmDev, TLAPS

(* Who may do what: only the owner's thread waits, a release finds nobody  *)
(* waiting and keeps the ownership to its end, and while the process works *)
(* on the alarms it was told of the device remembers that.                 *)
OwnerInv ==
    /\ releasing = Idle => cancelling = NotCancelling
    /\ releasing # Idle => alarm_opened /\ waiter = "idle" /\ ~told
    /\ waiter # "idle" => alarm_opened
    /\ told => wait_pending

(* In the middle of a release, the types it is done with are disabled, and *)
(* out of the queue but for the one it is about to cancel; nothing is owed *)
(* to the process.                                                         *)
ReleaseInv ==
    releasing # Idle =>
        /\ alarm_enabled \subseteq releasing
        /\ queued \subseteq releasing \cup {cancelling}
        /\ asked = {} /\ owed = {}

(* The inductive invariant.                                                *)
DevInv ==
    /\ OwnerInv
    /\ ReleaseInv
    /\ AlarmKeepsAwake
    /\ NoAlarmLost
    /\ NothingLeftBehind

-----------------------------------------------------------------------------
(* No type is the flag of a change of the time or a marker of the release. *)
LEMMA TypeFacts ==
    /\ TIME_CHANGE \notin Types /\ NotCancelling \notin Types
    /\ \A S \in SUBSET Types : S # Idle
<1>1. \A t \in Types : t \in 0..4
  BY DevAssumption
<1> QED
  BY <1>1 DEF TIME_CHANGE, NotCancelling, Idle

(* A device that nobody has opened satisfies the invariant.                *)
LEMMA DevInvInit == DevInit => DevInv
  BY DEF DevInit, DevInv, OwnerInv, ReleaseInv, AlarmKeepsAwake, NoAlarmLost,
     NothingLeftBehind, DevTypeOK

(* ANDROID_ALARM_SET keeps the invariant: the device and the queue take    *)
(* the type together.                                                      *)
LEMMA KeepsSet ==
    ASSUME DevInv, NEW t \in Types, ANDROID_ALARM_SET(t)
    PROVE  DevInv'
<1> USE DEF ANDROID_ALARM_SET, Ioctl
<1>1. OwnerInv'
  BY DEF DevInv, OwnerInv
<1>2. ReleaseInv'
  BY DEF ReleaseInv
<1>3. AlarmKeepsAwake'
  BY DEF DevInv, AlarmKeepsAwake
<1>4. NoAlarmLost'
  BY DEF DevInv, DevTypeOK, NoAlarmLost
<1>5. NothingLeftBehind'
  BY DEF DevInv, NothingLeftBehind
<1> QED
  BY <1>1, <1>2, <1>3, <1>4, <1>5 DEF DevInv

(* ANDROID_ALARM_CLEAR does: the lock goes only with the last alarm.       *)
LEMMA KeepsClear ==
    ASSUME DevInv, NEW t \in Types, ANDROID_ALARM_CLEAR(t)
    PROVE  DevInv'
<1> USE DEF ANDROID_ALARM_CLEAR, Ioctl, ClearLock
<1>1. OwnerInv'
  BY DEF DevInv, OwnerInv
<1>2. ReleaseInv'
  BY DEF ReleaseInv
<1>3. AlarmKeepsAwake'
  BY DEF DevInv, OwnerInv, AlarmKeepsAwake
<1>4. NoAlarmLost'
  BY DEF DevInv, DevTypeOK, NoAlarmLost
<1>5. NothingLeftBehind'
  BY DEF DevInv, NothingLeftBehind
<1> QED
  BY <1>1, <1>2, <1>3, <1>4, <1>5 DEF DevInv

(* ANDROID_ALARM_WAIT does: the lock goes only if no alarm came since.     *)
LEMMA KeepsWaitBegin ==
    ASSUME DevInv, WaitBegin
    PROVE  DevInv'
<1> USE DEF WaitBegin, Ioctl
<1>1. OwnerInv'
  BY DEF DevInv, OwnerInv
<1>2. ReleaseInv'
  BY DEF ReleaseInv
<1>3. AlarmKeepsAwake'
  BY DEF DevInv, AlarmKeepsAwake
<1>4. NoAlarmLost'
  BY DEF DevInv, DevTypeOK, NoAlarmLost
<1>5. NothingLeftBehind'
  BY DEF DevInv, NothingLeftBehind
<1> QED
  BY <1>1, <1>2, <1>3, <1>4, <1>5 DEF DevInv

(* Returning the alarms does: the lock stays until the next call.          *)
LEMMA KeepsWaitReturns ==
    ASSUME DevInv, WaitReturns
    PROVE  DevInv'
<1> USE DEF WaitReturns
<1>1. OwnerInv'
  BY DEF DevInv, OwnerInv
<1>2. ReleaseInv'
  BY DEF DevInv, ReleaseInv
<1>3. AlarmKeepsAwake'
  BY DEF DevInv, AlarmKeepsAwake
<1>4. NoAlarmLost'
  BY DEF DevInv, DevTypeOK, NoAlarmLost
<1>5. NothingLeftBehind'
  BY DEF DevInv, OwnerInv, NothingLeftBehind
<1> QED
  BY <1>1, <1>2, <1>3, <1>4, <1>5 DEF DevInv

(* A change of the time adds a flag that is no alarm.                      *)
LEMMA KeepsSetRtcNotify ==
    ASSUME DevInv, SetRtcNotify
    PROVE  DevInv'
<1> USE DEF SetRtcNotify, wake_up
<1>1. OwnerInv'
  BY DEF DevInv, OwnerInv
<1>2. ReleaseInv'
  BY DEF DevInv, ReleaseInv
<1>3. AlarmKeepsAwake'
  BY TypeFacts DEF DevInv, AlarmKeepsAwake
<1>4. NoAlarmLost'
  BY TypeFacts DEF DevInv, DevTypeOK, NoAlarmLost
<1>5. NothingLeftBehind'
  BY DEF DevInv, NothingLeftBehind
<1> QED
  BY <1>1, <1>2, <1>3, <1>4, <1>5 DEF DevInv

(* A release forgets what the process was owed, ...                        *)
LEMMA KeepsReleaseBegin ==
    ASSUME DevInv, ReleaseBegin
    PROVE  DevInv'
<1> USE DEF ReleaseBegin
<1>1. OwnerInv'
  BY TypeFacts DEF OwnerInv
<1>2. ReleaseInv'
  BY DEF DevInv, DevTypeOK, ReleaseInv, NoAlarmLost
<1>3. AlarmKeepsAwake'
  BY TypeFacts DEF AlarmKeepsAwake
<1>4. NoAlarmLost'
  BY TypeFacts DEF DevInv, DevTypeOK, NoAlarmLost
<1>5. NothingLeftBehind'
  BY DEF DevInv, NothingLeftBehind
<1> QED
  BY <1>1, <1>2, <1>3, <1>4, <1>5 DEF DevInv

(* ... disables a type, ...                                                *)
LEMMA KeepsReleaseDisable ==
    ASSUME DevInv, NEW t \in Types, ReleaseDisable(t)
    PROVE  DevInv'
<1> USE DEF ReleaseDisable
<1>1. OwnerInv'
  BY TypeFacts DEF DevInv, DevTypeOK, OwnerInv, NoAlarmLost
<1>2. ReleaseInv'
  BY TypeFacts DEF DevInv, DevTypeOK, ReleaseInv, NoAlarmLost
<1>3. AlarmKeepsAwake'
  BY TypeFacts DEF DevInv, DevTypeOK, AlarmKeepsAwake, NoAlarmLost
<1>4. NoAlarmLost'
  BY TypeFacts DEF DevInv, DevTypeOK, NoAlarmLost
<1>5. NothingLeftBehind'
  BY DEF DevInv, NothingLeftBehind
<1> QED
  BY <1>1, <1>2, <1>3, <1>4, <1>5 DEF DevInv

(* ... cancels it, ...                                                     *)
LEMMA KeepsReleaseCancel ==
    ASSUME DevInv, ReleaseCancel
    PROVE  DevInv'
<1> USE DEF ReleaseCancel
<1>1. OwnerInv'
  BY DEF DevInv, OwnerInv
<1>2. ReleaseInv'
  BY DEF DevInv, ReleaseInv
<1>3. AlarmKeepsAwake'
  BY DEF DevInv, AlarmKeepsAwake
<1>4. NoAlarmLost'
  BY DEF DevInv, DevTypeOK, OwnerInv, NoAlarmLost
<1>5. NothingLeftBehind'
  BY DEF DevInv, NothingLeftBehind
<1> QED
  BY <1>1, <1>2, <1>3, <1>4, <1>5 DEF DevInv

(* ... and gives up the lock when all are gone.                            *)
LEMMA KeepsReleaseEnd ==
    ASSUME DevInv, ReleaseEnd
    PROVE  DevInv'
<1> USE DEF ReleaseEnd, ReleaseLock
<1>1. OwnerInv'
  BY TypeFacts DEF DevInv, OwnerInv
<1>2. ReleaseInv'
  BY DEF ReleaseInv
<1>3. AlarmKeepsAwake'
  BY TypeFacts DEF DevInv, OwnerInv, AlarmKeepsAwake
<1>4. NoAlarmLost'
  BY TypeFacts DEF DevInv, DevTypeOK, ReleaseInv, NoAlarmLost
<1>5. NothingLeftBehind'
  BY TypeFacts DEF DevInv, DevTypeOK, ReleaseInv, NoAlarmLost,
     NothingLeftBehind
<1> QED
  BY <1>1, <1>2, <1>3, <1>4, <1>5 DEF DevInv

(* The interrupt takes the lock for an enabled alarm; one the release has  *)
(* disabled goes unnoticed.                                                *)
LEMMA KeepsTriggered ==
    ASSUME DevInv, NEW t \in Types, alarm_triggered(t)
    PROVE  DevInv'
<1> USE DEF alarm_triggered, wake_up
<1>1. OwnerInv'
  BY DEF DevInv, OwnerInv
<1>2. ReleaseInv'
  BY DEF DevInv, ReleaseInv
<1>3. AlarmKeepsAwake'
  BY DEF DevInv, AlarmKeepsAwake
<1>4. NoAlarmLost'
  BY DEF DevInv, DevTypeOK, NoAlarmLost
<1>5. NothingLeftBehind'
  BY DEF DevInv, NothingLeftBehind
<1> QED
  BY <1>1, <1>2, <1>3, <1>4, <1>5 DEF DevInv

(* The wait queue, the start of a change of the time and the timeout of    *)
(* the lock touch nothing that the invariant protects.                     *)
LEMMA KeepsQuietSteps ==
    ASSUME DevInv, \/ WaitWoken \/ WaitSleeps \/ Signal \/ WaitInterrupted
                   \/ SetRtcBegin \/ WakeLockExpires
    PROVE  DevInv'
<1> USE DEF WaitWoken, WaitSleeps, Signal, WaitInterrupted, WaiterGoes, SetRtcBegin,
            WakeLockExpires
<1>1. OwnerInv'
  BY DEF DevInv, OwnerInv
<1>2. ReleaseInv'
  BY DEF DevInv, ReleaseInv
<1>3. AlarmKeepsAwake'
  BY DEF DevInv, AlarmKeepsAwake
<1>4. NoAlarmLost'
  BY DEF DevInv, NoAlarmLost, DevTypeOK
<1>5. NothingLeftBehind'
  BY DEF DevInv, NothingLeftBehind
<1> QED
  BY <1>1, <1>2, <1>3, <1>4, <1>5 DEF DevInv

(* Every step of the system keeps the invariant.                           *)
LEMMA DevInvStep == DevInv /\ [DevNext]_devVars => DevInv'
<1> SUFFICES ASSUME DevInv, [DevNext]_devVars
             PROVE  DevInv'
  OBVIOUS
<1>1. ASSUME NEW t \in Types, ANDROID_ALARM_SET(t)
      PROVE  DevInv'
  BY <1>1, KeepsSet
<1>2. ASSUME NEW t \in Types, ANDROID_ALARM_CLEAR(t)
      PROVE  DevInv'
  BY <1>2, KeepsClear
<1>3. CASE WaitBegin
  BY <1>3, KeepsWaitBegin
<1>4. CASE WaitReturns
  BY <1>4, KeepsWaitReturns
<1>5. CASE SetRtcNotify
  BY <1>5, KeepsSetRtcNotify
<1>6. CASE ReleaseBegin
  BY <1>6, KeepsReleaseBegin
<1>7. ASSUME NEW t \in Types, ReleaseDisable(t)
      PROVE  DevInv'
  BY <1>7, KeepsReleaseDisable
<1>8. CASE ReleaseCancel
  BY <1>8, KeepsReleaseCancel
<1>9. CASE ReleaseEnd
  BY <1>9, KeepsReleaseEnd
<1>10. ASSUME NEW t \in Types, alarm_triggered(t)
       PROVE  DevInv'
  BY <1>10, KeepsTriggered
<1>11. CASE \/ WaitWoken \/ WaitSleeps \/ Signal \/ WaitInterrupted
            \/ SetRtcBegin \/ WakeLockExpires
  BY <1>11, KeepsQuietSteps
<1>12. CASE UNCHANGED devVars
  BY <1>12 DEF devVars, DevInv, OwnerInv, ReleaseInv, AlarmKeepsAwake,
     NoAlarmLost, NothingLeftBehind, DevTypeOK
<1> QED
  BY <1>1, <1>2, <1>3, <1>4, <1>5, <1>6, <1>7, <1>8, <1>9, <1>10, <1>11,
     <1>12 DEF DevNext, ReleaseStep

-----------------------------------------------------------------------------
(* The invariant holds in every state of the device.                       *)
THEOREM DevInvariant == DevSpec => []DevInv
  BY DevInvInit, DevInvStep, PTL DEF DevSpec

(* alarm_wake_lock covers an alarm from its interrupt until the process    *)
(* has cleared it or came back to wait (ClearLock, WaitBegin): nothing but *)
(* the five seconds' timeout gives it up before, whatever the process and  *)
(* the timers do in between.                                               *)
THEOREM KeepsAwakeTheorem == DevSpec => []AlarmKeepsAwake
<1>1. DevInv => AlarmKeepsAwake
  BY DEF DevInv
<1> QED
  BY <1>1, DevInvariant, PTL

(* The alarms that were set are the ones enabled in the device and queued  *)
(* in alarm.c, and the ones that went off are pending until the process    *)
(* has them: no ioctl drops another's alarm.                               *)
THEOREM NoAlarmLostTheorem == DevSpec => []NoAlarmLost
<1>1. DevInv => NoAlarmLost
  BY DEF DevInv
<1> QED
  BY <1>1, DevInvariant, PTL

(* alarm_release leaves no alarm enabled or queued and no wake lock held,  *)
(* although it gives alarm_slock up around each alarm_cancel and timers    *)
(* fire there.                                                             *)
THEOREM NothingLeftTheorem == DevSpec => []NothingLeftBehind
<1>1. DevInv => NothingLeftBehind
  BY DEF DevInv
<1> QED
  BY <1>1, DevInvariant, PTL

=============================================================================
