------------------------- MODULE EarlySuspendProofs -------------------------
(***************************************************************************)
(* Proofs about WakeLock and EarlySuspend, for any locks, timeouts,        *)
(* handlers, levels and writers.                                           *)
(*                                                                         *)
(* First WakeLock alone.  Neither of its safety properties is inductive.   *)
(* That the CPU goes off only when no lock prevents it needs the same fact *)
(* in the window between power_suspend_late and CpuOff; that suspend is    *)
(* never forgotten needs TimerCoversTimeouts, because a timer that fired   *)
(* before the last timeout ran out would leave nobody to look again.       *)
(*                                                                         *)
(* The wake lock invariant WLInv is one of the composed system, too: early *)
(* suspend and the sync work reach the locks through wake_lock and         *)
(* wake_unlock only, and share the work queue.  On top of it comes ESInv,  *)
(* what the thread knows half way through the handlers: without it the     *)
(* claims about the state between two walks are not inductive.             *)
(***************************************************************************)
EXTENDS EarlySuspend, FiniteSetTheorems, TLAPS

CommittedRespectsLocks ==
    worker \in {"committed", "asleep"} =>
        \A l \in SuspendLocks : Prevents(l) => l \in taken_late

WLInv ==
    /\ WLTypeOK
    /\ TimerCoversTimeouts
    /\ NoLostSuspend
    /\ CommittedRespectsLocks

-----------------------------------------------------------------------------
(* The walk of has_wake_lock_locked: what its result says about the locks, *)
(* for locks with flags f and expiry e.                                    *)
LEMMA WalkResult ==
    ASSUME NEW f \in [Locks -> Flags], NEW e \in [Locks -> 0..MaxTimeout],
           NEW ret \in Returns, has_wake_lock_locked(f, e, ret)
    PROVE  /\ HasHeld(f) <=> ret = -1
           /\ ~HasHeld(f) => \A l \in SuspendLocks : f[l] = "timed" => e[l] <= ret
           /\ ret > 0 => \E l \in SuspendLocks : f[l] = "timed" /\ e[l] > 0
<1> DEFINE left == {e[l] : l \in {k \in SuspendLocks : f[k] = "timed"}}
<1>1. \A l \in SuspendLocks : l \in Locks
  BY DEF SuspendLocks
<1>2. left \subseteq 0..MaxTimeout
  BY <1>1
<1>3. CASE HasHeld(f)
  BY <1>3 DEF has_wake_lock_locked
<1>4. CASE ~HasHeld(f)
  <2>1. ret \in left \cup {0} /\ \A t \in left : t <= ret
    BY <1>4 DEF has_wake_lock_locked
  <2>2. ret # -1
    BY <2>1, <1>2, TimeoutAssumption
  <2>3. \A l \in SuspendLocks : f[l] = "timed" => e[l] <= ret
    BY <2>1
  <2>4. ret > 0 => \E l \in SuspendLocks : f[l] = "timed" /\ e[l] > 0
    BY <2>1
  <2> QED
    BY <1>4, <2>2, <2>3, <2>4
<1> QED
  BY <1>3, <1>4

(* Expiring locks keeps flags well typed and frees no lock that still      *)
(* prevents suspend.                                                       *)
LEMMA ExpireResult ==
    ASSUME NEW f \in [Locks -> Flags], NEW e \in [Locks -> 0..MaxTimeout],
           NEW g, g = expire_wake_lock(f, e)
    PROVE  /\ g \in [Locks -> Flags]
           /\ HasHeld(g) <=> HasHeld(f)
           /\ \A l \in SuspendLocks :
                 /\ g[l] = "held" <=> f[l] = "held"
                 /\ (g[l] = "timed" /\ e[l] > 0) <=> (f[l] = "timed" /\ e[l] > 0)
<1>1. \A l \in SuspendLocks : l \in Locks
  BY DEF SuspendLocks
<1>2. g \in [Locks -> Flags]
  BY DEF expire_wake_lock, Flags
<1>3. \A l \in SuspendLocks :
         /\ g[l] = "held" <=> f[l] = "held"
         /\ (g[l] = "timed" /\ e[l] > 0) <=> (f[l] = "timed" /\ e[l] > 0)
  BY <1>1 DEF expire_wake_lock, Flags
<1>4. HasHeld(g) <=> HasHeld(f)
  BY <1>3 DEF HasHeld
<1> QED
  BY <1>2, <1>3, <1>4

(* queue_work keeps the queue well typed and leaves the work pending.      *)
LEMMA QueueWork ==
    ASSUME work_queue \in Seq(Works), NEW w \in Works,
           work_queue' = queue_work(w)
    PROVE  work_queue' \in Seq(Works) /\ Queued(w)'
<1>1. CASE Queued(w)
  BY <1>1 DEF queue_work, Queued
<1>2. CASE ~Queued(w)
  <2>1. work_queue' = Append(work_queue, w)
    BY <1>2 DEF queue_work
  <2>2. work_queue' \in Seq(Works) /\ Len(work_queue') = Len(work_queue) + 1
    BY <2>1
  <2>3. work_queue'[Len(work_queue')] = w
    BY <2>1, <2>2
  <2> QED
    BY <2>2, <2>3 DEF Queued
<1> QED
  BY <1>1, <1>2

(* An operation that ends by moving the timer and queueing the suspend     *)
(* work, as wake_lock_timeout and wake_unlock do, leaves suspend provided  *)
(* for.                                                                    *)
LEMMA Rearm ==
    ASSUME WLTypeOK,
           NEW f \in [Locks -> Flags], NEW e \in [Locks -> 0..MaxTimeout],
           NEW ret \in Returns, has_wake_lock_locked(f, e, ret),
           flags' = expire_wake_lock(f, e), expires' = e,
           SetExpireTimer(ret), QueueSuspend(ret)
    PROVE  /\ flags' \in [Locks -> Flags]
           /\ expire_timer' \in {NotPending} \cup (0..MaxTimeout)
           /\ work_queue' \in Seq(Works)
           /\ TimerCoversTimeouts'
           /\ NoLostSuspend'
<1>1. \A l \in SuspendLocks : l \in Locks
  BY DEF SuspendLocks
<1>2. /\ HasHeld(f) <=> ret = -1
      /\ ~HasHeld(f) => \A l \in SuspendLocks : f[l] = "timed" => e[l] <= ret
  BY WalkResult
<1>3. /\ flags' \in [Locks -> Flags]
      /\ HasHeld(flags') <=> HasHeld(f)
      /\ \A l \in SuspendLocks :
            /\ flags'[l] = "held" <=> f[l] = "held"
            /\ (flags'[l] = "timed" /\ e[l] > 0) <=> (f[l] = "timed" /\ e[l] > 0)
  BY ExpireResult
<1>4. expire_timer' \in {NotPending} \cup (0..MaxTimeout)
  BY TimeoutAssumption DEF SetExpireTimer, Returns
<1>5. work_queue' \in Seq(Works) /\ (ret = 0 => Queued("suspend")')
  BY QueueWork DEF QueueSuspend, WLTypeOK, Works
<1>6. TimerCoversTimeouts'
  BY <1>1, <1>2, <1>3 DEF TimerCoversTimeouts, Unexpired, SetExpireTimer, Returns
<1>7. NoLostSuspend'
  <2>1. CASE ret = -1
    BY <2>1, <1>2, <1>3 DEF NoLostSuspend, Prevents, HasHeld
  <2>2. CASE ret = 0
    BY <2>2, <1>5 DEF NoLostSuspend
  <2>3. CASE ret > 0
    BY <2>3 DEF NoLostSuspend, SetExpireTimer, NotPending
  <2> QED
    BY <2>1, <2>2, <2>3 DEF Returns
<1> QED
  BY <1>3, <1>4, <1>5, <1>6, <1>7

(* has_wake_lock expires locks and changes nothing that prevents suspend.  *)
LEMMA Look ==
    ASSUME WLTypeOK, NEW ret \in Returns, HasWakeLock(ret)
    PROVE  /\ flags' \in [Locks -> Flags]
           /\ HasHeld(flags') <=> HasHeld(flags)
           /\ \A l \in SuspendLocks :
                 (Prevents(l)' <=> Prevents(l)) /\ (Unexpired(l)' <=> Unexpired(l))
           /\ ret # 0 <=> \E l \in SuspendLocks : Prevents(l)
<1>1. /\ flags \in [Locks -> Flags] /\ expires \in [Locks -> 0..MaxTimeout]
      /\ has_wake_lock_locked(flags, expires, ret)
      /\ flags' = expire_wake_lock(flags, expires)
      /\ expires' = expires
  BY DEF WLTypeOK, HasWakeLock
<1>2. /\ flags' \in [Locks -> Flags]
      /\ HasHeld(flags') <=> HasHeld(flags)
      /\ \A l \in SuspendLocks :
            /\ flags'[l] = "held" <=> flags[l] = "held"
            /\ (flags'[l] = "timed" /\ expires[l] > 0)
                  <=> (flags[l] = "timed" /\ expires[l] > 0)
  BY <1>1, ExpireResult
<1>3. /\ HasHeld(flags) <=> ret = -1
      /\ ~HasHeld(flags) => \A l \in SuspendLocks : flags[l] = "timed" => expires[l] <= ret
      /\ ret > 0 => \E l \in SuspendLocks : flags[l] = "timed" /\ expires[l] > 0
  BY <1>1, WalkResult
<1>4. \A l \in SuspendLocks :
         (Prevents(l)' <=> Prevents(l)) /\ (Unexpired(l)' <=> Unexpired(l))
  BY <1>1, <1>2 DEF Prevents, Unexpired
<1>5. ret # 0 <=> \E l \in SuspendLocks : Prevents(l)
  <2>1. CASE ret = -1
    BY <2>1, <1>3 DEF HasHeld, Prevents
  <2>2. CASE ret > 0
    BY <2>2, <1>3 DEF Prevents, Unexpired
  <2>3. CASE ret = 0
    BY <2>3, <1>1, <1>3 DEF HasHeld, Prevents, Unexpired, SuspendLocks
  <2> QED
    BY <2>1, <2>2, <2>3 DEF Returns
<1> QED
  BY <1>2, <1>4, <1>5

-----------------------------------------------------------------------------
(* The inductive invariant holds initially.                                *)
LEMMA WLInvInit == WLInit => WLInv
<1> SUFFICES ASSUME WLInit PROVE WLInv
  OBVIOUS
<1>1. main_wake_lock \in SuspendLocks /\ main_wake_lock \in Locks
  BY LockAssumption DEF SuspendLocks, Locks
<1>2. WLTypeOK
  <2>1. flags \in [Locks -> Flags] /\ expires \in [Locks -> 0..MaxTimeout]
    BY TimeoutAssumption DEF WLInit, Flags
  <2>2. expire_timer \in {NotPending} \cup (0..MaxTimeout) /\ work_queue \in Seq(Works)
    BY DEF WLInit
  <2>3. worker \in WorkerStates /\ taken_late \in SUBSET Locks
    BY DEF WLInit, WorkerStates
  <2>4. expire_softirq \in BOOLEAN /\ event_seen \in BOOLEAN
    BY DEF WLInit
  <2> QED
    BY <2>1, <2>2, <2>3, <2>4 DEF WLTypeOK
<1>3. flags[main_wake_lock] = "held"
  BY <1>1 DEF WLInit
<1>4. TimerCoversTimeouts
  BY <1>1, <1>3 DEF TimerCoversTimeouts, HasHeld
<1>5. NoLostSuspend
  BY <1>1, <1>3 DEF NoLostSuspend, Prevents
<1>6. CommittedRespectsLocks
  BY DEF WLInit, CommittedRespectsLocks
<1> QED
  BY <1>2, <1>4, <1>5, <1>6 DEF WLInv

(* The callers' operations.  A lock that starts to prevent suspend after   *)
(* power_suspend_late agreed is recorded in taken_late.                    *)
LEMMA LockPreserves ==
    ASSUME WLInv, NEW l \in Locks, wake_lock(l), Running,
           UNCHANGED <<expire_softirq, worker>>,
           work_queue' \in Seq(Works), Queued("suspend") => Queued("suspend")'
    PROVE  WLInv'
<1>1. WLTypeOK'
  <2>1. flags' \in [Locks -> Flags] /\ expires' \in [Locks -> 0..MaxTimeout]
    BY TimeoutAssumption DEF WLInv, WLTypeOK, wake_lock, Flags
  <2>2. taken_late' \in SUBSET Locks /\ event_seen' \in BOOLEAN
    BY DEF WLInv, WLTypeOK, wake_lock, RecordTaken
  <2>3. expire_timer' \in {NotPending} \cup (0..MaxTimeout)
    BY DEF WLInv, WLTypeOK, wake_lock, SetExpireTimer
  <2> QED
    BY <2>1, <2>2, <2>3 DEF WLInv, WLTypeOK
<1>2. CASE l \in SuspendLocks
  <2>1. flags'[l] = "held" /\ HasHeld(flags')
    BY <1>2 DEF WLInv, WLTypeOK, wake_lock, HasHeld
  <2>2. TimerCoversTimeouts' /\ NoLostSuspend'
    BY <1>2, <2>1 DEF TimerCoversTimeouts, NoLostSuspend, Prevents
  <2>3. CommittedRespectsLocks'
    BY <1>2 DEF WLInv, WLTypeOK, CommittedRespectsLocks, Prevents, Unexpired,
              wake_lock, RecordTaken, SuspendLocks, Running
  <2> QED
    BY <1>1, <2>2, <2>3 DEF WLInv
<1>3. CASE l \notin SuspendLocks
  <2>1. \A k \in SuspendLocks : flags'[k] = flags[k] /\ expires'[k] = expires[k]
    BY <1>3 DEF WLInv, WLTypeOK, wake_lock, SuspendLocks
  <2>2. expire_timer' = expire_timer /\ event_seen' = event_seen
    BY <1>3 DEF wake_lock
  <2>3. TimerCoversTimeouts'
    BY <2>1, <2>2 DEF WLInv, TimerCoversTimeouts, HasHeld, Unexpired
  <2>4. NoLostSuspend'
    BY <2>1, <2>2 DEF WLInv, NoLostSuspend, Prevents, Unexpired
  <2>5. CommittedRespectsLocks'
    BY <2>1 DEF WLInv, CommittedRespectsLocks, Prevents, Unexpired, wake_lock,
              RecordTaken
  <2> QED
    BY <1>1, <2>3, <2>4, <2>5 DEF WLInv
<1> QED
  BY <1>2, <1>3

(* wake_lock_timeout walks the list, moves the timer and queues the work,  *)
(* so Rearm says that suspend is provided for; it also records the lock.   *)
LEMMA LockTimeoutPreserves ==
    ASSUME WLInv, NEW l \in Locks, NEW timeout \in 0..MaxTimeout,
           wake_lock_timeout(l, timeout), UNCHANGED expire_softirq, Running,
           \/ worker' = worker
           \/ l \in SuspendLocks /\ worker' = "idle"
    PROVE  WLInv'
<1> DEFINE f == [flags EXCEPT ![l] = "timed"]
           e == [expires EXCEPT ![l] = timeout]
<1>1. f \in [Locks -> Flags] /\ e \in [Locks -> 0..MaxTimeout]
  BY DEF WLInv, WLTypeOK, Flags
<1>2. expires' = e /\ taken_late' \in SUBSET Locks /\ event_seen' \in BOOLEAN
  BY DEF WLInv, WLTypeOK, wake_lock_timeout, RecordTaken
<1>3. CASE l \in SuspendLocks
  <2>1. PICK ret \in Returns :
           /\ has_wake_lock_locked(f, e, ret)
           /\ flags' = expire_wake_lock(f, e)
           /\ SetExpireTimer(ret)
           /\ QueueSuspend(ret)
    BY <1>3 DEF wake_lock_timeout
  <2>2. /\ flags' \in [Locks -> Flags]
        /\ expire_timer' \in {NotPending} \cup (0..MaxTimeout)
        /\ work_queue' \in Seq(Works)
        /\ TimerCoversTimeouts'
        /\ NoLostSuspend'
    <3> HIDE DEF f, e
    <3> QED
      BY <1>1, <1>2, <2>1, Rearm DEF WLInv
  <2>3. WLTypeOK'
    BY <1>1, <1>2, <2>2 DEF WLInv, WLTypeOK, WorkerStates
  <2>4. CommittedRespectsLocks'
    <3> SUFFICES ASSUME worker' = worker, worker \in {"committed", "asleep"},
                        NEW k \in SuspendLocks, Prevents(k)', k # l
                 PROVE  Prevents(k)
      BY <1>3 DEF WLInv, CommittedRespectsLocks, wake_lock_timeout, RecordTaken, Running
    <3>1. /\ flags'[k] = "held" <=> f[k] = "held"
          /\ (flags'[k] = "timed" /\ e[k] > 0) <=> (f[k] = "timed" /\ e[k] > 0)
      <4> HIDE DEF f, e
      <4> QED
        BY <1>1, <2>1, ExpireResult
    <3> QED
      BY <3>1, <1>2 DEF WLInv, WLTypeOK, Prevents, Unexpired, SuspendLocks
  <2> QED
    BY <2>2, <2>3, <2>4 DEF WLInv
<1>4. CASE l \notin SuspendLocks
  <2>1. /\ flags' = f
        /\ UNCHANGED <<event_seen, expire_timer, work_queue>>
    BY <1>4 DEF wake_lock_timeout
  <2>2. \A k \in SuspendLocks : flags'[k] = flags[k] /\ expires'[k] = expires[k]
    BY <1>2, <1>4, <2>1 DEF WLInv, WLTypeOK, SuspendLocks
  <2>3. WLTypeOK'
    BY <1>1, <1>2, <1>4, <2>1 DEF WLInv, WLTypeOK
  <2>4. TimerCoversTimeouts'
    BY <2>1, <2>2 DEF WLInv, TimerCoversTimeouts, HasHeld, Unexpired
  <2>5. NoLostSuspend'
    BY <1>4, <2>1, <2>2 DEF WLInv, NoLostSuspend, Prevents, Unexpired, Queued
  <2>6. CommittedRespectsLocks'
    BY <1>4, <2>2 DEF WLInv, CommittedRespectsLocks, Prevents, Unexpired,
              wake_lock_timeout, RecordTaken
  <2> QED
    BY <2>3, <2>4, <2>5, <2>6 DEF WLInv
<1> QED
  BY <1>3, <1>4

(* wake_unlock ends the same way and only takes a lock away.               *)
LEMMA UnlockPreserves ==
    ASSUME WLInv, NEW l \in Locks, wake_unlock(l), UNCHANGED expire_softirq,
           worker' = worker \/ (worker = "busy" /\ worker' = "idle")
    PROVE  WLInv'
<1> DEFINE f == [flags EXCEPT ![l] = "inactive"]
           e == [expires EXCEPT ![l] = 0]
<1>1. f \in [Locks -> Flags] /\ e \in [Locks -> 0..MaxTimeout]
  BY TimeoutAssumption DEF WLInv, WLTypeOK, Flags
<1>2. expires' = e /\ UNCHANGED <<event_seen, taken_late>>
  BY DEF wake_unlock
<1>3. CASE l \in SuspendLocks
  <2>1. PICK ret \in Returns :
           /\ has_wake_lock_locked(f, e, ret)
           /\ flags' = expire_wake_lock(f, e)
           /\ SetExpireTimer(ret)
           /\ QueueSuspend(ret)
    BY <1>3 DEF wake_unlock
  <2>2. /\ flags' \in [Locks -> Flags]
        /\ expire_timer' \in {NotPending} \cup (0..MaxTimeout)
        /\ work_queue' \in Seq(Works)
        /\ TimerCoversTimeouts'
        /\ NoLostSuspend'
    <3> HIDE DEF f, e
    <3> QED
      BY <1>1, <1>2, <2>1, Rearm DEF WLInv
  <2>3. WLTypeOK'
    BY <1>1, <1>2, <2>2 DEF WLInv, WLTypeOK, WorkerStates
  <2>4. ASSUME NEW k \in SuspendLocks, Prevents(k)' PROVE Prevents(k)
    <3>1. /\ flags'[k] = "held" <=> f[k] = "held"
          /\ (flags'[k] = "timed" /\ e[k] > 0) <=> (f[k] = "timed" /\ e[k] > 0)
      <4> HIDE DEF f, e
      <4> QED
        BY <1>1, <2>1, ExpireResult
    <3> QED
      BY <3>1, <1>2, <2>4 DEF WLInv, WLTypeOK, Prevents, Unexpired, SuspendLocks
  <2>5. CommittedRespectsLocks'
    BY <1>2, <2>4 DEF WLInv, CommittedRespectsLocks
  <2> QED
    BY <2>2, <2>3, <2>5 DEF WLInv
<1>4. CASE l \notin SuspendLocks
  <2>1. flags' = f /\ UNCHANGED <<expire_timer, work_queue>>
    BY <1>4 DEF wake_unlock
  <2>2. \A k \in SuspendLocks : flags'[k] = flags[k] /\ expires'[k] = expires[k]
    BY <1>2, <1>4, <2>1 DEF WLInv, WLTypeOK, SuspendLocks
  <2>3. WLTypeOK'
    BY <1>1, <1>2, <2>1 DEF WLInv, WLTypeOK, WorkerStates
  <2>4. TimerCoversTimeouts'
    BY <2>1, <2>2 DEF WLInv, TimerCoversTimeouts, HasHeld, Unexpired
  <2>5. NoLostSuspend'
    BY <1>2, <2>1, <2>2 DEF WLInv, NoLostSuspend, Prevents, Unexpired, Queued
  <2>6. CommittedRespectsLocks'
    BY <1>2, <2>2 DEF WLInv, CommittedRespectsLocks, Prevents, Unexpired
  <2> QED
    BY <2>3, <2>4, <2>5, <2>6 DEF WLInv
<1> QED
  BY <1>3, <1>4

(* Locks that come and go: none that prevents suspend appears.             *)
LEMMA InitDestroyPreserves ==
    ASSUME WLInv, NEW l \in Locks, wake_lock_init(l) \/ wake_lock_destroy(l),
           UNCHANGED <<expire_softirq, worker>>
    PROVE  WLInv'
<1>1. WLTypeOK'
  BY TimeoutAssumption DEF WLInv, WLTypeOK, wake_lock_init, wake_lock_destroy, Flags
<1>2. UNCHANGED <<expire_timer, work_queue, event_seen, taken_late>>
  BY DEF wake_lock_init, wake_lock_destroy
<1>3. \A k \in Locks :
         /\ flags'[k] = "held" <=> flags[k] = "held"
         /\ flags'[k] = "timed" => flags[k] = "timed" /\ expires'[k] = expires[k]
  BY DEF WLInv, WLTypeOK, wake_lock_init, wake_lock_destroy
<1>4. \A k \in SuspendLocks : Prevents(k)' => Prevents(k)
  BY <1>3 DEF Prevents, Unexpired, SuspendLocks
<1>5. TimerCoversTimeouts'
  BY <1>2, <1>3 DEF WLInv, TimerCoversTimeouts, HasHeld, Unexpired, SuspendLocks
<1>6. NoLostSuspend'
  <2>1. CASE HasHeld(flags)
    BY <2>1, <1>3 DEF HasHeld, NoLostSuspend, Prevents, SuspendLocks
  <2>2. CASE ~HasHeld(flags) /\ \E k \in SuspendLocks : Prevents(k)
    <3>1. expire_timer # NotPending
      BY <2>2 DEF WLInv, WLTypeOK, TimerCoversTimeouts, HasHeld, Prevents,
                Unexpired, NotPending, SuspendLocks
    <3> QED
      BY <3>1, <1>2 DEF NoLostSuspend
  <2>3. CASE \A k \in SuspendLocks : ~Prevents(k)
    BY <2>3, <1>2 DEF WLInv, NoLostSuspend, Queued
  <2> QED
    BY <2>1, <2>2, <2>3
<1>7. CommittedRespectsLocks'
  BY <1>2, <1>4 DEF WLInv, CommittedRespectsLocks
<1> QED
  BY <1>1, <1>5, <1>6, <1>7 DEF WLInv

(* All that drivers, user space and early suspend can call.                *)
LEMMA ClientPreserves == WLInv /\ (DriverNext \/ SystemNext) => WLInv'
<1> SUFFICES ASSUME WLInv, DriverNext \/ SystemNext PROVE WLInv'
  OBVIOUS
<1> USE DEF Locks
<1>1. ASSUME NEW l \in DriverLocks, ClientInit(l) \/ ClientDestroy(l) PROVE WLInv'
  BY <1>1, InitDestroyPreserves DEF ClientInit, ClientDestroy
<1>2. ASSUME NEW l \in Locks, ClientLock(l) PROVE WLInv'
  BY <1>2, LockPreserves DEF ClientLock, WLInv, WLTypeOK, Queued
<1>3. ASSUME NEW l \in DriverLocks, NEW timeout \in Timeouts,
             ClientLockTimeout(l, timeout)
      PROVE  WLInv'
  BY <1>3, LockTimeoutPreserves, TimeoutAssumption DEF ClientLockTimeout
<1>4. ASSUME NEW l \in Locks, ClientUnlock(l) PROVE WLInv'
  BY <1>4, UnlockPreserves DEF ClientUnlock
<1> QED
  BY <1>1, <1>2, <1>3, <1>4 DEF DriverNext, SystemNext

(* Time: locks and timer lose a jiffy together, and the timer only fires   *)
(* when no timeout is left.                                                *)
LEMMA TimePreserves == WLInv /\ (Tick \/ TimerNext) => WLInv'
<1> SUFFICES ASSUME WLInv, Tick \/ TimerNext PROVE WLInv'
  OBVIOUS
<1>1. CASE Tick
  <2>1. /\ \A l \in Locks : expires'[l] = IF expires[l] > 0 THEN expires[l] - 1 ELSE 0
        /\ expires' \in [Locks -> 0..MaxTimeout]
        /\ expire_timer' = IF expire_timer > 0 THEN expire_timer - 1 ELSE expire_timer
        /\ UNCHANGED <<flags, expire_softirq, work_queue, worker, event_seen, taken_late>>
    BY <1>1, TimeoutAssumption DEF Tick, WLInv, WLTypeOK
  <2>2. WLTypeOK'
    <3>1. expire_timer' \in {NotPending} \cup (0..MaxTimeout)
      BY <2>1, TimeoutAssumption DEF WLInv, WLTypeOK, NotPending
    <3> QED
      BY <2>1, <3>1 DEF WLInv, WLTypeOK
  <2>3. \A l \in SuspendLocks : Prevents(l)' => Prevents(l)
    BY <2>1 DEF WLInv, WLTypeOK, Prevents, Unexpired, SuspendLocks
  <2>4. TimerCoversTimeouts'
    BY <2>1 DEF WLInv, WLTypeOK, TimerCoversTimeouts, HasHeld, Unexpired, SuspendLocks,
              NotPending
  <2>5. NoLostSuspend'
    <3>1. CASE \A k \in SuspendLocks : ~Prevents(k)
      BY <3>1, <2>1 DEF WLInv, WLTypeOK, NoLostSuspend, Queued, NotPending
    <3>2. CASE HasHeld(flags)
      BY <3>2, <2>1 DEF HasHeld, NoLostSuspend, Prevents
    <3>3. CASE ~HasHeld(flags) /\ \E k \in SuspendLocks : Prevents(k)
      <4>1. expire_timer > 0
        BY <3>3 DEF WLInv, WLTypeOK, TimerCoversTimeouts, HasHeld, Prevents,
                  Unexpired, NotPending, SuspendLocks
      <4> QED
        BY <4>1, <2>1 DEF WLInv, WLTypeOK, NoLostSuspend, NotPending
    <3> QED
      BY <3>1, <3>2, <3>3
  <2>6. CommittedRespectsLocks'
    BY <2>1, <2>3 DEF WLInv, CommittedRespectsLocks
  <2> QED
    BY <2>2, <2>4, <2>5, <2>6 DEF WLInv
<1>2. CASE TimerFires
  <2>1. /\ expire_timer = 0 /\ expire_timer' = NotPending
        /\ UNCHANGED <<flags, expires, work_queue, worker, event_seen, taken_late>>
    BY <1>2 DEF TimerFires
  <2>2. expire_softirq'
    BY <1>2 DEF TimerFires
  <2>3. WLTypeOK'
    BY <1>2, <2>1 DEF WLInv, WLTypeOK, TimerFires
  <2>4. TimerCoversTimeouts'
    BY <2>1 DEF WLInv, WLTypeOK, TimerCoversTimeouts, HasHeld, Unexpired, SuspendLocks
  <2>5. NoLostSuspend'
    BY <2>2 DEF NoLostSuspend
  <2>6. CommittedRespectsLocks'
    BY <2>1 DEF WLInv, CommittedRespectsLocks, Prevents, Unexpired
  <2> QED
    BY <2>3, <2>4, <2>5, <2>6 DEF WLInv
<1>3. CASE expire_wake_locks
  <2>1. PICK ret \in Returns : HasWakeLock(ret) /\ QueueSuspend(ret)
    BY <1>3 DEF expire_wake_locks
  <2>2. /\ flags' \in [Locks -> Flags]
        /\ HasHeld(flags') <=> HasHeld(flags)
        /\ \A l \in SuspendLocks :
              (Prevents(l)' <=> Prevents(l)) /\ (Unexpired(l)' <=> Unexpired(l))
        /\ ret # 0 <=> \E l \in SuspendLocks : Prevents(l)
    BY <2>1, Look DEF WLInv
  <2>3. UNCHANGED <<expires, expire_timer, worker, event_seen, taken_late>>
    BY <1>3, <2>1 DEF expire_wake_locks, HasWakeLock
  <2>4. work_queue' \in Seq(Works) /\ (ret = 0 => Queued("suspend")')
    BY <2>1, QueueWork DEF WLInv, QueueSuspend, WLTypeOK, Works
  <2>5. WLTypeOK'
    BY <1>3, <2>2, <2>3, <2>4 DEF WLInv, WLTypeOK, expire_wake_locks
  <2>6. TimerCoversTimeouts'
    BY <2>2, <2>3 DEF WLInv, TimerCoversTimeouts
  <2>7. NoLostSuspend'
    BY <2>2, <2>4 DEF NoLostSuspend
  <2>8. CommittedRespectsLocks'
    BY <2>2, <2>3 DEF WLInv, CommittedRespectsLocks
  <2> QED
    BY <2>5, <2>6, <2>7, <2>8 DEF WLInv
<1> QED
  BY <1>1, <1>2, <1>3 DEF TimerNext

(* suspend(): it stops looking only when a lock will make it look again,   *)
(* and commits only when no lock prevents it.                              *)
LEMMA SuspendPreserves == WLInv /\ SuspendNext => WLInv'
<1> SUFFICES ASSUME WLInv, SuspendNext PROVE WLInv'
  OBVIOUS
<1> DEFINE Same == UNCHANGED <<flags, expires, expire_timer, expire_softirq>>
<1>0. ASSUME Same
      PROVE  /\ TimerCoversTimeouts'
             /\ \A l \in SuspendLocks : Prevents(l)' <=> Prevents(l)
  BY <1>0 DEF WLInv, TimerCoversTimeouts, HasHeld, Unexpired, Prevents
<1>1. CASE StartSuspend
  <2>1. Same /\ UNCHANGED <<event_seen, taken_late>> /\ worker' = "suspend"
    BY <1>1 DEF StartSuspend
  <2>2. work_queue' \in Seq(Works)
    BY <1>1 DEF StartSuspend, WLInv, WLTypeOK
  <2>3. WLTypeOK'
    BY <2>1, <2>2 DEF WLInv, WLTypeOK, WorkerStates
  <2> QED
    BY <1>0, <2>1, <2>3 DEF WLInv, NoLostSuspend, CommittedRespectsLocks
<1>2. CASE SuspendCheck \/ FreezerLooks \/ power_suspend_late
  <2>1. PICK ret \in Returns :
           /\ HasWakeLock(ret)
           /\ \/ worker = "suspend" /\ worker' = IF ret # 0 THEN "idle" ELSE "checked"
              \/ worker = "entered" /\ worker' = IF ret # 0 THEN "returned" ELSE "entered"
              \/ worker = "entered" /\ worker' = IF ret # 0 THEN "returned" ELSE "committed"
    BY <1>2 DEF SuspendCheck, FreezerLooks, power_suspend_late
  <2>2. /\ flags' \in [Locks -> Flags]
        /\ HasHeld(flags') <=> HasHeld(flags)
        /\ \A l \in SuspendLocks :
              (Prevents(l)' <=> Prevents(l)) /\ (Unexpired(l)' <=> Unexpired(l))
        /\ ret # 0 <=> \E l \in SuspendLocks : Prevents(l)
    BY <2>1, Look DEF WLInv
  <2>3. UNCHANGED <<expires, expire_timer, expire_softirq, work_queue, event_seen,
                    taken_late>>
    BY <1>2, <2>1 DEF SuspendCheck, FreezerLooks, power_suspend_late, HasWakeLock
  <2>4. WLTypeOK'
    BY <2>1, <2>2, <2>3 DEF WLInv, WLTypeOK, WorkerStates
  <2>5. TimerCoversTimeouts'
    BY <2>2, <2>3 DEF WLInv, TimerCoversTimeouts
  <2>6. NoLostSuspend'
    BY <2>1, <2>2, <2>3 DEF WLInv, NoLostSuspend, Queued
  <2>7. CommittedRespectsLocks'
    BY <2>1, <2>2 DEF CommittedRespectsLocks
  <2> QED
    BY <2>4, <2>5, <2>6, <2>7 DEF WLInv
<1>3. CASE SuspendEntry
  <2>1. Same /\ UNCHANGED <<work_queue, taken_late>> /\ worker' = "entered" /\ event_seen' = FALSE
    BY <1>3 DEF SuspendEntry
  <2>2. WLTypeOK'
    BY <2>1 DEF WLInv, WLTypeOK, WorkerStates
  <2> QED
    BY <1>0, <2>1, <2>2 DEF WLInv, NoLostSuspend, CommittedRespectsLocks
<1>4. CASE SuspendFails \/ CpuOff \/ CpuOn
  <2>1. /\ Same
        /\ UNCHANGED <<work_queue, event_seen>>
        /\ worker \in {"entered", "committed", "asleep"}
        /\ \/ worker' = "returned" /\ taken_late' = {}
           \/ worker = "committed" /\ worker' = "asleep" /\ taken_late' = taken_late
    BY <1>4 DEF SuspendFails, CpuOff, CpuOn
  <2>2. WLTypeOK'
    BY <2>1 DEF WLInv, WLTypeOK, WorkerStates
  <2>3. NoLostSuspend'
    BY <1>0, <2>1 DEF WLInv, NoLostSuspend, Queued
  <2>4. CommittedRespectsLocks'
    BY <1>0, <2>1 DEF WLInv, CommittedRespectsLocks
  <2> QED
    BY <1>0, <2>1, <2>2, <2>3, <2>4 DEF WLInv
<1>5. CASE SuspendReturns
  <2>1. CASE event_seen
    <3>1. /\ Same /\ UNCHANGED <<work_queue, event_seen, taken_late>>
          /\ worker = "returned" /\ worker' = "idle"
      BY <1>5, <2>1 DEF SuspendReturns
    <3>2. WLTypeOK'
      BY <3>1 DEF WLInv, WLTypeOK, WorkerStates
    <3>3. NoLostSuspend'
      BY <1>0, <2>1, <3>1 DEF WLInv, NoLostSuspend, Queued
    <3> QED
      BY <1>0, <3>1, <3>2, <3>3 DEF WLInv, CommittedRespectsLocks
  <2>2. CASE ~event_seen
    <3>1. /\ wake_lock_timeout(unknown_wakeup, UnknownTimeout)
          /\ worker = "returned" /\ worker' = "idle" /\ UNCHANGED expire_softirq
      BY <1>5, <2>2 DEF SuspendReturns
    <3>2. unknown_wakeup \in Locks /\ unknown_wakeup \in SuspendLocks
      BY LockAssumption DEF Locks, SuspendLocks
    <3>3. UnknownTimeout \in 0..MaxTimeout
      BY TimeoutAssumption
    <3> QED
      BY <3>1, <3>2, <3>3, LockTimeoutPreserves DEF Running
  <2> QED
    BY <2>1, <2>2
<1> QED
  BY <1>1, <1>2, <1>3, <1>4, <1>5 DEF SuspendNext

(* Steps of other components leave the variables alone.                    *)
LEMMA StutterPreserves == WLInv /\ UNCHANGED wlVars => WLInv'
BY DEF wlVars, WLInv, WLTypeOK, TimerCoversTimeouts, NoLostSuspend,
       CommittedRespectsLocks, HasHeld, Unexpired, Prevents, Queued

(* The inductive invariant is preserved by every step of the wake locks.   *)
LEMMA WLInvNext == WLInv /\ [WLNext]_wlVars => WLInv'
BY ClientPreserves, TimePreserves, SuspendPreserves, StutterPreserves DEF WLNext

(* The invariant holds in every state of every behaviour.                  *)
LEMMA WLInvariant == WLSpec => []WLInv
BY WLInvInit, WLInvNext, PTL DEF WLSpec, WLSafeSpec

(* Type correctness, for every set of locks and every timeout bound.       *)
THEOREM WLTypeCorrect == WLSpec => []WLTypeOK
BY WLInvariant, PTL DEF WLInv

(* wake locks do prevent suspend: in every state in which the CPU is off,  *)
(* whatever lock is active was taken after power_suspend_late had looked.  *)
THEOREM SleepSafety == WLSpec => []SleepRespectsLocks
<1>1. WLInv => SleepRespectsLocks
  BY DEF WLInv, CommittedRespectsLocks, SleepRespectsLocks
<1> QED
  BY <1>1, WLInvariant, PTL

(* Suspend is never forgotten, however the calls of drivers, the timer and *)
(* suspend() itself interleave.                                            *)
THEOREM SuspendNotLost == WLSpec => []NoLostSuspend
BY WLInvariant, PTL DEF WLInv

(* The expiry timer never fires before the last timeout has run out.       *)
THEOREM TimerCovers == WLSpec => []TimerCoversTimeouts
BY WLInvariant, PTL DEF WLInv

-----------------------------------------------------------------------------
(* EarlySuspend.                                                           *)

(* A work is queued at most once.                                          *)
QueueInv ==
    \A i, j \in 1..Len(work_queue) : work_queue[i] = work_queue[j] => i = j

(* The thread is busy exactly while it runs early_suspend or late_resume.  *)
BusyInv == worker = "busy" <=> es_pc # "none"

(* A handler is on the list once.                                          *)
ListInv ==
    \A i, j \in 1..Len(early_suspend_handlers) :
        early_suspend_handlers[i] = early_suspend_handlers[j] => i = j

(* Half way through a walk: the handlers before it have been suspended, or *)
(* those behind it resumed.                                                *)
WalkInv ==
    /\ es_pc = "suspending" =>
          /\ suspended
          /\ pos >= 1
          /\ \A i \in 1..Len(early_suspend_handlers) :
                i < pos /\ early_suspend_handlers[i] \in SuspendCb
                    => early_suspend_handlers[i] \in down
    /\ es_pc = "resuming" =>
          /\ ~suspended
          /\ pos <= Len(early_suspend_handlers)
          /\ \A i \in 1..Len(early_suspend_handlers) :
                i > pos /\ early_suspend_handlers[i] \in ResumeCb
                    => early_suspend_handlers[i] \notin down

(* From the last look on, main_wake_lock stays free: its writers are       *)
(* frozen.                                                                 *)
CommittedUnlocked ==
    worker \in {"committed", "asleep"} => flags[main_wake_lock] # "held"

CompletedInv == completed => es_pc \in {"resuming", "late_end"}

ESInv ==
    /\ WLInv
    /\ ESTypeOK
    /\ QueueInv
    /\ BusyInv
    /\ ListInv
    /\ WalkInv
    /\ HandlersFollowState
    /\ MainLockGuardsHandlers
    /\ CommittedUnlocked
    /\ CompletedInv
    /\ CompletionsBalance

-----------------------------------------------------------------------------
(* Queues.                                                                 *)

(* queue_work adds a work that is not pending and keeps the others.        *)
LEMMA QueueKeeps ==
    ASSUME work_queue \in Seq(Works), NEW w \in Works, QueueInv,
           work_queue' = queue_work(w)
    PROVE  /\ QueueInv'
           /\ \A v \in Works : Queued(v)' <=> (Queued(v) \/ v = w)
<1>1. CASE Queued(w)
  BY <1>1 DEF queue_work, QueueInv, Queued
<1>2. CASE ~Queued(w)
  <2>1. work_queue' = Append(work_queue, w)
    BY <1>2 DEF queue_work
  <2>2. /\ Len(work_queue') = Len(work_queue) + 1
        /\ \A i \in 1..Len(work_queue) : work_queue'[i] = work_queue[i]
        /\ work_queue'[Len(work_queue) + 1] = w
    BY <2>1
  <2> QED
    BY <1>2, <2>2 DEF QueueInv, Queued
<1> QED
  BY <1>1, <1>2

(* The thread takes the first work: it is no longer pending, the others    *)
(* are.                                                                    *)
LEMMA DequeueKeeps ==
    ASSUME work_queue \in Seq(Works), work_queue # <<>>, QueueInv,
           work_queue' = Tail(work_queue)
    PROVE  /\ work_queue' \in Seq(Works)
           /\ QueueInv'
           /\ \A v \in Works : Queued(v)' <=> (Queued(v) /\ v # Head(work_queue))
<1>1. /\ Len(work_queue) >= 1
      /\ work_queue' \in Seq(Works)
      /\ Len(work_queue') = Len(work_queue) - 1
      /\ \A i \in 1..Len(work_queue') : work_queue'[i] = work_queue[i + 1]
      /\ Head(work_queue) = work_queue[1]
  OBVIOUS
<1>2. QueueInv'
  BY <1>1 DEF QueueInv
<1>3. ASSUME NEW v \in Works, Queued(v)' PROVE Queued(v) /\ v # Head(work_queue)
  BY <1>1, <1>3 DEF Queued, QueueInv
<1>4. ASSUME NEW v \in Works, Queued(v), v # Head(work_queue) PROVE Queued(v)'
  <2>1. PICK i \in 1..Len(work_queue) : work_queue[i] = v
    BY <1>4 DEF Queued
  <2>2. i # 1 /\ i - 1 \in 1..Len(work_queue')
    BY <1>1, <1>4, <2>1
  <2>3. work_queue'[i - 1] = v
    BY <1>1, <2>1, <2>2
  <2> QED
    BY <2>2, <2>3 DEF Queued
<1> QED
  BY <1>1, <1>2, <1>3, <1>4

-----------------------------------------------------------------------------
(* What the steps of the wake locks do to main_wake_lock and to the queue. *)

(* Taking or releasing another lock leaves main_wake_lock held or free.    *)
LEMMA OtherLock ==
    ASSUME WLTypeOK, NEW l \in Locks, l # main_wake_lock,
           \/ wake_lock(l)
           \/ \E t \in 0..MaxTimeout : wake_lock_timeout(l, t)
           \/ wake_unlock(l)
    PROVE  flags'[main_wake_lock] = "held" <=> flags[main_wake_lock] = "held"
<1>0. main_wake_lock \in Locks /\ flags \in [Locks -> Flags]
  BY DEF Locks, WLTypeOK
<1>1. CASE wake_lock(l)
  BY <1>0, <1>1 DEF wake_lock
<1>2. CASE \E t \in 0..MaxTimeout : wake_lock_timeout(l, t)
  BY <1>0, <1>2 DEF wake_lock_timeout, expire_wake_lock
<1>3. CASE wake_unlock(l)
  BY <1>0, <1>3 DEF wake_unlock, expire_wake_lock
<1> QED
  BY <1>1, <1>2, <1>3

(* The same for a step of a driver, of the suspend work or of time, which  *)
(* may queue the suspend work or start it and queues nothing else.         *)
LEMMA WLStepEffect ==
    ASSUME WLTypeOK, DriverNext \/ SuspendNext \/ TimerNext \/ Tick
    PROVE  /\ flags'[main_wake_lock] = "held" <=> flags[main_wake_lock] = "held"
           /\ \/ work_queue' = work_queue
              \/ work_queue' = queue_work("suspend")
              \/ StartSuspend
<1>0. /\ main_wake_lock \in Locks
      /\ flags \in [Locks -> Flags]
      /\ \A l \in DriverLocks : l \in Locks /\ l # main_wake_lock
      /\ unknown_wakeup \in Locks /\ unknown_wakeup # main_wake_lock
  BY LockAssumption DEF Locks, WLTypeOK
<1>1. ASSUME NEW ret \in Returns, HasWakeLock(ret)
      PROVE  flags'[main_wake_lock] = "held" <=> flags[main_wake_lock] = "held"
  BY <1>0, <1>1 DEF HasWakeLock, expire_wake_lock
<1>2. CASE DriverNext
  <2> PICK l \in DriverLocks :
         \/ ClientInit(l)
         \/ ClientDestroy(l)
         \/ ClientLock(l)
         \/ \E timeout \in Timeouts : ClientLockTimeout(l, timeout)
         \/ ClientUnlock(l)
    BY <1>2 DEF DriverNext
  <2>1. CASE ClientInit(l) \/ ClientDestroy(l)
    BY <1>0, <2>1 DEF ClientInit, ClientDestroy, wake_lock_init, wake_lock_destroy
  <2>2. CASE ClientLock(l)
    BY <1>0, <2>2, OtherLock DEF ClientLock
  <2>3. CASE \E timeout \in Timeouts : ClientLockTimeout(l, timeout)
    <3>1. PICK timeout \in 0..MaxTimeout : wake_lock_timeout(l, timeout)
      BY <2>3, TimeoutAssumption DEF ClientLockTimeout
    <3>2. work_queue' = work_queue \/ work_queue' = queue_work("suspend")
      BY <3>1 DEF wake_lock_timeout, QueueSuspend
    <3> QED
      BY <1>0, <3>1, <3>2, OtherLock
  <2>4. CASE ClientUnlock(l)
    <3>1. work_queue' = work_queue \/ work_queue' = queue_work("suspend")
      BY <2>4 DEF ClientUnlock, wake_unlock, QueueSuspend
    <3> QED
      BY <1>0, <2>4, <3>1, OtherLock DEF ClientUnlock
  <2> QED
    BY <2>1, <2>2, <2>3, <2>4
<1>3. CASE StartSuspend
  BY <1>3 DEF StartSuspend
<1>4. CASE SuspendCheck \/ FreezerLooks \/ power_suspend_late
  BY <1>1, <1>4 DEF SuspendCheck, FreezerLooks, power_suspend_late
<1>5. CASE SuspendEntry \/ SuspendFails \/ CpuOff \/ CpuOn
  BY <1>5 DEF SuspendEntry, SuspendFails, CpuOff, CpuOn
<1>6. CASE SuspendReturns
  <2>1. CASE event_seen
    BY <1>6, <2>1 DEF SuspendReturns
  <2>2. CASE ~event_seen
    <3>1. wake_lock_timeout(unknown_wakeup, UnknownTimeout) /\ UnknownTimeout \in 0..MaxTimeout
      BY <1>6, <2>2, TimeoutAssumption DEF SuspendReturns
    <3>2. work_queue' = work_queue \/ work_queue' = queue_work("suspend")
      BY <3>1 DEF wake_lock_timeout, QueueSuspend
    <3> QED
      BY <1>0, <3>1, <3>2, OtherLock
  <2> QED
    BY <2>1, <2>2
<1>7. CASE TimerNext
  <2>1. CASE TimerFires
    BY <2>1 DEF TimerFires
  <2>2. CASE expire_wake_locks
    BY <1>1, <2>2 DEF expire_wake_locks, QueueSuspend
  <2> QED
    BY <1>7, <2>1, <2>2 DEF TimerNext
<1>8. CASE Tick
  BY <1>8 DEF Tick
<1> QED
  BY <1>2, <1>3, <1>4, <1>5, <1>6, <1>7, <1>8 DEF SuspendNext

-----------------------------------------------------------------------------
(* The wake lock invariant in the composed system.                         *)

(* Queueing or starting another work leaves it alone.                      *)
LEMMA OtherWork ==
    ASSUME WLInv, UNCHANGED lockVars, work_queue' \in Seq(Works),
           Queued("suspend") => Queued("suspend")',
           \/ worker' = worker
           \/ worker \in {"idle", "busy"} /\ worker' \in {"idle", "busy"}
    PROVE  WLInv'
<1>1. WLTypeOK'
  BY DEF WLInv, WLTypeOK, lockVars, WorkerStates
<1>2. TimerCoversTimeouts'
  BY DEF WLInv, TimerCoversTimeouts, Unexpired, HasHeld, lockVars
<1>3. NoLostSuspend'
  BY DEF WLInv, NoLostSuspend, Prevents, Unexpired, lockVars
<1>4. CommittedRespectsLocks'
  BY DEF WLInv, CommittedRespectsLocks, Prevents, Unexpired, lockVars
<1> QED
  BY <1>1, <1>2, <1>3, <1>4 DEF WLInv

(* Every step of the composed system preserves the wake lock invariant and *)
(* queues a work at most once.                                             *)
LEMMA WLInvComposed ==
    ASSUME ESInv, ESNext
    PROVE  WLInv' /\ QueueInv'
<1>0. /\ WLInv /\ WLTypeOK /\ work_queue \in Seq(Works) /\ QueueInv
      /\ main_wake_lock \in Locks /\ sys_sync_wake_lock \in Locks
      /\ main_wake_lock \in SuspendLocks /\ sys_sync_wake_lock \in SuspendLocks
      /\ {"suspend", "early_suspend", "late_resume"} = Works
  BY LockAssumption DEF ESInv, WLInv, WLTypeOK, Locks, SuspendLocks, Works
<1>1. CASE DriverNext \/ SuspendStep \/ TimerNext \/ Tick
  <2>1. DriverNext \/ SuspendNext \/ TimerNext \/ Tick
    BY <1>1 DEF SuspendStep
  <2>2. WLInv'
    BY <1>0, <2>1, WLInvNext DEF WLNext
  <2>3. work_queue' = work_queue => QueueInv'
    BY <1>0 DEF QueueInv
  <2>4. work_queue' = queue_work("suspend") => QueueInv'
    BY <1>0, QueueKeeps
  <2>5. StartSuspend => QueueInv'
    BY <1>0, DequeueKeeps DEF StartSuspend
  <2> QED
    BY <1>0, <2>1, <2>2, <2>3, <2>4, <2>5, WLStepEffect
<1>2. CASE UNCHANGED wlVars
  BY <1>0, <1>2, StutterPreserves DEF QueueInv, wlVars
<1>3. ASSUME NEW u \in Users, RequestSleep(u) PROVE WLInv' /\ QueueInv'
  <2>1. work_queue' \in Seq(Works) /\ QueueInv' /\ (Queued("suspend") => Queued("suspend")')
    BY <1>0, <1>3, QueueKeeps, QueueWork DEF RequestSleep
  <2> QED
    BY <1>0, <1>3, <2>1, OtherWork DEF RequestSleep
<1>4. ASSUME NEW u \in Users, RequestOn(u) PROVE WLInv' /\ QueueInv'
  <2>1. work_queue' \in Seq(Works) /\ QueueInv' /\ (Queued("suspend") => Queued("suspend")')
    BY <1>0, <1>4, QueueKeeps, QueueWork DEF RequestOn
  <2>2. Running
    BY <1>4 DEF RequestOn, UserRuns, Running
  <2> QED
    BY <1>0, <1>4, <2>1, <2>2, LockPreserves DEF RequestOn
<1>5. CASE SyncStart
  <2>1. wake_lock(sys_sync_wake_lock) /\ UNCHANGED <<expire_softirq, worker, work_queue>> /\ Running
    BY <1>5 DEF SyncStart
  <2>2. work_queue' \in Seq(Works) /\ QueueInv' /\ (Queued("suspend") => Queued("suspend")')
    BY <1>0, <2>1 DEF QueueInv, Queued
  <2> QED
    BY <1>0, <2>1, <2>2, LockPreserves
<1>6. ASSUME NEW l \in {main_wake_lock, sys_sync_wake_lock}, wake_unlock(l)
      PROVE  QueueInv'
  <2>1. work_queue' = work_queue \/ work_queue' = queue_work("suspend")
    BY <1>6 DEF wake_unlock, QueueSuspend
  <2> QED
    BY <1>0, <2>1, QueueKeeps DEF QueueInv
<1>7. CASE SyncEnd
  BY <1>0, <1>6, <1>7, UnlockPreserves DEF SyncEnd
<1>8. CASE EarlyEnd
  <2>1. worker = "busy" /\ worker' = "idle"
    BY <1>8 DEF EarlyEnd, ESInv, BusyInv
  <2>2. CASE suspend_requested /\ suspended
    BY <1>0, <1>6, <1>8, <2>1, <2>2, UnlockPreserves DEF EarlyEnd
  <2>3. CASE ~(suspend_requested /\ suspended)
    BY <1>0, <1>8, <2>1, <2>3, OtherWork DEF EarlyEnd, QueueInv, Queued
  <2> QED
    BY <2>2, <2>3
<1>9. CASE LateEnd
  <2>1. worker = "busy" /\ worker' = "idle"
    BY <1>9 DEF LateEnd, ESInv, BusyInv
  <2> QED
    BY <1>0, <1>9, <2>1, OtherWork DEF LateEnd, QueueInv, Queued
<1>10. ASSUME NEW w \in {"early_suspend", "late_resume"}, NEW pc, StartWork(w, pc)
       PROVE  WLInv' /\ QueueInv'
  <2>1. work_queue' \in Seq(Works) /\ QueueInv' /\ (Queued("suspend") => Queued("suspend")')
    BY <1>0, <1>10, DequeueKeeps DEF StartWork
  <2> QED
    BY <1>0, <1>10, <2>1, OtherWork DEF StartWork
<1>11. CASE HandlerNext
  <2>1. CASE EarlyBegin \/ EarlyHandler \/ LateBegin \/ LateHandler
    BY <1>2, <2>1 DEF EarlyBegin, EarlyHandler, LateBegin, LateHandler
  <2> QED
    BY <1>8, <1>9, <1>10, <1>11, <2>1 DEF HandlerNext
<1>12. CASE RegistrationNext \/ \E u \in Users : RequestReturns(u)
  BY <1>2, <1>12 DEF RegistrationNext, register_early_suspend, unregister_early_suspend,
                     RequestReturns
<1>13. CASE RequestNext
  BY <1>2, <1>3, <1>4, <1>13 DEF RequestNext, RequestAgain
<1> QED
  BY <1>1, <1>5, <1>7, <1>11, <1>12, <1>13 DEF ESNext, SyncNext

-----------------------------------------------------------------------------
(* The list of handlers.                                                   *)

(* r is list with h after the first n elements.                            *)
InsertedAt(r, list, h, n) ==
    \A i \in 1..(Len(list) + 1) :
        r[i] = IF i <= n THEN list[i] ELSE IF i = n + 1 THEN h ELSE list[i - 1]

(* Insertion keeps the others in order and shifts those behind it.         *)
LEMMA InsertResult ==
    ASSUME NEW list \in Seq(Handlers), NEW h \in Handlers, NEW r,
           r = InsertByLevel(list, h)
    PROVE  /\ r \in Seq(Handlers)
           /\ Len(r) = Len(list) + 1
           /\ \E n \in 0..Len(list) : InsertedAt(r, list, h, n)
<1> DEFINE S == {i \in 1..Len(list) : Level[list[i]] <= Level[h]}
           n == Cardinality(S)
<1>1. n \in 0..Len(list)
  <2>0. Len(list) \in Nat
    OBVIOUS
  <2>1. IsFiniteSet(1..Len(list)) /\ Cardinality(1..Len(list)) = Len(list)
    <3>1. /\ IsFiniteSet(1..Len(list))
          /\ Cardinality(1..Len(list)) = IF 1 > Len(list) THEN 0 ELSE Len(list) - 1 + 1
      BY <2>0, FS_Interval
    <3> QED
      BY <2>0, <3>1
  <2>2. IsFiniteSet(S) /\ n <= Len(list)
    BY <2>1, FS_Subset
  <2> QED
    BY <2>2, FS_CardinalityType
<1>2. r = [i \in 1..(Len(list) + 1) |->
             IF i <= n THEN list[i] ELSE IF i = n + 1 THEN h ELSE list[i - 1]]
  BY DEF InsertByLevel
<1> HIDE DEF n, S
<1>3. \A i \in 1..(Len(list) + 1) : r[i] \in Handlers
  BY <1>1, <1>2
<1>4. r \in Seq(Handlers) /\ Len(r) = Len(list) + 1
  BY <1>2, <1>3
<1>5. InsertedAt(r, list, h, n)
  BY <1>2 DEF InsertedAt
<1> QED
  BY <1>1, <1>4, <1>5

(* Removal keeps the others in order and closes the gap.                   *)
LEMMA DeleteResult ==
    ASSUME NEW list \in Seq(Handlers), NEW h, NEW r,
           \E i \in 1..Len(list) : list[i] = h, r = list_del(list, h)
    PROVE  /\ r \in Seq(Handlers)
           /\ Len(r) = Len(list) - 1
           /\ \E n \in 1..Len(list) :
                 /\ list[n] = h
                 /\ \A i \in 1..(Len(list) - 1) :
                       r[i] = IF i < n THEN list[i] ELSE list[i + 1]
<1> DEFINE n == CHOOSE i \in 1..Len(list) : list[i] = h
<1>1. n \in 1..Len(list) /\ list[n] = h
  OBVIOUS
<1>2. r = [i \in 1..(Len(list) - 1) |-> IF i < n THEN list[i] ELSE list[i + 1]]
  BY DEF list_del
<1> HIDE DEF n
<1>3. \A i \in 1..(Len(list) - 1) : r[i] \in Handlers
  BY <1>1, <1>2
<1>4. r \in Seq(Handlers) /\ Len(r) = Len(list) - 1
  BY <1>1, <1>2, <1>3
<1> QED
  BY <1>1, <1>2, <1>4

(* Registration: the list stays well typed and free of duplicates, and     *)
(* gains the one handler or loses it.                                      *)
LEMMA RegistrationResult ==
    ASSUME ESInv, NEW h \in Handlers,
           register_early_suspend(h) \/ unregister_early_suspend(h)
    PROVE  /\ early_suspend_handlers' \in Seq(Handlers)
           /\ ListInv'
           /\ register_early_suspend(h) => Registered' \subseteq Registered \cup {h}
           /\ unregister_early_suspend(h) => Registered' \subseteq Registered \ {h}
<1> DEFINE list == early_suspend_handlers
<1>0. list \in Seq(Handlers) /\ ListInv
  BY DEF ESInv, ESTypeOK
<1>1. CASE register_early_suspend(h)
  <2>1. list' = InsertByLevel(list, h) /\ h \notin Registered
    BY <1>1 DEF register_early_suspend
  <2>2. /\ list' \in Seq(Handlers)
        /\ Len(list') = Len(list) + 1
        /\ \E n \in 0..Len(list) : InsertedAt(list', list, h, n)
    <3> HIDE DEF list
    <3> QED
      BY <1>0, <2>1, InsertResult
  <2>3. PICK n \in 0..Len(list) : \A i \in 1..(Len(list) + 1) :
           list'[i] = IF i <= n THEN list[i] ELSE IF i = n + 1 THEN h ELSE list[i - 1]
    BY <2>2 DEF InsertedAt
  <2>4. \A i \in 1..Len(list) : list[i] # h
    BY <2>1 DEF Registered
  <2>5. ListInv'
    <3> SUFFICES ASSUME NEW i \in 1..(Len(list) + 1), NEW j \in 1..(Len(list) + 1),
                        list'[i] = list'[j], i < j
                 PROVE  FALSE
      BY <2>2 DEF ListInv
    <3>1. CASE j <= n
      BY <1>0, <2>3, <3>1 DEF ListInv
    <3>2. CASE j = n + 1
      BY <1>0, <2>3, <2>4, <3>2
    <3>3. CASE j > n + 1 /\ i <= n
      BY <1>0, <2>3, <3>3 DEF ListInv
    <3>4. CASE j > n + 1 /\ i = n + 1
      BY <1>0, <2>3, <2>4, <3>4
    <3>5. CASE j > n + 1 /\ i > n + 1
      BY <1>0, <2>3, <3>5 DEF ListInv
    <3> QED
      BY <3>1, <3>2, <3>3, <3>4, <3>5
  <2>6. Registered' \subseteq Registered \cup {h}
    <3> SUFFICES ASSUME NEW i \in 1..(Len(list) + 1)
                 PROVE  list'[i] \in Registered \cup {h}
      BY <2>2 DEF Registered
    <3>1. CASE i <= n
      <4>1. i \in 1..Len(list) /\ list'[i] = list[i]
        BY <1>0, <2>3, <3>1
      <4> QED
        BY <4>1 DEF Registered
    <3>2. CASE i = n + 1
      BY <2>3, <3>2
    <3>3. CASE i > n + 1
      <4>1. i - 1 \in 1..Len(list) /\ list'[i] = list[i - 1]
        BY <1>0, <2>3, <3>3
      <4> QED
        BY <4>1 DEF Registered
    <3> QED
      BY <3>1, <3>2, <3>3
  <2>7. ~unregister_early_suspend(h)
    BY <2>1 DEF unregister_early_suspend
  <2> QED
    BY <2>2, <2>5, <2>6, <2>7
<1>2. CASE unregister_early_suspend(h)
  <2>1. list' = list_del(list, h) /\ h \in Registered
    BY <1>2 DEF unregister_early_suspend
  <2>2. \E i \in 1..Len(list) : list[i] = h
    BY <2>1 DEF Registered
  <2>3. /\ list' \in Seq(Handlers)
        /\ Len(list') = Len(list) - 1
        /\ \E n \in 1..Len(list) :
              /\ list[n] = h
              /\ \A i \in 1..(Len(list) - 1) :
                    list'[i] = IF i < n THEN list[i] ELSE list[i + 1]
    <3> HIDE DEF list
    <3> QED
      BY <1>0, <2>1, <2>2, DeleteResult
  <2>4. PICK n \in 1..Len(list) :
           /\ list[n] = h
           /\ \A i \in 1..(Len(list) - 1) :
                 list'[i] = IF i < n THEN list[i] ELSE list[i + 1]
    BY <2>3
  <2>5. ListInv'
    BY <1>0, <2>3, <2>4 DEF ListInv
  <2>6. \A i \in 1..Len(list) : i # n => list[i] # h
    BY <1>0, <2>4 DEF ListInv
  <2>7. Registered' \subseteq Registered \ {h}
    <3> SUFFICES ASSUME NEW i \in 1..(Len(list) - 1)
                 PROVE  list'[i] \in Registered \ {h}
      BY <2>3 DEF Registered
    <3>1. PICK k \in 1..Len(list) : k # n /\ list'[i] = list[k]
      BY <1>0, <2>4
    <3> QED
      BY <2>6, <3>1 DEF Registered
  <2>8. ~register_early_suspend(h)
    BY <2>1 DEF register_early_suspend
  <2> QED
    BY <2>3, <2>5, <2>7, <2>8
<1> QED
  BY <1>1, <1>2

-----------------------------------------------------------------------------
(* Every step keeps the types, and the thread busy exactly while it runs a *)
(* work of early suspend.                                                  *)
LEMMA ESTypePreserved ==
    ASSUME ESInv, ESNext, WLInv'
    PROVE  ESTypeOK' /\ BusyInv'
<1> USE DEF EsStates, SyncStates
<1>0. WLTypeOK' /\ ESTypeOK /\ BusyInv
  BY DEF ESInv, WLInv
<1>1. CASE SuspendStep \/ ((DriverNext \/ TimerNext \/ Tick) /\ UNCHANGED esVars)
  <2>1. UNCHANGED esVars /\ (worker' = "busy" <=> worker = "busy")
    BY <1>1 DEF SuspendStep, DriverNext, ClientInit, ClientDestroy, ClientLock,
         ClientLockTimeout, ClientUnlock, TimerNext, TimerFires, expire_wake_locks,
         Tick, SuspendNext, StartSuspend, SuspendCheck, SuspendEntry, FreezerLooks,
         power_suspend_late, SuspendFails, CpuOff, CpuOn, SuspendReturns
  <2>2. BusyInv'
    BY <1>0, <2>1 DEF BusyInv, esVars, walkVars
  <2>3. ESTypeOK'
    BY <1>0, <2>1 DEF ESTypeOK, esVars, reqVars, devVars, walkVars, waitVars
  <2> QED
    BY <2>2, <2>3
<1>2. CASE RegistrationNext
  <2>1. PICK h \in Handlers : register_early_suspend(h) \/ unregister_early_suspend(h)
    BY <1>2 DEF RegistrationNext
  <2>2. early_suspend_handlers' \in Seq(Handlers)
    BY <2>1, RegistrationResult
  <2>3. down' \in SUBSET Handlers
    BY <1>0, <2>1 DEF ESTypeOK, register_early_suspend, unregister_early_suspend
  <2>4. UNCHANGED <<wlVars, reqVars, suspended, walkVars, waitVars, sync_work>>
    BY <2>1 DEF register_early_suspend, unregister_early_suspend
  <2> QED
    BY <1>0, <2>2, <2>3, <2>4 DEF ESTypeOK, BusyInv, wlVars, reqVars, walkVars, waitVars
<1>3. CASE RequestNext
  <2>1. PICK u \in Users : RequestSleep(u) \/ RequestOn(u) \/ RequestAgain(u)
    BY <1>3 DEF RequestNext
  <2>2. UNCHANGED <<worker, suspended, devVars, walkVars, fb_drv_ready>>
    BY <2>1 DEF RequestSleep, RequestOn, RequestAgain, wlVars, waitVars
  <2>3. suspend_requested' \in BOOLEAN /\ requested_suspend_state' \in {"on", "mem"}
    BY <1>0, <2>1 DEF RequestSleep, RequestOn, RequestAgain, ESTypeOK
  <2>4. request' \in [Users -> {"idle", "waiting"}]
    BY <1>0, <2>1 DEF RequestSleep, RequestOn, RequestAgain, ESTypeOK, waitVars
  <2>5. sync_work' \in SyncStates
    BY <1>0, <2>1 DEF RequestSleep, RequestOn, RequestAgain, ESTypeOK
  <2> QED
    BY <1>0, <2>2, <2>3, <2>4, <2>5 DEF ESTypeOK, BusyInv, devVars, walkVars
<1>4. CASE \E u \in Users : RequestReturns(u)
  BY <1>0, <1>4 DEF RequestReturns, ESTypeOK, BusyInv, wlVars, reqVars, devVars, walkVars
<1>5. CASE SyncNext
  BY <1>0, <1>5 DEF SyncNext, SyncStart, SyncEnd, ESTypeOK, BusyInv, reqVars, devVars,
                    walkVars, waitVars
<1>6. CASE StartWork("early_suspend", "early") \/ StartWork("late_resume", "late")
  BY <1>0, <1>6 DEF StartWork, ESTypeOK, BusyInv, reqVars, devVars, waitVars
<1>7. CASE EarlyBegin
  <2>1. suspended' \in BOOLEAN
    BY <1>0, <1>7 DEF EarlyBegin, ESTypeOK
  <2>2. /\ es_pc' \in {"suspending", "early_end"} /\ es_pc = "early" /\ pos' \in Nat
        /\ UNCHANGED <<worker, reqVars, devVars, completed, waitVars, sync_work>>
    BY <1>0, <1>7 DEF EarlyBegin, ESTypeOK, wlVars
  <2> QED
    BY <1>0, <2>1, <2>2 DEF ESTypeOK, BusyInv, reqVars, devVars, waitVars
<1>8. CASE EarlyHandler
  <2>1. /\ es_pc' \in {"suspending", "early_end"} /\ es_pc # "none" /\ worker' = worker
        /\ pos' \in Nat
        /\ UNCHANGED <<reqVars, suspended, early_suspend_handlers, completed, waitVars, sync_work>>
    BY <1>0, <1>8 DEF EarlyHandler, ESTypeOK, wlVars
  <2>2. down' \in SUBSET Handlers
    BY <1>0, <1>8, HandlerAssumption DEF EarlyHandler, ESTypeOK
  <2> QED
    BY <1>0, <2>1, <2>2 DEF ESTypeOK, BusyInv, reqVars, waitVars
<1>9. CASE EarlyEnd
  BY <1>0, <1>9 DEF EarlyEnd, ESTypeOK, BusyInv, reqVars, devVars, waitVars
<1>10. CASE LateBegin
  <2>1. suspended' \in BOOLEAN
    BY <1>0, <1>10 DEF LateBegin, ESTypeOK
  <2>2. /\ es_pc' \in {"resuming", "late_end"} /\ es_pc = "late" /\ pos' \in Nat
        /\ UNCHANGED <<worker, reqVars, devVars, completed, waitVars, sync_work>>
    BY <1>0, <1>10 DEF LateBegin, ESTypeOK, wlVars
  <2> QED
    BY <1>0, <2>1, <2>2 DEF ESTypeOK, BusyInv, reqVars, devVars, waitVars
<1>11. CASE LateHandler
  <2>1. /\ es_pc' \in {"resuming", "late_end"} /\ es_pc # "none" /\ worker' = worker
        /\ pos' \in Nat /\ fb_drv_ready' \in Nat
        /\ UNCHANGED <<reqVars, suspended, early_suspend_handlers, request, sync_work>>
    BY <1>0, <1>11 DEF LateHandler, ESTypeOK, wlVars
  <2>2. down' \in SUBSET Handlers
    BY <1>0, <1>11 DEF LateHandler, ESTypeOK
  <2>3. completed' \in BOOLEAN
    BY <1>0, <1>11 DEF LateHandler, ESTypeOK
  <2> QED
    BY <1>0, <2>1, <2>2, <2>3 DEF ESTypeOK, BusyInv, reqVars
<1>12. CASE LateEnd
  <2>1. completed' \in BOOLEAN
    BY <1>12 DEF LateEnd
  <2>2. /\ es_pc' = "none" /\ worker' = "idle" /\ fb_drv_ready' \in Nat
        /\ UNCHANGED <<reqVars, suspended, devVars, pos, request, sync_work>>
    BY <1>0, <1>12 DEF LateEnd, ESTypeOK
  <2> QED
    BY <1>0, <2>1, <2>2 DEF ESTypeOK, BusyInv, reqVars, devVars
<1> QED
  BY <1>1, <1>2, <1>3, <1>4, <1>5, <1>6, <1>7, <1>8, <1>9, <1>10, <1>11, <1>12
  DEF ESNext, HandlerNext

-----------------------------------------------------------------------------
(* Devices.  Outside the walks only registration touches them, and it      *)
(* cannot happen during a walk.                                            *)
LEMMA DevicesPreserved ==
    ASSUME ESInv, ESNext
    PROVE  ListInv' /\ WalkInv' /\ HandlersFollowState'
<1> DEFINE list == early_suspend_handlers
<1>0. /\ ListInv /\ WalkInv /\ HandlersFollowState
      /\ list \in Seq(Handlers) /\ pos \in Nat /\ down \in SUBSET Handlers
      /\ es_pc \in EsStates
  BY DEF ESInv, ESTypeOK
<1>1. ASSUME UNCHANGED <<list, down, suspended>>,
             es_pc' \notin {"suspending", "resuming"},
             es_pc \notin {"suspending", "resuming"}
      PROVE  ListInv' /\ WalkInv' /\ HandlersFollowState'
  BY <1>0, <1>1 DEF ListInv, WalkInv, HandlersFollowState, Registered
<1>2. ASSUME UNCHANGED <<list, down, suspended, es_pc, pos>>
      PROVE  ListInv' /\ WalkInv' /\ HandlersFollowState'
  BY <1>0, <1>2 DEF ListInv, WalkInv, HandlersFollowState, Registered
<1>3. CASE RegistrationNext
  <2>1. PICK h \in Handlers : register_early_suspend(h) \/ unregister_early_suspend(h)
    BY <1>3 DEF RegistrationNext
  <2>2. /\ ListInv'
        /\ register_early_suspend(h) => Registered' \subseteq Registered \cup {h}
        /\ unregister_early_suspend(h) => Registered' \subseteq Registered \ {h}
    BY <2>1, RegistrationResult
  <2>3. /\ es_pc' = es_pc /\ suspended' = suspended
        /\ es_pc \notin {"suspending", "resuming"}
    BY <2>1 DEF register_early_suspend, unregister_early_suspend, MutexFree, walkVars
  <2>4. CASE register_early_suspend(h)
    <3>1. down' = IF suspended /\ h \in SuspendCb THEN down \cup {h} ELSE down \ {h}
      BY <2>4 DEF register_early_suspend
    <3> QED
      BY <1>0, <2>2, <2>3, <2>4, <3>1 DEF WalkInv, HandlersFollowState
  <2>5. CASE unregister_early_suspend(h)
    <3>1. down' = down \ {h}
      BY <2>5 DEF unregister_early_suspend
    <3> QED
      BY <1>0, <2>2, <2>3, <2>5, <3>1 DEF WalkInv, HandlersFollowState
  <2> QED
    BY <2>1, <2>4, <2>5
<1>4. CASE StartWork("early_suspend", "early") \/ StartWork("late_resume", "late")
  <2>1. es_pc = "none"
    BY <1>4 DEF StartWork, ESInv, BusyInv
  <2> QED
    BY <1>1, <1>4, <2>1 DEF StartWork, devVars
<1>5. CASE EarlyEnd \/ LateEnd
  BY <1>1, <1>5 DEF EarlyEnd, LateEnd, devVars
<1>6. CASE EarlyBegin
  <2>1. CASE suspend_requested /\ ~suspended
    <3>1. suspended' /\ es_pc' = "suspending" /\ pos' = 1 /\ UNCHANGED <<list, down>>
      BY <1>6, <2>1 DEF EarlyBegin, devVars
    <3> QED
      BY <1>0, <3>1 DEF ListInv, WalkInv, HandlersFollowState
  <2>2. CASE ~(suspend_requested /\ ~suspended)
    BY <1>1, <1>6, <2>2 DEF EarlyBegin, devVars
  <2> QED
    BY <2>1, <2>2
<1>7. CASE EarlyHandler
  <2>0. /\ es_pc = "suspending" /\ suspended /\ pos >= 1
        /\ \A i \in 1..Len(list) : i < pos /\ list[i] \in SuspendCb => list[i] \in down
        /\ UNCHANGED <<list, suspended>>
    BY <1>0, <1>7 DEF EarlyHandler, WalkInv
  <2>1. CASE pos <= Len(list)
    <3>1. down' = down \cup ({list[pos]} \cap SuspendCb) /\ pos' = pos + 1 /\ es_pc' = es_pc
      BY <1>7, <2>1 DEF EarlyHandler
    <3>2. \A i \in 1..Len(list) : i < pos' /\ list[i] \in SuspendCb => list[i] \in down'
      BY <1>0, <2>0, <3>1
    <3> QED
      BY <1>0, <2>0, <3>1, <3>2 DEF ListInv, WalkInv, HandlersFollowState
  <2>2. CASE pos > Len(list)
    <3>1. es_pc' = "early_end" /\ down' = down
      BY <1>0, <1>7, <2>2 DEF EarlyHandler
    <3>2. \A i \in 1..Len(list) : list[i] \in SuspendCb => list[i] \in down
      BY <1>0, <2>0, <2>2
    <3>3. Registered' \cap SuspendCb \subseteq down'
      BY <2>0, <3>1, <3>2 DEF Registered
    <3> QED
      BY <1>0, <2>0, <3>1, <3>3 DEF ListInv, WalkInv, HandlersFollowState
  <2> QED
    BY <1>0, <2>1, <2>2
<1>8. CASE LateBegin
  <2>1. CASE suspended /\ ~suspend_requested
    <3>1. ~suspended' /\ es_pc' = "resuming" /\ pos' = Len(list) /\ UNCHANGED <<list, down>>
      BY <1>8, <2>1 DEF LateBegin, devVars
    <3> QED
      BY <1>0, <3>1 DEF ListInv, WalkInv, HandlersFollowState
  <2>2. CASE ~(suspended /\ ~suspend_requested)
    BY <1>1, <1>8, <2>2 DEF LateBegin, devVars
  <2> QED
    BY <2>1, <2>2
<1>9. CASE LateHandler
  <2>0. /\ es_pc = "resuming" /\ ~suspended /\ pos <= Len(list)
        /\ \A i \in 1..Len(list) : i > pos /\ list[i] \in ResumeCb => list[i] \notin down
        /\ UNCHANGED <<list, suspended>>
    BY <1>0, <1>9 DEF LateHandler, WalkInv
  <2>1. CASE pos > 0
    <3>1. down' = down \ ({list[pos]} \cap ResumeCb) /\ pos' = pos - 1 /\ es_pc' = es_pc
      BY <1>9, <2>1 DEF LateHandler
    <3>2. \A i \in 1..Len(list) : i > pos' /\ list[i] \in ResumeCb => list[i] \notin down'
      BY <1>0, <2>0, <3>1
    <3> QED
      BY <1>0, <2>0, <3>1, <3>2 DEF ListInv, WalkInv, HandlersFollowState
  <2>2. CASE pos = 0
    <3>1. es_pc' = "late_end" /\ down' = down
      BY <1>9, <2>2 DEF LateHandler
    <3>2. \A i \in 1..Len(list) : list[i] \in ResumeCb => list[i] \notin down
      BY <2>0, <2>2
    <3>3. Registered' \cap ResumeCb \cap down' = {}
      BY <2>0, <3>1, <3>2 DEF Registered
    <3> QED
      BY <1>0, <2>0, <3>1, <3>3 DEF ListInv, WalkInv, HandlersFollowState
  <2> QED
    BY <1>0, <2>1, <2>2
<1>10. CASE RequestNext \/ (\E u \in Users : RequestReturns(u)) \/ SyncNext
  BY <1>2, <1>10 DEF RequestNext, RequestSleep, RequestOn, RequestAgain, RequestReturns,
                     SyncNext, SyncStart, SyncEnd, devVars, walkVars
<1>11. CASE UNCHANGED esVars
  BY <1>2, <1>11 DEF esVars, devVars, walkVars
<1> QED
  BY <1>3, <1>4, <1>5, <1>6, <1>7, <1>8, <1>9, <1>10, <1>11
  DEF ESNext, HandlerNext, SuspendStep

-----------------------------------------------------------------------------
(* main_wake_lock.  Only the end of early_suspend releases it, and only    *)
(* late_resume, which runs while it is held, brings devices back.          *)
LEMMA MainLockPreserved ==
    ASSUME ESInv, ESNext, HandlersFollowState'
    PROVE  MainLockGuardsHandlers' /\ CommittedUnlocked'
<1> DEFINE list == early_suspend_handlers
           held == flags[main_wake_lock] = "held"
<1>0. /\ WLTypeOK /\ MainLockGuardsHandlers /\ CommittedUnlocked /\ HandlersFollowState
      /\ WalkInv /\ BusyInv
      /\ main_wake_lock \in Locks /\ main_wake_lock \in SuspendLocks
      /\ sys_sync_wake_lock \in Locks /\ sys_sync_wake_lock # main_wake_lock
  BY LockAssumption DEF ESInv, ESTypeOK, Locks, SuspendLocks
<1>1. ASSUME held' <=> held, suspend_requested => suspend_requested',
             UNCHANGED <<list, suspended>>, down \subseteq down'
      PROVE  MainLockGuardsHandlers'
  BY <1>0, <1>1 DEF MainLockGuardsHandlers, Registered
<1>2. ASSUME held' => held, worker' = worker \/ worker' \in {"idle", "busy"}
      PROVE  CommittedUnlocked'
  BY <1>0, <1>2 DEF CommittedUnlocked
<1>3. CASE (DriverNext \/ TimerNext \/ Tick) /\ UNCHANGED esVars
  <2>1. held' <=> held
    BY <1>0, <1>3, WLStepEffect
  <2>2. worker' = worker
    BY <1>3 DEF DriverNext, ClientInit, ClientDestroy, ClientLock, ClientLockTimeout,
         ClientUnlock, TimerNext, TimerFires, expire_wake_locks, Tick
  <2> QED
    BY <1>1, <1>2, <1>3, <2>1, <2>2 DEF esVars, reqVars, devVars
<1>4. CASE SuspendStep
  <2>1. (held' <=> held) /\ UNCHANGED esVars
    BY <1>0, <1>4, WLStepEffect DEF SuspendStep
  <2>2. MainLockGuardsHandlers'
    BY <1>1, <2>1 DEF esVars, reqVars, devVars
  <2>3. ASSUME power_suspend_late, worker' = "committed" PROVE ~held
    <3>1. PICK ret \in Returns : HasWakeLock(ret) /\ ret = 0
      BY <2>3 DEF power_suspend_late
    <3>2. \A l \in SuspendLocks : ~Prevents(l)
      BY <1>0, <3>1, Look
    <3> QED
      BY <1>0, <3>2 DEF Prevents
  <2>4. worker' \in {"committed", "asleep"} =>
           \/ worker \in {"committed", "asleep"}
           \/ power_suspend_late /\ worker' = "committed"
    BY <1>4 DEF SuspendStep, SuspendNext, StartSuspend, SuspendCheck, SuspendEntry,
         FreezerLooks, power_suspend_late, SuspendFails, CpuOff, CpuOn, SuspendReturns
  <2>5. CommittedUnlocked'
    BY <1>0, <2>1, <2>3, <2>4 DEF CommittedUnlocked
  <2> QED
    BY <2>2, <2>5
<1>5. CASE RegistrationNext
  <2>1. PICK h \in Handlers : register_early_suspend(h) \/ unregister_early_suspend(h)
    BY <1>5 DEF RegistrationNext
  <2>2. /\ UNCHANGED <<flags, worker, suspend_requested, suspended, es_pc>>
        /\ es_pc \notin {"suspending", "resuming"}
    BY <2>1 DEF register_early_suspend, unregister_early_suspend, MutexFree, wlVars,
                reqVars, walkVars
  <2>3. MainLockGuardsHandlers'
    BY <1>0, <2>2 DEF MainLockGuardsHandlers, HandlersFollowState
  <2> QED
    BY <1>2, <2>2, <2>3
<1>6. ASSUME NEW u \in Users, RequestOn(u) PROVE MainLockGuardsHandlers' /\ CommittedUnlocked'
  <2>1. held' /\ worker' = worker /\ worker \notin {"committed", "asleep"}
    BY <1>0, <1>6 DEF RequestOn, wake_lock, UserRuns, WLTypeOK
  <2> QED
    BY <2>1 DEF MainLockGuardsHandlers, CommittedUnlocked
<1>7. ASSUME NEW u \in Users, RequestSleep(u) \/ RequestAgain(u) \/ RequestReturns(u)
      PROVE  MainLockGuardsHandlers' /\ CommittedUnlocked'
  <2>1. UNCHANGED <<flags, worker, devVars, suspended>> /\ (suspend_requested => suspend_requested')
    BY <1>7 DEF RequestSleep, RequestAgain, RequestReturns, lockVars, wlVars, reqVars
  <2> QED
    BY <1>1, <1>2, <2>1 DEF devVars
<1>8. CASE SyncNext
  <2>1. (held' <=> held) /\ UNCHANGED <<worker, reqVars, suspended, devVars>>
    BY <1>0, <1>8, OtherLock DEF SyncNext, SyncStart, SyncEnd
  <2> QED
    BY <1>1, <1>2, <2>1 DEF reqVars, devVars
<1>9. CASE \/ StartWork("early_suspend", "early") \/ StartWork("late_resume", "late")
           \/ LateEnd
  <2>1. UNCHANGED <<flags, reqVars, suspended, devVars>> /\ worker' \in {"idle", "busy"}
    BY <1>9 DEF StartWork, LateEnd, lockVars
  <2> QED
    BY <1>1, <1>2, <2>1 DEF reqVars, devVars
<1>10. CASE EarlyEnd
  <2>1. /\ UNCHANGED <<reqVars, suspended, devVars>> /\ worker' = "idle"
        /\ es_pc' = "none"
    BY <1>10 DEF EarlyEnd
  <2>2. CASE suspend_requested /\ suspended
    BY <2>1, <2>2 DEF MainLockGuardsHandlers, HandlersFollowState, CommittedUnlocked, reqVars
  <2>3. CASE ~(suspend_requested /\ suspended)
    BY <1>1, <1>2, <1>10, <2>1, <2>3 DEF EarlyEnd, lockVars, reqVars, devVars
  <2> QED
    BY <2>2, <2>3
<1>11. CASE EarlyBegin \/ EarlyHandler \/ LateBegin \/ LateHandler
  <2>1. UNCHANGED <<flags, worker, suspend_requested, list>>
    BY <1>11 DEF EarlyBegin, EarlyHandler, LateBegin, LateHandler, wlVars, reqVars, devVars
  <2>2. CASE held
    BY <2>1, <2>2, <1>2 DEF MainLockGuardsHandlers
  <2>3. CASE ~held
    <3>1. suspend_requested /\ suspended
      BY <1>0, <2>3 DEF MainLockGuardsHandlers
    <3>2. es_pc # "resuming"
      BY <1>0, <3>1 DEF WalkInv
    <3>3. suspended' = suspended /\ down \subseteq down'
      BY <1>11, <3>1, <3>2 DEF EarlyBegin, EarlyHandler, LateBegin, LateHandler, devVars
    <3> QED
      BY <1>1, <1>2, <2>1, <3>3
  <2> QED
    BY <2>2, <2>3
<1> QED
  BY <1>3, <1>4, <1>5, <1>6, <1>7, <1>8, <1>9, <1>10, <1>11
  DEF ESNext, HandlerNext, RequestNext

-----------------------------------------------------------------------------
(* Completions.  A waiter comes with the late_resume it queued; what that  *)
(* late_resume owes passes from the queue to the walk and from the walk to *)
(* fb_drv_ready, and goes with the waiter that consumes it.                *)
LEMMA CompletionsPreserved ==
    ASSUME ESInv, ESNext
    PROVE  CompletedInv' /\ CompletionsBalance'
<1> DEFINE late == es_pc \in {"late", "resuming", "late_end"}
           queued == Queued("late_resume")
<1>0. /\ WLTypeOK /\ work_queue \in Seq(Works) /\ QueueInv /\ BusyInv
      /\ CompletedInv /\ CompletionsBalance
      /\ fb_drv_ready \in Nat /\ request \in [Users -> {"idle", "waiting"}]
      /\ "late_resume" \in Works /\ "suspend" \in Works /\ "early_suspend" \in Works
  BY DEF ESInv, ESTypeOK, WLTypeOK, Works
<1>1. /\ IsFiniteSet(Waiting)
      /\ Cardinality(Waiting) \in Nat
  <2>1. Waiting \in SUBSET Users
    BY DEF Waiting
  <2> QED
    BY <2>1, HandlerAssumption, FS_Subset, FS_CardinalityType
<1>2. ASSUME UNCHANGED <<request, fb_drv_ready, completed>>, queued' <=> queued,
             late' <=> late, completed => es_pc' \in {"resuming", "late_end"}
      PROVE  CompletedInv' /\ CompletionsBalance'
  <2>1. Waiting' = Waiting
    BY <1>2 DEF Waiting
  <2>2. LateOwes' = LateOwes
    BY <1>2 DEF LateOwes
  <2> QED
    BY <1>0, <1>2, <2>1, <2>2 DEF CompletedInv, CompletionsBalance
<1>3. work_queue' = work_queue => (queued' <=> queued)
  BY DEF Queued
<1>4. work_queue' = queue_work("suspend") \/ work_queue' = queue_work("early_suspend")
        => (queued' <=> queued)
  BY <1>0, QueueKeeps
<1>5. CASE (DriverNext \/ SuspendStep \/ TimerNext \/ Tick) /\ UNCHANGED esVars
  <2>1. \/ work_queue' = work_queue
        \/ work_queue' = queue_work("suspend")
        \/ StartSuspend
    BY <1>0, <1>5, WLStepEffect DEF SuspendStep
  <2>2. StartSuspend => (queued' <=> queued)
    BY <1>0, DequeueKeeps DEF StartSuspend
  <2>3. UNCHANGED <<request, fb_drv_ready, completed, es_pc>>
    BY <1>5 DEF esVars, waitVars, walkVars
  <2> QED
    BY <1>0, <1>2, <1>3, <1>4, <2>1, <2>2, <2>3 DEF CompletedInv
<1>6. CASE RegistrationNext
  <2>1. UNCHANGED <<request, fb_drv_ready, completed, es_pc, work_queue>>
    BY <1>6 DEF RegistrationNext, register_early_suspend, unregister_early_suspend,
                wlVars, waitVars, walkVars
  <2> QED
    BY <1>0, <1>2, <1>3, <2>1 DEF CompletedInv
<1>7. ASSUME NEW u \in Users, RequestSleep(u) \/ RequestAgain(u)
      PROVE  CompletedInv' /\ CompletionsBalance'
  <2>1. /\ UNCHANGED <<request, fb_drv_ready, completed, es_pc>>
        /\ work_queue' = work_queue \/ work_queue' = queue_work("early_suspend")
    BY <1>7 DEF RequestSleep, RequestAgain, wlVars, waitVars, walkVars
  <2> QED
    BY <1>0, <1>2, <1>3, <1>4, <2>1 DEF CompletedInv
<1>8. ASSUME NEW u \in Users, RequestOn(u) PROVE CompletedInv' /\ CompletionsBalance'
  <2>1. /\ UNCHANGED <<fb_drv_ready, completed, es_pc>>
        /\ work_queue' = queue_work("late_resume")
        /\ request[u] = "idle"
        /\ request' = IF queued THEN request ELSE [request EXCEPT ![u] = "waiting"]
    BY <1>8 DEF RequestOn, UserRuns, walkVars
  <2>2. queued'
    BY <1>0, <2>1, QueueKeeps
  <2>3. CASE queued
    BY <1>0, <1>2, <2>1, <2>2, <2>3 DEF CompletedInv
  <2>4. CASE ~queued
    <3>1. Waiting' = Waiting \cup {u} /\ u \notin Waiting
      BY <1>0, <2>1, <2>4 DEF Waiting
    <3>2. Cardinality(Waiting') = Cardinality(Waiting) + 1
      BY <1>1, <3>1, FS_AddElement
    <3>3. LateOwes' = LateOwes + 1 /\ LateOwes \in Nat
      BY <2>1, <2>2, <2>4 DEF LateOwes
    <3> QED
      BY <1>0, <1>1, <2>1, <3>2, <3>3 DEF CompletedInv, CompletionsBalance
  <2> QED
    BY <2>3, <2>4
<1>9. ASSUME NEW u \in Users, RequestReturns(u) PROVE CompletedInv' /\ CompletionsBalance'
  <2>1. /\ UNCHANGED <<completed, es_pc, work_queue>>
        /\ request[u] = "waiting"
        /\ fb_drv_ready > 0 /\ fb_drv_ready' = fb_drv_ready - 1
        /\ request' = [request EXCEPT ![u] = "idle"]
    BY <1>9 DEF RequestReturns, wlVars, walkVars
  <2>2. Waiting' = Waiting \ {u} /\ u \in Waiting
    BY <1>0, <2>1 DEF Waiting
  <2>3. Cardinality(Waiting') = Cardinality(Waiting) - 1
    BY <1>1, <2>2, FS_RemoveElement
  <2>4. LateOwes' = LateOwes /\ LateOwes \in Nat
    BY <1>3, <2>1 DEF LateOwes
  <2> QED
    BY <1>0, <1>1, <2>1, <2>3, <2>4 DEF CompletedInv, CompletionsBalance
<1>10. CASE SyncNext
  <2>1. /\ UNCHANGED <<request, fb_drv_ready, completed, es_pc>>
        /\ work_queue' = work_queue \/ work_queue' = queue_work("suspend")
    BY <1>10 DEF SyncNext, SyncStart, SyncEnd, wake_unlock, QueueSuspend, waitVars, walkVars
  <2> QED
    BY <1>0, <1>2, <1>3, <1>4, <2>1 DEF CompletedInv
<1>11. CASE StartWork("early_suspend", "early")
  <2>1. /\ es_pc = "none" /\ es_pc' = "early" /\ UNCHANGED <<request, fb_drv_ready, completed>>
    BY <1>0, <1>11 DEF StartWork, BusyInv, waitVars
  <2>2. queued' <=> queued
    BY <1>0, <1>11, DequeueKeeps DEF StartWork
  <2> QED
    BY <1>0, <1>2, <2>1, <2>2 DEF CompletedInv
<1>12. CASE StartWork("late_resume", "late")
  <2>1. /\ es_pc = "none" /\ es_pc' = "late" /\ UNCHANGED <<request, fb_drv_ready, completed>>
        /\ work_queue # <<>> /\ Head(work_queue) = "late_resume"
    BY <1>0, <1>12 DEF StartWork, BusyInv, waitVars
  <2>2. ~queued'
    BY <1>0, <1>12, DequeueKeeps DEF StartWork
  <2>3. queued
    <3>1. Len(work_queue) >= 1 /\ Head(work_queue) = work_queue[1]
      BY <1>0, <2>1
    <3> QED
      BY <1>0, <2>1, <3>1 DEF Queued
  <2>4. ~completed
    BY <1>0, <2>1 DEF CompletedInv
  <2>5. LateOwes' = LateOwes
    BY <2>1, <2>2, <2>3, <2>4 DEF LateOwes
  <2>6. Waiting' = Waiting
    BY <2>1 DEF Waiting
  <2> QED
    BY <1>0, <2>1, <2>4, <2>5, <2>6 DEF CompletedInv, CompletionsBalance
<1>13. CASE EarlyBegin \/ EarlyHandler \/ LateBegin
  <2>1. /\ UNCHANGED <<request, fb_drv_ready, completed, work_queue>>
        /\ \/ es_pc \in {"early", "suspending"}
              /\ es_pc' \in {"suspending", "early_end"}
           \/ es_pc = "late" /\ es_pc' \in {"resuming", "late_end"}
    BY <1>13 DEF EarlyBegin, EarlyHandler, LateBegin, wlVars, waitVars
  <2> QED
    BY <1>0, <1>2, <1>3, <2>1 DEF CompletedInv
<1>14. CASE EarlyEnd
  <2>1. /\ UNCHANGED <<request, fb_drv_ready, completed>>
        /\ es_pc = "early_end" /\ es_pc' = "none"
        /\ work_queue' = work_queue \/ work_queue' = queue_work("suspend")
    BY <1>14 DEF EarlyEnd, wake_unlock, QueueSuspend, waitVars
  <2> QED
    BY <1>0, <1>2, <1>3, <1>4, <2>1 DEF CompletedInv
<1>15. CASE LateHandler
  <2>1. /\ UNCHANGED <<request, work_queue>>
        /\ es_pc = "resuming" /\ es_pc' \in {"resuming", "late_end"}
        /\ \/ UNCHANGED <<completed, fb_drv_ready>>
           \/ ~completed /\ completed' /\ fb_drv_ready' = fb_drv_ready + 1
    BY <1>15 DEF LateHandler, wlVars, ESInv, ESTypeOK
  <2>2. CASE UNCHANGED <<completed, fb_drv_ready>>
    BY <1>0, <1>2, <1>3, <2>1, <2>2 DEF CompletedInv
  <2>3. CASE ~completed /\ completed' /\ fb_drv_ready' = fb_drv_ready + 1
    <3>1. LateOwes' = LateOwes - 1 /\ LateOwes \in Nat
      BY <1>3, <2>1, <2>3 DEF LateOwes
    <3>2. Waiting' = Waiting
      BY <2>1 DEF Waiting
    <3> QED
      BY <1>0, <1>1, <2>1, <2>3, <3>1, <3>2 DEF CompletedInv, CompletionsBalance
  <2> QED
    BY <2>1, <2>2, <2>3
<1>16. CASE LateEnd
  <2>1. /\ UNCHANGED <<request, work_queue>>
        /\ es_pc = "late_end" /\ es_pc' = "none"
        /\ fb_drv_ready' = IF completed THEN fb_drv_ready ELSE fb_drv_ready + 1
    BY <1>16 DEF LateEnd
  <2>2. ~completed'
    BY <1>16 DEF LateEnd
  <2>3. /\ LateOwes \in Nat /\ LateOwes' \in Nat
        /\ LateOwes' = IF completed THEN LateOwes ELSE LateOwes - 1
    BY <1>3, <2>1 DEF LateOwes
  <2>4. Waiting' = Waiting
    BY <2>1 DEF Waiting
  <2> QED
    BY <1>0, <1>1, <2>1, <2>2, <2>3, <2>4 DEF CompletedInv, CompletionsBalance
<1> QED
  BY <1>5, <1>6, <1>7, <1>8, <1>9, <1>10, <1>11, <1>12, <1>13, <1>14, <1>15, <1>16
  DEF ESNext, HandlerNext, RequestNext, SuspendStep

-----------------------------------------------------------------------------
(* The inductive invariant and what follows from it.                       *)

(* At boot main_wake_lock is held, nothing is registered or queued.        *)
LEMMA ESInvInit == ESInit => ESInv
<1> SUFFICES ASSUME ESInit PROVE ESInv
  OBVIOUS
<1>1. WLInv
  BY WLInvInit DEF ESInit
<1>2. /\ work_queue = <<>> /\ worker = "idle" /\ early_suspend_handlers = <<>>
      /\ es_pc = "none" /\ pos = 0 /\ fb_drv_ready = 0
      /\ request = [u \in Users |-> "idle"]
      /\ flags[main_wake_lock] = "held"
  BY DEF ESInit, WLInit, Locks
<1>3. completed = FALSE
  BY DEF ESInit
<1>4. ESTypeOK
  <2>1. suspend_requested \in BOOLEAN /\ suspended \in BOOLEAN /\ completed \in BOOLEAN
    BY DEF ESInit
  <2>2. /\ requested_suspend_state = "mem" /\ down = {} /\ sync_work = "idle"
    BY DEF ESInit
  <2> QED
    BY <1>1, <1>2, <2>1, <2>2 DEF ESTypeOK, WLInv, EsStates, SyncStates
<1>5. CompletionsBalance
  <2>1. Waiting = {}
    BY <1>2 DEF Waiting
  <2>2. LateOwes = 0
    BY <1>2 DEF LateOwes, Queued
  <2> QED
    BY <1>2, <2>1, <2>2, FS_EmptySet DEF CompletionsBalance
<1>6. QueueInv /\ BusyInv /\ ListInv /\ WalkInv
  BY <1>2 DEF QueueInv, BusyInv, ListInv, WalkInv
<1>7. HandlersFollowState
  BY <1>2 DEF HandlersFollowState, Registered
<1>8. MainLockGuardsHandlers /\ CommittedUnlocked
  BY <1>2 DEF MainLockGuardsHandlers, CommittedUnlocked
<1>9. CompletedInv
  BY <1>3 DEF CompletedInv
<1> QED
  BY <1>1, <1>4, <1>5, <1>6, <1>7, <1>8, <1>9 DEF ESInv

(* Every step of the composed system preserves it.                         *)
LEMMA ESInvNext == ESInv /\ [ESNext]_vars => ESInv'
<1>1. ASSUME ESInv, ESNext PROVE ESInv'
  <2>1. WLInv' /\ QueueInv'
    BY <1>1, WLInvComposed
  <2>2. ESTypeOK' /\ BusyInv'
    BY <1>1, <2>1, ESTypePreserved DEF WLInv
  <2>3. ListInv' /\ WalkInv' /\ HandlersFollowState'
    BY <1>1, DevicesPreserved
  <2>4. MainLockGuardsHandlers' /\ CommittedUnlocked'
    BY <1>1, <2>3, MainLockPreserved
  <2>5. CompletedInv' /\ CompletionsBalance'
    BY <1>1, CompletionsPreserved
  <2> QED
    BY <2>1, <2>2, <2>3, <2>4, <2>5 DEF ESInv
<1>2. ASSUME ESInv, UNCHANGED vars PROVE ESInv'
  <2>0. UNCHANGED wlVars /\ UNCHANGED esVars
    BY <1>2 DEF vars
  <2>1. WLInv'
    BY <1>2, <2>0, StutterPreserves DEF ESInv
  <2>2. ESTypeOK'
    BY <1>2, <2>0, <2>1 DEF ESInv, ESTypeOK, WLInv, esVars, reqVars, devVars, walkVars, waitVars
  <2>3. QueueInv' /\ BusyInv' /\ CommittedUnlocked' /\ CompletedInv'
    BY <1>2, <2>0 DEF ESInv, QueueInv, BusyInv, CommittedUnlocked, CompletedInv, wlVars,
                      esVars, walkVars
  <2>4. ListInv' /\ WalkInv' /\ HandlersFollowState' /\ MainLockGuardsHandlers'
    BY <1>2, <2>0 DEF ESInv, ListInv, WalkInv, HandlersFollowState, Registered,
                      MainLockGuardsHandlers, wlVars, esVars, reqVars, devVars, walkVars
  <2>5. CompletionsBalance'
    BY <1>2, <2>0 DEF ESInv, CompletionsBalance, LateOwes, Waiting, Queued, wlVars, esVars,
                      walkVars, waitVars
  <2> QED
    BY <2>1, <2>2, <2>3, <2>4, <2>5 DEF ESInv
<1> QED
  BY <1>1, <1>2

(* The invariant holds in every state of every behaviour, fair or not.     *)
LEMMA ESInvariantSafe == ESSafeSpec => []ESInv
BY ESInvInit, ESInvNext, PTL DEF ESSafeSpec

(* The same under the fairness of ESSpec.                                  *)
LEMMA ESInvariant == ESSpec => []ESInv
BY ESInvariantSafe, PTL DEF ESSpec

(* Type correctness of the composed system, for every set of handlers,     *)
(* writers and locks.                                                      *)
THEOREM ESTypeCorrect == ESSpec => []ESTypeOK
BY ESInvariant, PTL DEF ESInv

(* early_suspend gives up main_wake_lock only with a sleep request         *)
(* standing and every registered device suspended, and request_suspend_    *)
(* state takes it back before that can change.                             *)
THEOREM MainLockSafety == ESSpec => []MainLockGuardsHandlers
BY ESInvariant, PTL DEF ESInv

(* Between two walks of early_suspend_handlers the devices are in the      *)
(* state that SUSPENDED says, whoever registered or asked meanwhile.       *)
THEOREM HandlersConsistent == ESSpec => []HandlersFollowState
BY ESInvariant, PTL DEF ESInv

(* complete() is called once for every thread that request_suspend_state   *)
(* blocks, for any number of threads and any order of their requests.      *)
THEOREM CompletionsBalanced == ESSpec => []CompletionsBalance
BY ESInvariant, PTL DEF ESInv

(* The CPU is off only on request, and with every device down that has a   *)
(* suspend callback: from power_suspend_late's look on main_wake_lock is   *)
(* free, and it guards the handlers.                                       *)
THEOREM SleepsSuspended == ESSpec => []SleepsOnlyWhenSuspended
<1>1. ESInv => SleepsOnlyWhenSuspended
  BY DEF ESInv, CommittedUnlocked, MainLockGuardsHandlers, SleepsOnlyWhenSuspended
<1> QED
  BY <1>1, ESInvariant, PTL

(* Wake locks prevent suspend in the composed system as well.              *)
THEOREM ComposedSleepSafety == ESSpec => []SleepRespectsLocks
<1>1. ESInv => SleepRespectsLocks
  BY DEF ESInv, WLInv, CommittedRespectsLocks, SleepRespectsLocks
<1> QED
  BY <1>1, ESInvariant, PTL

(* The suspend work is not lost among the works of early suspend that      *)
(* share its queue and its thread.                                         *)
THEOREM ComposedSuspendNotLost == ESSpec => []NoLostSuspend
<1>1. ESInv => NoLostSuspend
  BY DEF ESInv, WLInv
<1> QED
  BY <1>1, ESInvariant, PTL

-----------------------------------------------------------------------------
(* Early suspend, composed with the wake locks, implements WakeLock.  To   *)
(* WakeLock the queue is what Queued("suspend") says, and a thread busy    *)
(* with another work is idle.  WL!Op is operator Op of WakeLock under that *)
(* mapping; the lemmas named Same... show that an operation of the         *)
(* composed system is the same operation there.                            *)

(* What depends on the locks only is the same in both.                     *)
LEMMA SameWalk ==
    ASSUME NEW f, NEW e, NEW ret
    PROVE  /\ has_wake_lock_locked(f, e, ret) => WL!has_wake_lock_locked(f, e, ret)
           /\ WL!expire_wake_lock(f, e) = expire_wake_lock(f, e)
<1>1. WL!Locks = Locks /\ WL!SuspendLocks = SuspendLocks
  BY DEF Locks, SuspendLocks, WL!Locks, WL!SuspendLocks
<1>2. WL!HasHeld(f) <=> HasHeld(f)
  BY <1>1 DEF HasHeld, WL!HasHeld
<1>3. has_wake_lock_locked(f, e, ret) => WL!has_wake_lock_locked(f, e, ret)
  BY <1>1, <1>2 DEF has_wake_lock_locked, WL!has_wake_lock_locked
<1>4. WL!expire_wake_lock(f, e) = expire_wake_lock(f, e)
  BY <1>1, <1>2 DEF expire_wake_lock, WL!expire_wake_lock
<1> QED
  BY <1>3, <1>4

(* queue_work leaves the suspend work, and nothing else, pending.          *)
LEMMA SameQueue == WL!queue_work("suspend") = <<"suspend">>
<1>1. CASE Queued("suspend")
  <2>1. WL!Queued("suspend")
    BY <1>1 DEF WL!Queued
  <2> QED
    BY <1>1, <2>1 DEF WL!queue_work
<1>2. CASE ~Queued("suspend")
  <2>1. ~WL!Queued("suspend")
    BY <1>2 DEF WL!Queued
  <2> QED
    BY <1>2, <2>1 DEF WL!queue_work
<1> QED
  BY <1>1, <1>2

(* A step that queues the suspend work or leaves the queue alone does so   *)
(* for WakeLock.                                                           *)
LEMMA SameQueueSuspend ==
    ASSUME work_queue \in Seq(Works), QueueInv, NEW ret \in Returns, QueueSuspend(ret)
    PROVE  WL!QueueSuspend(ret)
<1>1. CASE ret = 0
  <2>1. Queued("suspend")'
    BY <1>1, QueueKeeps DEF QueueSuspend, Works
  <2> QED
    BY <1>1, <2>1, SameQueue DEF WL!QueueSuspend
<1>2. CASE ret # 0
  <2>1. Queued("suspend")' <=> Queued("suspend")
    BY <1>2 DEF QueueSuspend, Queued
  <2> QED
    BY <1>2, <2>1 DEF WL!QueueSuspend
<1> QED
  BY <1>1, <1>2

(* wake_lock; it is recorded as taken late in both or in neither.          *)
LEMMA SameLock ==
    ASSUME NEW l, wake_lock(l)
    PROVE  WL!wake_lock(l)
<1>1. WL!SuspendLocks = SuspendLocks
  BY DEF Locks, SuspendLocks, WL!Locks, WL!SuspendLocks
<1>2. WL!RecordTaken(l) = RecordTaken(l)
  BY DEF RecordTaken, WL!RecordTaken
<1>3. SetExpireTimer(-1) => WL!SetExpireTimer(-1)
  BY DEF SetExpireTimer, WL!SetExpireTimer, NotPending, WL!NotPending
<1> QED
  BY <1>1, <1>2, <1>3 DEF wake_lock, WL!wake_lock

(* wake_lock_timeout, its timer and queue updates included.                *)
LEMMA SameLockTimeout ==
    ASSUME work_queue \in Seq(Works), QueueInv, NEW l, NEW t, wake_lock_timeout(l, t)
    PROVE  WL!wake_lock_timeout(l, t)
<1> DEFINE f == [flags EXCEPT ![l] = "timed"]
           e == [expires EXCEPT ![l] = t]
<1>1. WL!SuspendLocks = SuspendLocks /\ WL!Returns = Returns
  BY DEF Locks, SuspendLocks, WL!Locks, WL!SuspendLocks, Returns, WL!Returns
<1>2. /\ flags[l] # "none" /\ expires' = e
      /\ taken_late' = WL!RecordTaken(l)
  BY DEF wake_lock_timeout, RecordTaken, WL!RecordTaken
<1>3. CASE l \in SuspendLocks
  <2>1. PICK ret \in Returns :
           /\ has_wake_lock_locked(f, e, ret)
           /\ flags' = expire_wake_lock(f, e)
           /\ event_seen' = TRUE
           /\ SetExpireTimer(ret)
           /\ QueueSuspend(ret)
    BY <1>3 DEF wake_lock_timeout
  <2>2. /\ WL!has_wake_lock_locked(f, e, ret)
        /\ flags' = WL!expire_wake_lock(f, e)
    <3> HIDE DEF f, e
    <3> QED
      BY <2>1, SameWalk
  <2>3. WL!SetExpireTimer(ret)
    BY <2>1 DEF SetExpireTimer, WL!SetExpireTimer, NotPending, WL!NotPending
  <2>4. WL!QueueSuspend(ret)
    BY <2>1, SameQueueSuspend
  <2>5. event_seen' = TRUE
    BY <2>1
  <2> QED
    BY <1>1, <1>2, <1>3, <2>2, <2>3, <2>4, <2>5 DEF WL!wake_lock_timeout
<1>4. CASE l \notin SuspendLocks
  <2>1. flags' = f /\ UNCHANGED <<event_seen, expire_timer, work_queue>>
    BY <1>4 DEF wake_lock_timeout
  <2>2. Queued("suspend")' <=> Queued("suspend")
    BY <2>1 DEF Queued
  <2> QED
    BY <1>1, <1>2, <1>4, <2>1, <2>2 DEF WL!wake_lock_timeout
<1> QED
  BY <1>3, <1>4

(* wake_unlock, with the same tail.                                        *)
LEMMA SameUnlock ==
    ASSUME work_queue \in Seq(Works), QueueInv, NEW l, wake_unlock(l)
    PROVE  WL!wake_unlock(l)
<1> DEFINE f == [flags EXCEPT ![l] = "inactive"]
           e == [expires EXCEPT ![l] = 0]
<1>1. WL!SuspendLocks = SuspendLocks /\ WL!Returns = Returns
  BY DEF Locks, SuspendLocks, WL!Locks, WL!SuspendLocks, Returns, WL!Returns
<1>2. /\ flags[l] # "none" /\ expires' = e
      /\ UNCHANGED <<event_seen, taken_late>>
  BY DEF wake_unlock
<1>3. CASE l \in SuspendLocks
  <2>1. PICK ret \in Returns :
           /\ has_wake_lock_locked(f, e, ret)
           /\ flags' = expire_wake_lock(f, e)
           /\ SetExpireTimer(ret)
           /\ QueueSuspend(ret)
    BY <1>3 DEF wake_unlock
  <2>2. /\ WL!has_wake_lock_locked(f, e, ret)
        /\ flags' = WL!expire_wake_lock(f, e)
    <3> HIDE DEF f, e
    <3> QED
      BY <2>1, SameWalk
  <2>3. WL!SetExpireTimer(ret)
    BY <2>1 DEF SetExpireTimer, WL!SetExpireTimer, NotPending, WL!NotPending
  <2>4. WL!QueueSuspend(ret)
    BY <2>1, SameQueueSuspend
  <2> QED
    BY <1>1, <1>2, <1>3, <2>2, <2>3, <2>4 DEF WL!wake_unlock
<1>4. CASE l \notin SuspendLocks
  <2>1. flags' = f /\ UNCHANGED <<expire_timer, work_queue>>
    BY <1>4 DEF wake_unlock
  <2>2. Queued("suspend")' <=> Queued("suspend")
    BY <2>1 DEF Queued
  <2> QED
    BY <1>1, <1>2, <1>4, <2>1, <2>2 DEF WL!wake_unlock
<1> QED
  BY <1>3, <1>4

(* A step of a driver, of the suspend work, of the timer or of time is     *)
(* that very step of WakeLock.                                             *)
LEMMA SameStep ==
    ASSUME ESInv, DriverNext \/ SuspendNext \/ TimerNext \/ Tick
    PROVE  WL!WLNext
<1>0. work_queue \in Seq(Works) /\ QueueInv /\ "suspend" \in Works
  BY DEF ESInv, ESTypeOK, WLTypeOK, Works
<1>1. WL!Running <=> Running
  BY DEF Running, WL!Running
<1>2. work_queue' = work_queue => (Queued("suspend")' <=> Queued("suspend"))
  BY DEF Queued
<1>3. ASSUME NEW ret, HasWakeLock(ret) PROVE WL!HasWakeLock(ret)
  BY <1>3, SameWalk DEF HasWakeLock, WL!HasWakeLock
<1>4. WL!Returns = Returns
  BY DEF Returns, WL!Returns
<1>5. CASE DriverNext
  <2> PICK l \in DriverLocks :
         \/ ClientInit(l)
         \/ ClientDestroy(l)
         \/ ClientLock(l)
         \/ \E timeout \in Timeouts : ClientLockTimeout(l, timeout)
         \/ ClientUnlock(l)
    BY <1>5 DEF DriverNext
  <2>1. CASE ClientInit(l)
    <3>1. WL!ClientInit(l)
      BY <1>1, <1>2, <2>1 DEF ClientInit, wake_lock_init, WL!ClientInit, WL!wake_lock_init
    <3> QED
      BY <3>1 DEF WL!DriverNext, WL!WLNext
  <2>2. CASE ClientDestroy(l)
    <3>1. WL!ClientDestroy(l)
      BY <1>1, <1>2, <2>2 DEF ClientDestroy, wake_lock_destroy, WL!ClientDestroy,
                              WL!wake_lock_destroy
    <3> QED
      BY <3>1 DEF WL!DriverNext, WL!WLNext
  <2>3. CASE ClientLock(l)
    <3>1. WL!ClientLock(l)
      BY <1>1, <1>2, <2>3, SameLock DEF ClientLock, WL!ClientLock
    <3> QED
      BY <3>1 DEF WL!DriverNext, WL!WLNext
  <2>4. CASE \E timeout \in Timeouts : ClientLockTimeout(l, timeout)
    <3> PICK timeout \in Timeouts : ClientLockTimeout(l, timeout)
      BY <2>4
    <3>1. WL!ClientLockTimeout(l, timeout)
      BY <1>0, <1>1, SameLockTimeout DEF ClientLockTimeout, WL!ClientLockTimeout
    <3> QED
      BY <3>1 DEF WL!DriverNext, WL!WLNext
  <2>5. CASE ClientUnlock(l)
    <3>1. WL!ClientUnlock(l)
      BY <1>0, <1>1, <2>5, SameUnlock DEF ClientUnlock, WL!ClientUnlock
    <3> QED
      BY <3>1 DEF WL!DriverNext, WL!WLNext
  <2> QED
    BY <2>1, <2>2, <2>3, <2>4, <2>5
<1>6. CASE StartSuspend
  <2>1. Queued("suspend") /\ ~Queued("suspend")'
    <3>1. work_queue # <<>> /\ Head(work_queue) = "suspend" /\ work_queue' = Tail(work_queue)
      BY <1>6 DEF StartSuspend
    <3>2. Len(work_queue) >= 1 /\ Head(work_queue) = work_queue[1]
      BY <1>0, <3>1
    <3>3. Queued("suspend")
      BY <1>0, <3>1, <3>2 DEF Queued
    <3> QED
      BY <1>0, <3>1, <3>3, DequeueKeeps
  <2>2. WL!StartSuspend
    BY <1>6, <2>1 DEF StartSuspend, WL!StartSuspend
  <2> QED
    BY <2>2 DEF WL!SuspendNext, WL!WLNext
<1>7. CASE SuspendCheck
  <2>1. WL!SuspendCheck
    BY <1>2, <1>3, <1>4, <1>7 DEF SuspendCheck, WL!SuspendCheck
  <2> QED
    BY <2>1 DEF WL!SuspendNext, WL!WLNext
<1>8. CASE FreezerLooks
  <2>1. WL!FreezerLooks
    BY <1>2, <1>3, <1>4, <1>8 DEF FreezerLooks, WL!FreezerLooks
  <2> QED
    BY <2>1 DEF WL!SuspendNext, WL!WLNext
<1>9. CASE power_suspend_late
  <2>1. WL!power_suspend_late
    BY <1>2, <1>3, <1>4, <1>9 DEF power_suspend_late, WL!power_suspend_late
  <2> QED
    BY <2>1 DEF WL!SuspendNext, WL!WLNext
<1>10. CASE SuspendEntry \/ SuspendFails \/ CpuOff \/ CpuOn
  <2>1. WL!SuspendEntry \/ WL!SuspendFails \/ WL!CpuOff \/ WL!CpuOn
    BY <1>2, <1>10 DEF SuspendEntry, SuspendFails, CpuOff, CpuOn, WL!SuspendEntry,
                       WL!SuspendFails, WL!CpuOff, WL!CpuOn
  <2> QED
    BY <2>1 DEF WL!SuspendNext, WL!WLNext
<1>11. CASE SuspendReturns
  <2>1. WL!SuspendReturns
    BY <1>0, <1>2, <1>11, SameLockTimeout DEF SuspendReturns, WL!SuspendReturns
  <2> QED
    BY <2>1 DEF WL!SuspendNext, WL!WLNext
<1>12. CASE TimerNext
  <2>1. CASE TimerFires
    <3>1. WL!TimerFires
      BY <1>1, <1>2, <2>1 DEF TimerFires, WL!TimerFires, NotPending, WL!NotPending
    <3> QED
      BY <3>1 DEF WL!TimerNext, WL!WLNext
  <2>2. CASE expire_wake_locks
    <3>1. WL!expire_wake_locks
      BY <1>0, <1>1, <1>3, <1>4, <2>2, SameQueueSuspend
      DEF expire_wake_locks, WL!expire_wake_locks
    <3> QED
      BY <3>1 DEF WL!TimerNext, WL!WLNext
  <2> QED
    BY <1>12, <2>1, <2>2 DEF TimerNext
<1>13. CASE Tick
  <2>1. WL!Tick
    BY <1>1, <1>2, <1>13 DEF Tick, WL!Tick, Locks, WL!Locks
  <2> QED
    BY <2>1 DEF WL!WLNext
<1> QED
  BY <1>5, <1>6, <1>7, <1>8, <1>9, <1>10, <1>11, <1>12, <1>13 DEF SuspendNext

(* Every step of the composed system is one that WakeLock allows.  Early   *)
(* suspend and the sync work appear as callers of the system locks; the    *)
(* rest of what they do is not seen.                                       *)
LEMMA StepRefines == ESInv /\ [ESNext]_vars => [WL!WLNext]_(WL!wlVars)
<1> SUFFICES ASSUME ESInv, [ESNext]_vars PROVE WL!WLNext \/ UNCHANGED WL!wlVars
  OBVIOUS
<1>0. /\ work_queue \in Seq(Works) /\ QueueInv /\ BusyInv
      /\ "suspend" \in Works /\ "early_suspend" \in Works /\ "late_resume" \in Works
  BY DEF ESInv, ESTypeOK, WLTypeOK, Works
<1>1. ASSUME UNCHANGED lockVars, Queued("suspend")' <=> Queued("suspend"),
             \/ worker' = worker
             \/ worker \in {"idle", "busy"} /\ worker' \in {"idle", "busy"}
      PROVE  UNCHANGED WL!wlVars
  BY <1>1 DEF lockVars, WL!wlVars
<1>2. work_queue' = work_queue => (Queued("suspend")' <=> Queued("suspend"))
  BY DEF Queued
<1>3. UNCHANGED wlVars => UNCHANGED WL!wlVars
  BY <1>1, <1>2 DEF wlVars, lockVars
<1>4. CASE DriverNext \/ SuspendStep \/ TimerNext \/ Tick
  BY <1>4, SameStep DEF SuspendStep
<1>5. CASE UNCHANGED vars
  BY <1>3, <1>5 DEF vars
<1>6. CASE RegistrationNext \/ \E u \in Users : RequestReturns(u) \/ RequestAgain(u)
  BY <1>3, <1>6 DEF RegistrationNext, register_early_suspend, unregister_early_suspend,
                    RequestReturns, RequestAgain
<1>7. ASSUME NEW u \in Users, RequestSleep(u) PROVE UNCHANGED WL!wlVars
  <2>1. Queued("suspend")' <=> Queued("suspend")
    BY <1>0, <1>7, QueueKeeps DEF RequestSleep
  <2> QED
    BY <1>1, <1>7, <2>1 DEF RequestSleep
<1>8. ASSUME NEW u \in Users, RequestOn(u) PROVE WL!WLNext
  <2>1. Queued("suspend")' <=> Queued("suspend")
    BY <1>0, <1>8, QueueKeeps DEF RequestOn
  <2>2. wake_lock(main_wake_lock) /\ UNCHANGED <<expire_softirq, worker>>
    BY <1>8 DEF RequestOn
  <2>3. WL!Running
    BY <1>8 DEF RequestOn, UserRuns, WL!Running
  <2>4. WL!ClientLock(main_wake_lock)
    BY <2>1, <2>2, <2>3, SameLock DEF WL!ClientLock
  <2> QED
    BY <2>4 DEF WL!SystemNext, WL!WLNext
<1>9. CASE SyncStart
  <2>1. WL!ClientLock(sys_sync_wake_lock)
    BY <1>2, <1>9, SameLock DEF SyncStart, WL!ClientLock, Running, WL!Running
  <2> QED
    BY <2>1 DEF WL!SystemNext, WL!WLNext
<1>10. CASE SyncEnd
  <2>1. WL!ClientUnlock(sys_sync_wake_lock)
    BY <1>0, <1>10, SameUnlock DEF SyncEnd, WL!ClientUnlock, Running, WL!Running
  <2> QED
    BY <2>1 DEF WL!SystemNext, WL!WLNext
<1>11. ASSUME NEW w \in {"early_suspend", "late_resume"}, NEW pc, StartWork(w, pc)
       PROVE  UNCHANGED WL!wlVars
  <2>1. Queued("suspend")' <=> Queued("suspend")
    BY <1>0, <1>11, DequeueKeeps DEF StartWork
  <2> QED
    BY <1>1, <1>11, <2>1 DEF StartWork
<1>12. CASE EarlyEnd
  <2>1. worker = "busy" /\ worker' = "idle"
    BY <1>0, <1>12 DEF EarlyEnd, BusyInv
  <2>2. CASE suspend_requested /\ suspended
    <3>1. wake_unlock(main_wake_lock) /\ UNCHANGED expire_softirq
      BY <1>12, <2>2 DEF EarlyEnd
    <3>2. WL!ClientUnlock(main_wake_lock)
      BY <1>0, <2>1, <3>1, SameUnlock DEF WL!ClientUnlock, WL!Running
    <3> QED
      BY <3>2 DEF WL!SystemNext, WL!WLNext
  <2>3. CASE ~(suspend_requested /\ suspended)
    BY <1>1, <1>2, <1>12, <2>1, <2>3 DEF EarlyEnd
  <2> QED
    BY <2>2, <2>3
<1>13. CASE LateEnd
  <2>1. worker = "busy" /\ worker' = "idle"
    BY <1>0, <1>13 DEF LateEnd, BusyInv
  <2> QED
    BY <1>1, <1>2, <1>13, <2>1 DEF LateEnd
<1>14. CASE EarlyBegin \/ EarlyHandler \/ LateBegin \/ LateHandler
  BY <1>3, <1>14 DEF EarlyBegin, EarlyHandler, LateBegin, LateHandler
<1> QED
  BY <1>4, <1>5, <1>6, <1>7, <1>8, <1>9, <1>10, <1>11, <1>12, <1>13, <1>14
  DEF ESNext, HandlerNext, RequestNext, SyncNext

(* The composed system implements WakeLock: what callers of wake locks may *)
(* rely on does not change because early suspend shares the work queue,    *)
(* its thread and the system locks.                                        *)
THEOREM EarlySuspendImplementsWakeLock == ESSafeSpec => ImplementsWakeLock
<1>1. ESInit => WL!WLInit
  <2> SUFFICES ASSUME ESInit PROVE WL!WLInit
    OBVIOUS
  <2>1. ~Queued("suspend")
    BY DEF ESInit, WLInit, Queued
  <2> QED
    BY <2>1 DEF ESInit, WLInit, WL!WLInit, Locks, WL!Locks, NotPending, WL!NotPending
<1> QED
  BY <1>1, StepRefines, ESInvariantSafe, PTL DEF ESSafeSpec, ImplementsWakeLock, WL!WLSafeSpec

=============================================================================
