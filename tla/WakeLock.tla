------------------------------ MODULE WakeLock ------------------------------
(***************************************************************************)
(* Android wake locks (kernel/power/wakelock.c): the per-type lists of     *)
(* active locks, the expiry timer, and the suspend work that puts the      *)
(* system to sleep once no lock of type WAKE_LOCK_SUSPEND is active.       *)
(*                                                                         *)
(* Every operation on the lists runs under list_lock, so it is one step.   *)
(* What interleaves is everything between two such sections: the callers,  *)
(* the timer interrupt and the handler it starts, and the suspend work.    *)
(*                                                                         *)
(* Abstractions.  A list is the set of its locks: locks without a timeout  *)
(* are inserted at the head and locks with one at the tail (l.432, l.440), *)
(* so the walk of has_wake_lock_locked meets a lock without a timeout      *)
(* before any other.  Times are jiffies still to go, 0 meaning "now or in  *)
(* the past".  current_event_num is kept only as whether it has changed    *)
(* since suspend() read it.  The CONFIG_WAKELOCK_STAT counters are left    *)
(* out.                                                                    *)
(***************************************************************************)
EXTENDS Integers, Sequences, FiniteSets

CONSTANTS
    DriverLocks,      \* wake locks of drivers and of /sys/power/wake_lock
    IdleLocks,        \* the ones among them of type WAKE_LOCK_IDLE
    main_wake_lock,   \* held from boot until early suspend has finished
    sys_sync_wake_lock,
    unknown_wakeup,   \* taken when the system woke and nobody says why
    Timeouts,         \* timeouts the callers of wake_lock_timeout pass
    UnknownTimeout,   \* HZ / 2
    MaxTimeout        \* bound on all of them

ASSUME LockAssumption ==
    /\ IdleLocks \subseteq DriverLocks
    /\ main_wake_lock \notin DriverLocks
    /\ sys_sync_wake_lock \notin DriverLocks
    /\ unknown_wakeup \notin DriverLocks
    /\ main_wake_lock # sys_sync_wake_lock
    /\ main_wake_lock # unknown_wakeup
    /\ sys_sync_wake_lock # unknown_wakeup

ASSUME TimeoutAssumption ==
    /\ MaxTimeout \in Nat
    /\ Timeouts \subseteq 0..MaxTimeout
    /\ UnknownTimeout \in 1..MaxTimeout

Locks == DriverLocks \cup {main_wake_lock, sys_sync_wake_lock, unknown_wakeup}

(* The active list of type WAKE_LOCK_SUSPEND can hold these.               *)
SuspendLocks == Locks \ IdleLocks

VARIABLES
    flags,         \* per lock: which of the flags of l.25-29 are set
    expires,       \* per lock: jiffies left of a lock with a timeout
    expire_timer,  \* jiffies left of the pending timer, or NotPending
    expire_softirq,\* the timer has fired, its handler waits for list_lock
    work_queue,    \* suspend_work_queue: works that wait for its one thread
    worker,        \* what that thread is doing
    event_seen,    \* current_event_num # entry_event_num
    taken_late     \* history: locks taken since power_suspend_late agreed

wlVars == <<flags, expires, expire_timer, expire_softirq, work_queue, worker,
            event_seen, taken_late>>

-----------------------------------------------------------------------------
(* State.                                                                  *)

NotPending == -1

(* "none": not WAKE_LOCK_INITIALIZED; "inactive": on inactive_locks;       *)
(* "held": WAKE_LOCK_ACTIVE; "timed": ACTIVE and WAKE_LOCK_AUTO_EXPIRE.    *)
Flags == {"none", "inactive", "held", "timed"}

(* The works of suspend_work_queue; early suspend adds the last two.       *)
Works == {"suspend", "early_suspend", "late_resume"}

(* Where the thread of suspend_work_queue is.  The suspend work: started;  *)
(* has_wake_lock returned 0; entry_event_num read and pm_suspend called;   *)
(* power_suspend_late returned 0; CPU off; back from pm_suspend.  "busy":  *)
(* it runs a work of another module.                                       *)
WorkerStates == {"idle", "suspend", "checked", "entered", "committed",
                 "asleep", "returned", "busy"}

WLTypeOK ==
    /\ flags \in [Locks -> Flags]
    /\ expires \in [Locks -> 0..MaxTimeout]
    /\ expire_timer \in {NotPending} \cup (0..MaxTimeout)
    /\ expire_softirq \in BOOLEAN
    /\ work_queue \in Seq(Works)
    /\ worker \in WorkerStates
    /\ event_seen \in BOOLEAN
    /\ taken_late \in SUBSET Locks

(* wakelocks_init has run, and drivers have not yet.                       *)
WLInit ==
    /\ flags = [l \in Locks |->
                   IF l = main_wake_lock THEN "held"
                   ELSE IF l \in DriverLocks THEN "none" ELSE "inactive"]
    /\ expires = [l \in Locks |-> 0]
    /\ expire_timer = NotPending
    /\ expire_softirq = FALSE
    /\ work_queue = <<>>
    /\ worker = "idle"
    /\ event_seen = FALSE
    /\ taken_late = {}

(* No instruction runs while the CPU is off.                               *)
Running == worker # "asleep"

-----------------------------------------------------------------------------
(* Helpers.                                                                *)

Queued(w) == \E i \in 1..Len(work_queue) : work_queue[i] = w

(* queue_work: a work that is already pending is not queued again.         *)
queue_work(w) == IF Queued(w) THEN work_queue ELSE Append(work_queue, w)

(* has_wake_lock_locked on the active list of WAKE_LOCK_SUSPEND, when the  *)
(* locks have flags f and expiry e: whether it can return ret, and the     *)
(* flags after it has expired locks on its way.                            *)
HasHeld(f) == \E l \in SuspendLocks : f[l] = "held"

(* Mutant: the walk keeps the shortest timeout instead of the longest.     *)
has_wake_lock_locked_shortest(f, e, ret) ==
    LET left == {e[l] : l \in {k \in SuspendLocks : f[k] = "timed"}}
    IN  IF HasHeld(f) THEN ret = -1
        ELSE ret \in (IF left = {} THEN {0} ELSE left) /\ \A t \in left : ret <= t

has_wake_lock_locked(f, e, ret) ==
    LET left == {e[l] : l \in {k \in SuspendLocks : f[k] = "timed"}}
    IN  IF HasHeld(f) THEN ret = -1
                      ELSE ret \in left \cup {0} /\ \A t \in left : t <= ret

expire_wake_lock(f, e) ==
    [l \in Locks |-> IF ~HasHeld(f) /\ l \in SuspendLocks
                        /\ f[l] = "timed" /\ e[l] = 0
                     THEN "inactive" ELSE f[l]]

HasWakeLock(ret) ==
    /\ has_wake_lock_locked(flags, expires, ret)
    /\ flags' = expire_wake_lock(flags, expires)
    /\ UNCHANGED <<expires, expire_timer>>

(* The end of wake_lock_internal and of wake_unlock: the timer is moved to *)
(* the last expiry or stopped; the suspend work is queued if no lock is    *)
(* left.                                                                   *)
SetExpireTimer(ret) == expire_timer' = IF ret > 0 THEN ret ELSE NotPending

QueueSuspend(ret) ==
    work_queue' = IF ret = 0 THEN queue_work("suspend") ELSE work_queue

Returns == -1..MaxTimeout

RecordTaken(l) == IF worker = "committed" THEN taken_late \cup {l} ELSE taken_late

-----------------------------------------------------------------------------
(* Operations.  wake_lock leaves work_queue to its caller: with no timeout *)
(* expire_in is -1 and nothing is queued.                                  *)

wake_lock_init(l) ==
    /\ flags[l] = "none"
    /\ flags' = [flags EXCEPT ![l] = "inactive"]
    /\ UNCHANGED <<expires, expire_timer, work_queue, event_seen, taken_late>>

(* wake_lock_destroy takes the lock off its list and does nothing else.    *)
(* The drivers of this configuration release a lock that they hold without *)
(* a timeout before they destroy it.                                       *)
wake_lock_destroy(l) ==
    /\ flags[l] \in {"inactive", "timed"}
    /\ flags' = [flags EXCEPT ![l] = "none"]
    /\ expires' = [expires EXCEPT ![l] = 0]
    /\ UNCHANGED <<expire_timer, work_queue, event_seen, taken_late>>

wake_lock(l) ==
    /\ flags[l] # "none"
    /\ flags' = [flags EXCEPT ![l] = "held"]
    /\ expires' = [expires EXCEPT ![l] = 0]
    /\ taken_late' = RecordTaken(l)
    /\ IF l \in SuspendLocks
       THEN event_seen' = TRUE /\ SetExpireTimer(-1)
       ELSE UNCHANGED <<event_seen, expire_timer>>

(* Mutant: the lock expires a jiffy too late.                              *)
wake_lock_timeout_late(l, timeout) ==
    /\ flags[l] # "none"
    /\ flags' = [flags EXCEPT ![l] = "timed"]
    /\ expires' = [expires EXCEPT ![l] = timeout + 1]
    /\ taken_late' = RecordTaken(l)
    /\ event_seen' = TRUE
    /\ SetExpireTimer(timeout)
    /\ UNCHANGED work_queue

wake_lock_timeout(l, timeout) ==
    LET f == [flags EXCEPT ![l] = "timed"]
        e == [expires EXCEPT ![l] = timeout]
    IN  /\ flags[l] # "none"
        /\ expires' = e
        /\ taken_late' = RecordTaken(l)
        /\ IF l \in SuspendLocks
           THEN \E expire_in \in Returns :
                   /\ has_wake_lock_locked(f, e, expire_in)
                   /\ flags' = expire_wake_lock(f, e)
                   /\ event_seen' = TRUE
                   /\ SetExpireTimer(expire_in)
                   /\ QueueSuspend(expire_in)
           ELSE /\ flags' = f
                /\ UNCHANGED <<event_seen, expire_timer, work_queue>>

wake_unlock(l) ==
    LET f == [flags EXCEPT ![l] = "inactive"]
        e == [expires EXCEPT ![l] = 0]
    IN  /\ flags[l] # "none"
        /\ expires' = e
        /\ UNCHANGED <<event_seen, taken_late>>
        /\ IF l \in SuspendLocks
           THEN \E has_lock \in Returns :
                   /\ has_wake_lock_locked(f, e, has_lock)
                   /\ flags' = expire_wake_lock(f, e)
                   /\ SetExpireTimer(has_lock)
                   /\ QueueSuspend(has_lock)
           ELSE /\ flags' = f
                /\ UNCHANGED <<expire_timer, work_queue>>

-----------------------------------------------------------------------------
(* Time and the expiry timer.                                              *)

(* jiffies++ in the timer interrupt.                                       *)
Tick ==
    /\ Running
    /\ expires' = [l \in Locks |-> IF expires[l] > 0 THEN expires[l] - 1 ELSE 0]
    /\ expire_timer' = IF expire_timer > 0 THEN expire_timer - 1 ELSE expire_timer
    /\ UNCHANGED <<flags, expire_softirq, work_queue, worker, event_seen, taken_late>>

(* The timer core detaches the due timer and calls its handler, which has  *)
(* still to take list_lock.                                                *)
TimerFires ==
    /\ Running
    /\ expire_timer = 0
    /\ ~expire_softirq
    /\ expire_timer' = NotPending
    /\ expire_softirq' = TRUE
    /\ UNCHANGED <<flags, expires, work_queue, worker, event_seen, taken_late>>

(* Mutant: the handler expires the locks and queues nothing.               *)
expire_wake_locks_only ==
    /\ Running
    /\ expire_softirq
    /\ expire_softirq' = FALSE
    /\ \E has_lock \in Returns : HasWakeLock(has_lock)
    /\ UNCHANGED <<work_queue, worker, event_seen, taken_late>>

expire_wake_locks ==
    /\ Running
    /\ expire_softirq
    /\ expire_softirq' = FALSE
    /\ \E has_lock \in Returns :
          /\ HasWakeLock(has_lock)
          /\ QueueSuspend(has_lock)
    /\ UNCHANGED <<worker, event_seen, taken_late>>

-----------------------------------------------------------------------------
(* The suspend work.                                                       *)

(* The thread clears the pending bit and calls suspend().                  *)
StartSuspend ==
    /\ worker = "idle"
    /\ work_queue # <<>>
    /\ Head(work_queue) = "suspend"
    /\ work_queue' = Tail(work_queue)
    /\ worker' = "suspend"
    /\ UNCHANGED <<flags, expires, expire_timer, expire_softirq, event_seen,
                   taken_late>>

SuspendCheck ==
    /\ worker = "suspend"
    /\ \E ret \in Returns :
          /\ HasWakeLock(ret)
          /\ worker' = IF ret # 0 THEN "idle" ELSE "checked"
    /\ UNCHANGED <<expire_softirq, work_queue, event_seen, taken_late>>

(* entry_event_num is read after, and not under, list_lock.                *)
SuspendEntry ==
    /\ worker = "checked"
    /\ worker' = "entered"
    /\ event_seen' = FALSE
    /\ UNCHANGED <<flags, expires, expire_timer, expire_softirq, work_queue,
                   taken_late>>

(* The freezer looks while a task is left to freeze, and gives up if a     *)
(* lock is active.                                                         *)
FreezerLooks ==
    /\ worker = "entered"
    /\ \E ret \in Returns :
          /\ HasWakeLock(ret)
          /\ worker' = IF ret # 0 THEN "returned" ELSE "entered"
    /\ UNCHANGED <<expire_softirq, work_queue, event_seen, taken_late>>

(* Mutant: the power device agrees whatever has_wake_lock returns.         *)
power_suspend_late_always ==
    /\ worker = "entered"
    /\ \E ret \in Returns : HasWakeLock(ret)
    /\ worker' = "committed"
    /\ UNCHANGED <<expire_softirq, work_queue, event_seen, taken_late>>

(* The power device is the last word: with a lock active it refuses.       *)
power_suspend_late ==
    /\ worker = "entered"
    /\ \E ret \in Returns :
          /\ HasWakeLock(ret)
          /\ worker' = IF ret # 0 THEN "returned" ELSE "committed"
    /\ UNCHANGED <<expire_softirq, work_queue, event_seen, taken_late>>

(* Any earlier or later step of pm_suspend can fail.                       *)
SuspendFails ==
    /\ worker \in {"entered", "committed"}
    /\ worker' = "returned"
    /\ UNCHANGED <<flags, expires, expire_timer, expire_softirq, work_queue,
                   event_seen>>
    /\ taken_late' = {}

CpuOff ==
    /\ worker = "committed"
    /\ worker' = "asleep"
    /\ UNCHANGED <<flags, expires, expire_timer, expire_softirq, work_queue,
                   event_seen, taken_late>>

CpuOn ==
    /\ worker = "asleep"
    /\ worker' = "returned"
    /\ UNCHANGED <<flags, expires, expire_timer, expire_softirq, work_queue,
                   event_seen>>
    /\ taken_late' = {}

(* Mutant: a wakeup without an event takes no lock.                        *)
SuspendReturnsQuietly ==
    /\ worker = "returned"
    /\ worker' = "idle"
    /\ UNCHANGED <<flags, expires, expire_timer, expire_softirq, work_queue,
                   event_seen, taken_late>>

(* A wakeup nobody took a lock for keeps the system up for HZ / 2.         *)
SuspendReturns ==
    /\ worker = "returned"
    /\ worker' = "idle"
    /\ UNCHANGED expire_softirq
    /\ IF event_seen
       THEN UNCHANGED <<flags, expires, expire_timer, work_queue, event_seen,
                        taken_late>>
       ELSE wake_lock_timeout(unknown_wakeup, UnknownTimeout)

-----------------------------------------------------------------------------
(* Callers: drivers and user space, in any order the interface allows.     *)

ClientInit(l) ==
    Running /\ wake_lock_init(l) /\ UNCHANGED <<expire_softirq, worker>>

ClientDestroy(l) ==
    Running /\ wake_lock_destroy(l) /\ UNCHANGED <<expire_softirq, worker>>

ClientLock(l) ==
    Running /\ wake_lock(l) /\ UNCHANGED <<expire_softirq, worker, work_queue>>

ClientLockTimeout(l, timeout) ==
    Running /\ wake_lock_timeout(l, timeout) /\ UNCHANGED <<expire_softirq, worker>>

ClientUnlock(l) ==
    Running /\ wake_unlock(l) /\ UNCHANGED <<expire_softirq, worker>>

DriverNext ==
    \E l \in DriverLocks :
       \/ ClientInit(l)
       \/ ClientDestroy(l)
       \/ ClientLock(l)
       \/ \E timeout \in Timeouts : ClientLockTimeout(l, timeout)
       \/ ClientUnlock(l)

(* On their own, wake locks do not care who takes main_wake_lock or        *)
(* sys_sync_wake_lock, nor when.                                           *)
SystemNext ==
    \E l \in {main_wake_lock, sys_sync_wake_lock} : ClientLock(l) \/ ClientUnlock(l)

(* What the thread of suspend_work_queue does in suspend(), all of it.     *)
SuspendNext ==
    \/ StartSuspend
    \/ SuspendCheck
    \/ SuspendEntry
    \/ FreezerLooks
    \/ power_suspend_late
    \/ SuspendFails
    \/ CpuOff
    \/ CpuOn
    \/ SuspendReturns

TimerNext ==
    \/ TimerFires
    \/ expire_wake_locks

WLNext ==
    \/ DriverNext
    \/ SystemNext
    \/ SuspendNext
    \/ TimerNext
    \/ Tick

(* Time goes on, a due timer is served and the kernel thread of the work   *)
(* queue is scheduled.  Callers owe nothing, and nothing makes the CPU     *)
(* wake up.                                                                *)
WorkerStep == SuspendNext /\ worker # "asleep"

WLSafeSpec == WLInit /\ [][WLNext]_wlVars

WLSpec ==
    /\ WLSafeSpec
    /\ WF_wlVars(Tick)
    /\ WF_wlVars(TimerNext)
    /\ WF_wlVars(WorkerStep)

-----------------------------------------------------------------------------
(* Properties.                                                             *)

Unexpired(l) == flags[l] = "timed" /\ expires[l] > 0

Prevents(l) == flags[l] = "held" \/ Unexpired(l)

(* The system goes down only if no lock was active when power_suspend_late *)
(* looked: a lock that prevents suspend while the CPU is off was taken     *)
(* after that, by code that still ran with interrupts enabled.             *)
SleepRespectsLocks ==
    worker = "asleep" =>
        \A l \in SuspendLocks : Prevents(l) => l \in taken_late

(* Suspend is never forgotten: when nothing prevents it, then the timer or *)
(* its handler or the suspend work is going to find out, or suspend() is   *)
(* past its check and, no event having come, will take unknown_wakeup.     *)
NoLostSuspend ==
    (\A l \in SuspendLocks : ~Prevents(l)) =>
        \/ expire_timer # NotPending
        \/ expire_softirq
        \/ Queued("suspend")
        \/ worker \in {"suspend", "checked"}
        \/ worker \in {"entered", "committed", "asleep", "returned"} /\ ~event_seen

(* Locks with a timeout alone keep the timer armed, and it does not fire   *)
(* before the last of them has expired.                                    *)
TimerCoversTimeouts ==
    ~HasHeld(flags) =>
        \A l \in SuspendLocks :
            Unexpired(l) => expire_timer >= expires[l]

(* Once no driver and no system lock is active any more, the system sleeps *)
(* or tries to again and again.                                            *)
Quiet == \A l \in SuspendLocks \ {unknown_wakeup} : flags[l] \in {"none", "inactive"}

SuspendRetried ==
    <>[]Quiet => []<>(worker \in {"entered", "asleep"})

=============================================================================
