# Verification of the Android kernel additions

The repository is the source release of an MT6573-based Android phone: a Linux
2.6.35.7 kernel with the Android additions, vendor drivers and bundled code. The
part of it that is this product's own control logic, and the hardest to test, is
the machinery that decides **when the phone may sleep**: wake locks, early
suspend, and the suspend path they drive (`src/kernel/kernel/power/`). This
project models that machinery in TLA+, checks it with TLC and proves its safety
properties and the refinements between its layers with TLAPS. Around it stand the Android drivers that user space uses
directly and whose logic is their own: the alarms that wake the phone, the log
device, shared memory that can be purged, and the handshake that stops drawing
before the screen goes off. They are modelled and checked with TLC too, and the
invariants that the runs check are proved.

Configuration assumed (`src/kernel/.config`): one CPU with preemption,
`HZ=100`, `CONFIG_WAKELOCK`, `CONFIG_WAKELOCK_STAT`, `CONFIG_USER_WAKELOCK`,
`CONFIG_EARLYSUSPEND`, `CONFIG_FB_EARLYSUSPEND`; no console early suspend.

## 1. Inventory

| Component | State | Operations | Interacts with |
|---|---|---|---|
| Wake locks (`wakelock.c`) | `inactive_locks`, `active_wake_locks[type]`, per lock `flags`/`expires`, `expire_timer`, `current_event_num`, `suspend_work` | `wake_lock_init/destroy`, `wake_lock`, `wake_lock_timeout`, `wake_unlock`, `expire_wake_locks` (timer), `suspend` (work), `power_suspend_late` (device callback) | called by every driver and by early suspend; calls `pm_suspend`; is asked by the freezer |
| Early suspend (`earlysuspend.c`) | `state` (two bits), handler list sorted by level, `fb_drv_ready`, three works | `register/unregister_early_suspend`, `request_suspend_state`, `early_suspend`, `late_resume`, `early_sys_sync` | shares the single thread of `suspend_work_queue` with `suspend`; holds `main_wake_lock` |
| Suspend to RAM (`suspend.c`) | what has been taken from the running system so far, `pm_mutex` | `pm_suspend` → `enter_state` → `suspend_prepare`, `suspend_devices_and_enter`, `suspend_enter`, `suspend_finish` | freezer, notifiers, device callbacks, platform ops |
| Freezer (`process.c`) | which tasks are frozen | `freeze_processes`, `thaw_processes` | looks at the wake locks while it waits |
| `/sys/power/state` (`main.c`) | – | `state_store` | `request_suspend_state` |
| User wake locks (`userwakelock.c`) | tree of named locks | `wake_lock_store`, `wake_unlock_store` and their `show` | wake locks |
| Frame buffer handshake (`fbearlysuspend.c`) | `fb_state`, wait queue | stop/start drawing handlers, `wait_for_fb_sleep/wake` | early suspend, user space |
| Alarm queues (`drivers/rtc/alarm.c`) | per type a queue, an hrtimer, `delta`, `stopped`; `suspended`; the RTC's alarm; `alarm_rtc_wake_lock` | `alarm_start_range`, `alarm_try_to_cancel`, timer and RTC interrupts, `alarm_set_rtc`, `alarm_suspend`, `alarm_resume` | wake locks, RTC, wall clock |
| Alarm device (`drivers/rtc/alarm-dev.c`) | `alarm_opened`, `alarm_pending`, `alarm_enabled`, `wait_pending`, `alarm_wake_lock` | ioctls, release, `alarm_triggered` | alarm queues, wake locks, the process that owns the device |
| Logger (`drivers/staging/android/logger.c`) | ring buffer, `w_off`, `head`, `sign`; per reader `r_off`, `sign` | write, read, open, release, flush | user space; readers and writers meet on a mutex and a wait queue |
| Shared memory (`mm/ashmem.c`) | per area a list of unpinned ranges; the LRU list of all areas, `lru_count` | size, map, pin, unpin, release, shrinker | page reclaim, user space |
| Binder, low memory killer, timed output, … | references, transactions, a victim | file operations, shrinkers | user space |

Hard behaviour: every lock operation interleaves with a timer handler that may
already be waiting for `list_lock`, with the suspend work, and with requests from
user space; `suspend()` checks, then reads `current_event_num`, then runs for
seconds; two works of one queue undo each other; a blocked writer waits for the
thread that may be trying to freeze it; any step of the suspend path can fail.
Alarms go off between any two steps of a process that sets, clears and waits for
them, while the wall clock is being moved and while devices are half suspended. A
log writer overtakes readers, and may fault after it has; a log file is closed while
the list it is on is being walked or changed. A late answer of user
space meets a kernel that no longer waits for it. Ranges of pages are split, merged
and purged in any order, and the allocation that a split needs may fail.
`PROJECT.json` lists these hazards one by one at their lines, with the properties
that would catch them.

What makes each component correct:

* wake locks – the CPU never goes off over a lock that was active at the last
  look; a suspend that nothing prevents is never forgotten; timeouts are honoured;
* early suspend – devices, state bits and `main_wake_lock` never disagree; the
  last request wins; blocked writers are released;
* suspend path – complete and ordered unwinding whatever fails; sleep only with
  user space frozen; every attempt ends;
* user wake locks – every name has one lock, in the state user space last asked for;
* frame buffer handshake – the kernel's belief that drawing has stopped is true;
  nobody is left asleep;
* alarms – the phone does not sleep past one; setting the clock moves neither elapsed
  realtime nor what is due; an alarm keeps the phone awake until its owner has dealt
  with it, and no longer;
* logger – what a reader has still to read is whole, in order and complete, or it is
  told of the gap;
* shared memory – only what was given up is purged, and a purge is not forgotten as
  long as allocations succeed.

## 2. Modules

```
WakeLock ─────────────┐
   ▲  EXTENDS, and refined through WL == INSTANCE WakeLock WITH ...
EarlySuspend ─────────┴► EarlySuspendProofs (TLAPS)
   ▲  EXTENDS, and refined (ESSafeSpec as a property)
SuspendPath ───────────► SuspendPathProofs (TLAPS, extends EarlySuspendProofs)

Alarm ─────────────► AlarmProofs             AlarmDev (on what Alarm promises)
FbEarlySuspend ────► FbEarlySuspendProofs         └───► AlarmDevProofs
   (called by EarlySuspend)
UserWakeLock ──────► UserWakeLockProofs      Ashmem ───► AshmemProofs
   (callers of WakeLock)                     Logger ───► LoggerProofs

MC<module>: the instance of <module> for TLC
```

**WakeLock** – state per lock: `flags` (`none`, `inactive`, `held`, `timed`) and
`expires`; `expire_timer` (jiffies to go or `NotPending`), `expire_softirq` (the
handler has been detached by the timer core and waits for `list_lock`; `del_timer`
no longer stops it), `work_queue`, `worker` (where the thread of
`suspend_work_queue` is in `suspend()`), `event_seen`
(`current_event_num != entry_event_num`). `taken_late` is a history variable. Each
critical section under `list_lock` is one action, timer update and `queue_work`
included. Abstractions: a list is the set of its locks, which is enough because
locks without timeout are inserted at the head and locks with one at the tail, so
the walk of `has_wake_lock_locked` returns -1 before it expires anything iff a lock
without timeout is on the list; times are relative; the statistics are left out. Of
`pm_suspend` this module keeps only the looks at the locks (`FreezerLooks`,
`power_suspend_late`), failure, and the CPU going off and on.

**EarlySuspend** – adds the two bits of `state`, the handler list, which devices
are `down`, the position of the running walk, completions of `fb_drv_ready`, the
writers of `/sys/power/state`, and the sync work. One action per section under
`state_lock` and per handler callback; `early_suspend_lock` is `MutexFree`.
`SuspendStep` lets the suspend work commit only with no writer blocked in the
kernel, which is what freezing user space amounts to; SuspendPath shows that the
real freezer implies it.

**SuspendPath** – `pm_suspend` in full. The table `Down` gives, for each point on
the way down, what success takes, where it goes, what a failing step has already
taken and the label a failure jumps to; `Up` gives what each label gives back. The
freezer is modelled thread by thread for user space. The section with interrupts
disabled is one step in and one step out. External: notifiers, device callbacks,
platform operations (may succeed or fail), completion of kernel thread freezing.

**Logger** – one log: the cells of `buffer`, `w_off`, `head`, `sign`, the list of
`readers` with `r_off` and `sign`, and where each task is. A section under the mutex
is one step unless something that runs without the mutex can see or disturb its middle:
the reading of `w_off` on entry to a write (`BeginWrite`), and the `list_del` of
`logger_release`. So a write, a flush and an open have steps of their own, and the
mutex may be held across steps by a writer, by the flusher or by the reader that is
being added. A walk of `fix_up_readers` or of `LOGGER_FLUSH_LOG` that stands on a reader
that is released follows a poisoned pointer, and its task dies with the mutex held
(`Oops`, `FlushOops`). An operation on the list begins with one step and takes effect
with another; `raced` records that two have overlapped. The length field is two cells,
so that it wraps around the end of the buffer as in the code; payloads have only a
length; each cell also says which write it was written for, which is what the properties
are about. The model ends (`Broken`) where a fault has restored a stale `w_off`, because
what the code then does with lengths read from payload is not defined by anything in
it, and where two operations on the list have overlapped, because its links then depend
on the order of single stores and may lead to freed memory.

**Alarm** – `expires` is the queue of each type (empty or the one alarm that
`alarm-dev.c` has for it), `timer` its hrtimer, with `delta` between the clock of the
timer and that of the alarms. Time is explicit: `real` is the time outside,
`wall_offset` and `rtc_offset` say what the wall clock and the RTC (in whole seconds)
show. `alarm_set_rtc` is four steps, split where it gives up `alarm_slock`;
`alarm_suspend` three, between which timers can fire. `pm` is the stage of the suspend
as SuspendPath has it, reduced to what this driver sees; any stage can fail. The
index of `alarm.c:375`, a mask by mistake, is kept as it is.

**AlarmDev** – the variables of the file, with masks as sets of types; `queued` stands
for alarm.c, from which an alarm can go off at any moment. `asked` and `owed` are what
the process believes. `alarm_release` is one step for each time it takes the lock.
One process owns the device and has one thread in `ANDROID_ALARM_WAIT`, which tests its
condition, sleeps on the wait queue, and tests again only after a `wake_up` or a signal.

**FbEarlySuspend** – `fb_state`, the wait queue, where the work queue's thread is in
the two handlers, and the process that draws, which is external: one thread of it
reads the two files in turn. `wait_event` tests and sleeps in one step, because it
queues itself first. Watchers read only `wait_for_fb_sleep`.

**Ashmem** – per area its size, whether it is mapped, and `unpinned_list`; the shared
LRU list and `lru_count`. `ASHMEM_SET_SIZE` tests and stores without the mutex, in two
steps: `storing` are the sizes of callers in between, who may store them when the area
has been mapped and ranges lie beyond them. A pin or unpin reads the size before it has
the mutex, so its request is checked against any size the area `had`. `call` is the call that holds `ashmem_mutex`, with its local
variables; each range that a walk of `ashmem_pin`, `ashmem_unpin`, `ashmem_release` or
`ashmem_shrink` deals with is one step, built from `range_del`, `range_shrink` and
`range_alloc`, so that the properties hold half way through a call, too. Where the code
goes on along the list after a range, or starts again, the model takes the next range
that overlaps the request. Every allocation may fail. `given_up` and `lost` are what
user space has unpinned and what was purged of it.

**UserWakeLock** – the tree is the sequence of its nodes from left to right, and a
lookup may descend through any shape the tree can have, so that nothing depends on
the balancing. The conversion of timeouts has the code's widths as parameters.

Definitions named `...Late`, `...Forgets...`, `..._always` and the like, marked
*Mutant*, are the plausible bugs each property has been shown to detect; no
specification uses them.

## 3. Runs

| Run | Instance | Shows |
|---|---|---|
| `wakelock` | 2 suspend locks, 1 idle lock, timeouts 0, 1, 2; 111 000 states | `SleepRespectsLocks`, `NoLostSuspend`, `TimerCoversTimeouts`; `SuspendRetried`: a system nobody keeps awake sleeps or tries again |
| `early_suspend` | 2 writers (symmetric), 2 handlers at levels 50 and 150, 1 driver lock; 215 000 states | handlers, bits, lock and completions agree; refinement of WakeLock |
| `fb_ready` | 2 writers, 2 handlers | **violation** of the comment in `request_suspend_state`, see below |
| `suspend_path` | 2 writers, 1 handler; 44 000 states | complete, ordered unwinding; asleep only with all taken; refinement of EarlySuspend; `AttemptsEnd`, `WaitersReleased`, `RequestsHonoured` |
| `logger` | 1 writer of 2 cells in two segments, the flusher, 2 readers, ring of 8, 3 writes; 382 000 states | `IntactUnlessBroken`: what is unread is whole and in order; `NoSilentLoss`; `SleepersReturn` |
| `logger_stale_orig` | 2 writers of 1 or 2 cells in one or two segments, 1 reader | **violation** of the comment in `logger_aio_write`, see below |
| `alarm` | half-second ticks, 7 of them, an alarm of each wakeup type, one setting of the clock, forward or back; 497 000 states | `NeverSleepsPastAlarm`, `TimersArmed`, `ElapsedPreserved`, `DueAlarmsGoOff` |
| `alarm_dev` | all 5 types; 122 000 states | `AlarmKeepsAwake`, `NoAlarmLost`, `NothingLeftBehind`, `WaiterTold` |
| `fb_early_suspend` | the drawing process and 2 watchers; 336 states, the whole state space | `NoDrawingWhenOff`, `ResumeNotOverwritten`, `FbLive` |
| `ashmem` | an area of 2 or 3 pages whose size may change, scans of 1 and 2 pages; 400 000 states | `RangesSorted`, `LruExact`, `OnlyGivenUp`, `PurgeRemembered` |
| `ashmem_purge_forgotten` | the same | **violation** of the comment in `ashmem.h`, see below |
| `user_wake_lock` | 4 names that begin one another, 7 timeouts, a `long` up to 7; 10 000 states | `TreeExact`, `LocksAsAsked`, `TimeoutsKept` |

Bounds. `MaxTimeout` bounds timeouts only; time itself is unbounded because it is
relative. Two timeouts of different length and the zero timeout are what the timer
arithmetic tells apart. Two locks suffice for "one is released while another
remains"; the theorems remove the bound. Two writers are what it takes to steal a
completion; one handler on each side of the frame buffer's level covers both exits
of `late_resume`. The work queue needs no bound: a work is queued at most once.
`suspend_path` has no driver lock, because a driver that takes and releases one for
ever can keep an attempt from ending, rightly; the race of locks with the suspend is
what `wakelock` and `early_suspend` check.

*Logger*: two entries fill the ring, so that the second write already pushes readers and
head (a full ring would look empty), and after two writes a reader is behind by exactly
one lap; the third overwrites the first. A fault can come in either segment. Two readers are what it
takes for one to be left waiting when the other's release kills the task that holds the
mutex, and for two operations on the list to overlap. The writer contends for the mutex
with the flusher and with readers that open and read; the second writer, whose write
makes `orig` stale, is in `logger_stale_orig`, and the theorem is for any number of
them, and for rings that wrap inside an entry. `sign` does not reach its wrap. *Alarm*:
an alarm is due well after the system can be asleep, or earlier, or at once, depending
on how the clock was set; the devices may take any part of the time there is to
suspend, more than two seconds included. *Ashmem*: three pages are the fewest in which
a request can split a range, and a request can overlap two ranges; two sizes let a late
store change the size under ranges and requests; `MaxEmpty` bounds the ranges without
pages, of which user space can add any number. Several areas meet only on the LRU list;
the theorems are for any number of them. *UserWakeLock*: the small
widths put the boundaries of the conversion within reach; `TimeoutsKept` speaks of
timeouts that fit.

Deadlock is checked except in the two runs of Logger, where the writes are bounded and
the model may end, and in `alarm`, where time is bounded. Symmetry is used only in
`early_suspend`, which has no liveness.

Fairness. Weak fairness of `Tick` (the timer interrupt), of the timer softirq, of
the two workqueue threads (kernel threads of normal priority on a system that is
not overloaded) and of a thread whose completion has been posted. Callers and
writers owe nothing, and nothing makes the CPU wake up: `asleep` may last for ever.
In SuspendPath the fairness of the freezer's loop together with its `TIMEOUT` is
the weak fairness of `ThreadNext`, one of whose steps is `FreezeTimesOut`.
Logger: weak for a task that is in a write, in a flush or in an operation on the list;
strong for one in a read, as the mutex it waits for is free again and again and is
handed to waiters in turn. Alarm: weak for
the suspend and for `alarm_set_rtc`, once begun; strong for the interrupt of a timer
that is due, which a suspend that cancels and restarts the timer cannot put off for
ever. AlarmDev and FbEarlySuspend: weak for tasks that can run, and for the timer of
`wait_event_timeout`; a task asleep on a wait queue is up to the `wake_up` of another.
No process is assumed to call anything, nor the system to
suspend or resume.

**Finding (`fb_ready`).** `request_suspend_state` says it blocks the caller "and
wait\[s\] for fb driver late_resume() callback function is completed". With *on,
sleep, on* written in quick succession by two threads, the `late_resume` queued for
the first *on* sees the sleep request, gives up and completes `fb_drv_ready` all the
same; a writer then returns although the frame buffer is still suspended and no
sleep is requested. No safety property of the suspend machinery depends on it; the
backlight timing the comment is about does.

**Finding (`logger_stale_orig`).** `logger_aio_write` reads `orig = log->w_off` before
it takes the mutex. If another write completes before it gets the mutex and its own
copy from user space then faults, it restores an offset that is no longer its own: the
other write is undone for readers that had not got to it and, for one that had, the
log now seems to hold a whole lap of old bytes. With `orig` still right a fault leaves
the log whole: `IntactUnlessBroken`.

**Finding (`ashmem_purge_forgotten`).** "Was the mapping purged while unpinned?" is
what `ashmem.h` says `ASHMEM_PIN` returns. When a PIN splits a range and the
allocation of the upper part fails, the failure is ignored and the part is on no list:
its pages count as pinned (they cannot be purged any more), but if they were purged
before, nobody will be told. The same holds of the ranges that a failing UNPIN has
merged. `PurgeRemembered` shows that nothing is forgotten as long as allocations
succeed, and `OnlyGivenUp` that no failure makes a pinned page purgeable.

Noticed, without a run: if the last reader of a log is closed while another is being
added (`logger.c:404` against `l.390`), `list_add_tail` can link the new reader behind
the one that goes, and no walk finds it any more: its unread entries are overwritten
although no write failed, and a flush passes it by. A write or a flush whose walk stands
on a reader that is closed dies with the mutex held, and every later call on the log
waits for ever; `SleepersReturn` names this exception. If the RTC rings while the
devices behind `alarm_suspend` are being suspended, its wake lock lasts a second; when
they take more than two, which `drivers/base/power/main.c:528-543` allows (three seconds
for each, and no limit for mmc), it may be gone at the last look and the phone sleeps
past the alarm. That is `RangTooEarly`, the exception in `NeverSleepsPastAlarm`. A late
store of `ASHMEM_SET_SIZE` (`ashmem.c:621-623`) leaves unpinned ranges beyond the size
of the area. An UNPIN that overlaps a purged range makes one range of all its pages,
marked purged and not on the LRU list (`ashmem.c:530-538`), so that the pages that were
still there cannot be purged until they are pinned and unpinned again; `OnlyGivenUp`
says that they are on the area's list, not that they can be purged. The timer that `alarm_suspend` cancels at `alarm.c:375` is that
of SYSTEMTIME, and nothing starts it again before the next alarm of that type is set;
`TimersArmed` therefore leaves that queue out. If `do_settimeofday` fails,
`alarm_set_rtc` has already moved the deltas and elapsed realtime jumps, against
"set rtc while preserving elapsed realtime" (`android_alarm.h:49`);
`ElapsedPreserved` speaks of calls that succeed.

## 4. Proofs

The first part of `EarlySuspendProofs` is about WakeLock alone. It proves, for every
set of locks, every set of timeouts and every bound, `WLSpec => []P` for the four invariants of the run `wakelock`
(`WLTypeCorrect`, `SleepSafety`, `SuspendNotLost`, `TimerCovers`).

Assumptions: `LockAssumption` (the three system locks are distinct and not driver
locks; idle locks are driver locks) and `TimeoutAssumption` (timeouts are naturals
below the bound, `UnknownTimeout` positive). TLC evaluates both in every run.

The inductive invariant `WLInv` adds one conjunct to the properties:
`CommittedRespectsLocks`, the claim of `SleepRespectsLocks` already from the moment
`power_suspend_late` agrees. It is needed because `CpuOff` itself looks at nothing.
`NoLostSuspend` is not inductive without `TimerCoversTimeouts`: a timer firing
before the last timeout would find a lock, queue nothing and leave nobody to look
again. Lemmas: `WalkResult` (what the value of `has_wake_lock_locked` says about
the list), `ExpireResult`, `QueueWork`, `Rearm` (the common tail of
`wake_lock_timeout` and `wake_unlock` provides for suspend) and `Look` (a check
changes nothing that prevents suspend); then one lemma per operation.

The rest of the module does the same for the composed system, for every handler list,
every assignment of levels, every finite set of writers: the five invariants of the
run `early_suspend`, and the two main wake lock claims again (`ComposedSleepSafety`,
`ComposedSuspendNotLost`), now with early suspend and the sync work as callers.
Further assumption: `HandlerAssumption` (levels are naturals, the writers finitely
many).

Its inductive invariant `ESInv` has three groups. (1) `WLInv` with `QueueInv` (a work
is queued once) and `BusyInv` (the thread is busy exactly while it is in a work of
early suspend): early suspend touches the locks only through `wake_lock` and
`wake_unlock`, so the lemmas of the first part carry over. (2) `WalkInv`, what holds
half way through a walk – handlers before the position are down, or those behind it
up – and `ListInv`, that no handler is on the list twice; without them
`HandlersFollowState` says nothing while a walk is on and cannot be regained at its
end. (3) `CommittedUnlocked`, that `main_wake_lock` stays free from the power device's
look on, which with `MainLockGuardsHandlers` gives `SleepsOnlyWhenSuspended`; and
`CompletedInv`, that `completed` is set only inside a `late_resume`, for the count of
completions. TLC has checked `ESInv` on the instance of the run `early_suspend`.

The same module proves the refinement that the run `early_suspend` checks,
`ESSafeSpec => WL!WLSafeSpec`. Under the mapping the queue holds the suspend work or
nothing, and a thread busy with another work is idle. The lemmas `Same...` show that
each operation is the same operation of WakeLock under the mapping; `StepRefines`
then goes through the actions, using `QueueInv` (once dequeued, the suspend work is
no longer pending) and `BusyInv` (the end of a work is no step of `suspend()`).

`SuspendPathProofs` proves the four invariants of the run `suspend_path` and
`SPSpec => ESSafeSpec`, for every set of threads, handlers and locks; with the
refinement above this makes the whole suspend path an implementation of WakeLock
(`SuspendPathImplementsWakeLock`). The properties speak of the ends of `pm_suspend`;
the invariant `SPInv` says what holds at each point in it: how many things are taken
(`TakenInv`, from the table `Depth`: two numbers where a label is reached by
fall-through and by a failure that had taken less), where the wake locks believe the
thread to be (`PhaseInv`), who is frozen (`FrozenInv`) and what is requested
(`RequestedInv`), together with `ESInv`. `FrozenInv` is what the refinement needs: a
frozen thread is not inside `request_suspend_state`, so the guard of `SuspendStep` that
EarlySuspend only assumes holds when the power device is asked.
`AsleepWithAllTaken` needs `ESInv`: that sleep is still requested while the CPU goes
off follows from `main_wake_lock` being free.

`AlarmProofs` proves `TimersArmed`, `ElapsedPreserved` and `NeverSleepsPastAlarm` for
every length of a second, boot time, set of alarms and set of times.
Assumption: `AlarmAssumption` (types and naturals); how long the devices take is not
bounded, the exception `RangTooEarly` is in the property. `AlarmInv` adds to them: `StageInv`, which stage allows what;
`ElapsedInv`, that while the queues are stopped elapsed realtime is already tied to the
time that is going to be set; `StaleInv`, that in `alarm_suspend` the expiry of a timer
that was cancelled or has fired is still the one to give to the RTC; and `SleepInv`,
that from `alarm_suspend` on the RTC has either still to ring, before every alarm and
more than a second later, or has rung, and its wake lock is held until more than two
seconds after `alarm_suspend`. The lemmas on seconds (`WholeSeconds`, `RoundedDown`, `TwoSecondsAhead`) say
what the rounding of the RTC costs: it rings early, never late.

`AlarmDevProofs`: the three invariants of the run `alarm_dev`, for every set of types
(`DevAssumption`: among the five there are). None is inductive alone; `DevInv` is their
conjunction with `OwnerInv` (who may wait, own and be told) and `ReleaseInv` (what is
left of the alarms between two steps of `alarm_release`, when timers fire).
`FbEarlySuspendProofs`: `NoDrawingWhenOff` and `ResumeNotOverwritten` for every set of
watchers (`WatcherAssumption`: they are not the drawing process nor the work queue).
`FbInv` adds `AnswerInv`, that as long as the answer stands the process which gave it
is in its wait for the resume, and `BelievedInv`.

`UserWakeLockProofs`: the three invariants of the run `user_wake_lock`, for every set
of names, every width of the types and every length of a jiffy. Assumption
`UwlAssumption`: names are strings without NUL, timeouts are `u64`s, and the nanoseconds
of a `long` of jiffies fit into a `u64` (2^31 * 10^9 < 2^64). `UwlInv` says that the
tree is sorted in the order `Before` of strings, and that every node is as its name was
last asked for. The argument: `strncmpResult` and `DiffOrder` show that the code's
comparison, with its correction for a name that begins another, decides exactly that
order, and `BeforeTransitive` that it is one; so in a sorted tree every name has one
place (`PlaceExists`), and every walk, through whatever shape, ends there
(`LookupResult`). The walk is a recursive function: that it exists is shown by giving
its values (`End`), and that it has no others by taking the smallest subtree on which it
would. Of the library's induction only the minimum principle (`WFMin`) is needed for
that, which has no operator as a parameter; `LeastNumber` is its form for sets of
numbers.

`AshmemProofs`: the four invariants of the run `ashmem`, for any number of areas of any
size (`AshmemAssumption`: sizes and bounds are naturals). They are proved of every step
of a call, from one invariant, `AshInv`:

* `AreaInv` and `ListInv`: only an area with its file has ranges, and a list is good
  (`GoodList`): below `MaxSize` (not below the size, which may be stored late), sorted, disjoint, and no two of its ranges the same.
  Without the order the walks, which end at the first range before the request, could
  miss an overlap (`ReachedAll`, `OverlapHit`), and `range_alloc` would not find room
  where the walk ended (`InsertionRoom`); without the last part an entry of the LRU list
  could stand for two ranges, as ranges without pages may overlap;
* `LruInv`: the LRU list holds the entries of the ranges that are not purged, once each,
  and `lru_count` is the sum of their pages;
* `CallInv`: the request of a walk is below `MaxSize`, and while `ashmem_unpin` makes it
  grow, it grows by pages given up before: otherwise the range it adds at the end could
  hold a page that user space is using;
* `HistInv` and `PageInv`: the pages on a list were given up, and, if no allocation has
  failed, a page given up is on the list or the call under way has taken it off and will
  put it back (`Waits`), and a page purged is in a range marked purged or the call will
  report it (`Reports`). `OnlyGivenUp` and `PurgeRemembered` are what this says between
  two calls.

Below them are lemmas about what `RemoveAt`, `InsertAt` and `ReplaceAt` do to a list, to
its pages (`Has`, `HasPurged`) and to its entries (`EntriesOf`), one lemma for each of
`range_del`, `range_shrink`, `range_alloc`, the split and the purge (`DelStep`,
`ShrinkStep`, `AllocStep`, `SplitStep`, `PurgeStep`), and one for each action.
`TotalSize` sums over a set in an order that is not fixed; that the order does not
matter (`TotalSizeRemove`) is shown by taking a smallest set for which it would.

`LoggerProofs`: `IntactUnlessBroken`, for a ring of any size, any writers and readers, and
whatever they write in however many segments. Assumption `LoggerAssumption`: the tasks
are distinct, an entry is at most half the ring (4 KB of 32 or more), its length fits into the two cells of the
header that hold it, and a `long` counts more than the ring and a whole number of laps.
The property is about the moments when the mutex is free; `LogInv` says what a write
has done so far, and `ListInv` that every open reader is on the list, that a reader being
added holds the mutex and stands at the head, and who holds the mutex in a flush:

* `LogTyped`, `WriterTyped` and `WriterInv`: the mutex is held by the writer that is
  between taking it and giving it back, and the segments left make up what is missing of
  `header.len`. A write that ended short would leave an entry whose length lies;
* `RingInv`, unless a fault has restored a stale `w_off`: behind the end of the log there
  is a window of whole, adjoining entries, the most recent writes, and the head and every
  reader on the list stand at the start of one. It has three forms: `FreeAt` with no write
  on its way; `WalkAt` during the walk of `fix_up_readers`, when those already passed also have room
  in front of them for the entry; `PayloadAt` when all do, and the window has shrunk to
  what the entry does not touch (`Narrow`), so that no byte stored hurts it (`WindowKept`)
  and the entry, once complete, is a part of it (`Grown`);
* `SeenInv`: an offset at the end of the log belongs to somebody who has got or flushed
  everything, unless a write has faulted. A full ring would look the same as an empty one;
  that the two are not confused follows from the room that the walk makes.

The window is described by sums: `c[i]` is the number of cells of the first `i` writes,
distances are differences of such sums and add up without a modulus, and only `Back`
turns a distance into an offset. `get_next_entry` and `SumOf` are recursive functions;
that they exist, and that the walk ends at the first start of an entry behind the
room needed (`NextEntry`, `FixUpResult`) or that the sum is what is expected
(`SumOfResult`), is shown, as for the tree, with a least counterexample.

TLC has checked each of these invariants on the instance of the module's run before it
was proved (`LogInv` with the window's sums taken from the entries of the run).

Only model-checked:

* all liveness (`SuspendRetried`, `AttemptsEnd`, `WaitersReleased`, `RequestsHonoured`,
  `SleepersReturn`, `DueAlarmsGoOff`, `WaiterTold`, `FbLive`): fairness and ENABLED are
  beyond the prover;
* `NoSilentLoss` of Logger: it is true only within the bounds of the run. `is_overflow`
  compares two counts of bytes in a `long`, and the difference wraps for a reader that
  does not read while the writers go once around the `long`; the warning is then lost.
  A proof would have to bound the writes by the width, which the code does not.

## 5. Not modelled

Wake lock statistics and `/proc/wakelocks`; absolute jiffies and their wrap;
`pm_test` hooks; hibernation; console early suspend (not configured); the device
and platform callbacks themselves; the power-on alarm and the coming and going of RTC
devices; log timestamps and `poll`; names, protection masks, reads and the `/proc`
list of shared memory areas, and the recursion of an allocation under `ashmem_mutex`
into the shrinker; binder, the low memory killer and the smaller Android drivers; the
rest of Linux and the vendor tree. `PROJECT.json` gives the reason for each.

## 6. Plan

Done: the modules of the suspend machinery and of the drivers with their runs; proofs
of all safety properties of WakeLock, EarlySuspend, SuspendPath, Alarm, AlarmDev,
FbEarlySuspend, UserWakeLock and Ashmem, of the Logger's `IntactUnlessBroken`, and of the
refinements SuspendPath → EarlySuspend → WakeLock. Every invariant that a run checks is
stated by a theorem.

Next, in this order:

1. `WakeLockStat` with `PREVENTING_SUSPEND`: time is attributed once and only while
   `main_wake_lock` is free; list order with absolute, wrapping jiffies, shown to
   implement WakeLock.
2. AlarmDev composed with Alarm, and Alarm shown to keep what AlarmDev assumes.
3. Pieces of binder: node and reference counts of one process.
