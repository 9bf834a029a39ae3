---------------------------- MODULE EarlySuspend ----------------------------
(***************************************************************************)
(* Early suspend and late resume (kernel/power/earlysuspend.c) on top of   *)
(* the wake locks.  A write to /sys/power/state calls                      *)
(* request_suspend_state; the thread of suspend_work_queue, the same that  *)
(* runs the suspend work, calls the registered handlers and gives up       *)
(* main_wake_lock, or takes the handlers back in reverse order.            *)
(*                                                                         *)
(* Each step is what runs between two points where another thread can get  *)
(* in: a section under state_lock, or one handler's callback.  forbid_id,  *)
(* which nothing in the kernel sets, is 0 and skips no handler.            *)
(***************************************************************************)
EXTENDS WakeLock

CONSTANTS
    Handlers,    \* struct early_suspend of the drivers
    Level,       \* their levels
    SuspendCb,   \* the ones whose suspend callback is not NULL
    ResumeCb,    \* the ones whose resume callback is not NULL
    Users        \* threads that write /sys/power/state

EARLY_SUSPEND_LEVEL_DISABLE_FB == 150

ASSUME HandlerAssumption ==
    /\ Level \in [Handlers -> Nat]
    /\ SuspendCb \subseteq Handlers
    /\ ResumeCb \subseteq Handlers
    /\ IsFiniteSet(Users)

VARIABLES
    suspend_requested,      \* state & SUSPEND_REQUESTED
    suspended,              \* state & SUSPENDED
    requested_suspend_state,\* PM_SUSPEND_ON or PM_SUSPEND_MEM
    early_suspend_handlers, \* the list of registered handlers
    down,                   \* handlers whose device is suspended
    es_pc,                  \* where the running early_suspend/late_resume is
    pos,                    \* the list position it calls next
    completed,              \* late_resume's local of that name
    fb_drv_ready,           \* completions not yet consumed
    request,                \* per thread: is it blocked in wait_for_completion
    sync_work               \* early_sys_sync_work: pending and/or running

reqVars  == <<suspend_requested, requested_suspend_state>>
devVars  == <<early_suspend_handlers, down>>
walkVars == <<es_pc, pos, completed>>
waitVars == <<fb_drv_ready, request>>
lockVars == <<flags, expires, expire_timer, expire_softirq, event_seen, taken_late>>

esVars == <<reqVars, suspended, devVars, walkVars, waitVars, sync_work>>

vars == <<wlVars, esVars>>

-----------------------------------------------------------------------------
(* State.                                                                  *)

EsStates == {"none", "early", "suspending", "early_end",
             "late", "resuming", "late_end"}

SyncStates == {"idle", "pending", "running", "running_pending"}

ESTypeOK ==
    /\ WLTypeOK
    /\ suspend_requested \in BOOLEAN
    /\ suspended \in BOOLEAN
    /\ requested_suspend_state \in {"on", "mem"}
    /\ early_suspend_handlers \in Seq(Handlers)
    /\ down \in SUBSET Handlers
    /\ es_pc \in EsStates
    /\ pos \in Nat
    /\ completed \in BOOLEAN
    /\ fb_drv_ready \in Nat
    /\ request \in [Users -> {"idle", "waiting"}]
    /\ sync_work \in SyncStates

ESInit ==
    /\ WLInit
    /\ suspend_requested = FALSE
    /\ suspended = FALSE
    /\ requested_suspend_state = "mem"
    /\ early_suspend_handlers = <<>>
    /\ down = {}
    /\ es_pc = "none"
    /\ pos = 0
    /\ completed = FALSE
    /\ fb_drv_ready = 0
    /\ request = [u \in Users |-> "idle"]
    /\ sync_work = "idle"

Registered == {early_suspend_handlers[i] : i \in 1..Len(early_suspend_handlers)}

(* The thread holds early_suspend_lock while it walks the list.            *)
MutexFree == es_pc \notin {"suspending", "resuming", "late_end"}

-----------------------------------------------------------------------------
(* Registration, by drivers that come and go.                              *)

(* The handler goes before the first one of a higher level.                *)
InsertByLevel(list, h) ==
    LET n == Cardinality({i \in 1..Len(list) : Level[list[i]] <= Level[h]})
    IN  [i \in 1..(Len(list) + 1) |->
            IF i <= n THEN list[i] ELSE IF i = n + 1 THEN h ELSE list[i - 1]]

(* Every handler is on the list once.                                      *)
list_del(list, h) ==
    LET n == CHOOSE i \in 1..Len(list) : list[i] = h
    IN  [i \in 1..(Len(list) - 1) |-> IF i < n THEN list[i] ELSE list[i + 1]]

(* Mutant: a handler registered while SUSPENDED is not called.             *)
register_early_suspend_silent(h) ==
    /\ Running
    /\ MutexFree
    /\ h \notin Registered
    /\ early_suspend_handlers' = InsertByLevel(early_suspend_handlers, h)
    /\ down' = down \ {h}
    /\ UNCHANGED <<wlVars, reqVars, suspended, walkVars, waitVars, sync_work>>

register_early_suspend(h) ==
    /\ Running
    /\ MutexFree
    /\ h \notin Registered
    /\ early_suspend_handlers' = InsertByLevel(early_suspend_handlers, h)
    /\ down' = IF suspended /\ h \in SuspendCb THEN down \cup {h} ELSE down \ {h}
    /\ UNCHANGED <<wlVars, reqVars, suspended, walkVars, waitVars, sync_work>>

unregister_early_suspend(h) ==
    /\ Running
    /\ MutexFree
    /\ h \in Registered
    /\ early_suspend_handlers' = list_del(early_suspend_handlers, h)
    /\ down' = down \ {h}
    /\ UNCHANGED <<wlVars, reqVars, suspended, walkVars, waitVars, sync_work>>

-----------------------------------------------------------------------------
(* request_suspend_state, the section under state_lock.  pm_suspend has    *)
(* frozen the threads of user space before it asks the power device, and   *)
(* thaws them after the wakeup; a thread blocked in the kernel makes the   *)
(* freezing fail.                                                          *)

Waiting == {u \in Users : request[u] = "waiting"}

Frozen == Waiting = {}

UserRuns(u) ==
    /\ worker \notin {"committed", "asleep"}
    /\ request[u] = "idle"

RequestSleep(u) ==
    /\ UserRuns(u)
    /\ ~suspend_requested
    /\ suspend_requested' = TRUE
    /\ requested_suspend_state' = "mem"
    /\ sync_work' = IF sync_work \in {"running", "running_pending"}
                     THEN "running_pending" ELSE "pending"
    /\ work_queue' = queue_work("early_suspend")
    /\ UNCHANGED <<lockVars, worker, suspended, devVars, walkVars, waitVars>>

RequestOn(u) ==
    /\ UserRuns(u)
    /\ suspend_requested
    /\ suspend_requested' = FALSE
    /\ requested_suspend_state' = "on"
    /\ wake_lock(main_wake_lock)
    /\ work_queue' = queue_work("late_resume")
    /\ request' = IF Queued("late_resume") THEN request
                                           ELSE [request EXCEPT ![u] = "waiting"]
    /\ UNCHANGED <<expire_softirq, worker, suspended, devVars, walkVars,
                   fb_drv_ready, sync_work>>

(* A request for what is already requested only writes the state down.     *)
RequestAgain(u) ==
    /\ UserRuns(u)
    /\ requested_suspend_state' = IF suspend_requested THEN "mem" ELSE "on"
    /\ UNCHANGED <<wlVars, suspend_requested, suspended, devVars, walkVars,
                   waitVars, sync_work>>

(* Mutant: the wait consumes a completion without checking for one.        *)
RequestReturnsAtOnce(u) ==
    /\ Running
    /\ request[u] = "waiting"
    /\ fb_drv_ready' = fb_drv_ready - 1
    /\ request' = [request EXCEPT ![u] = "idle"]
    /\ UNCHANGED <<wlVars, reqVars, suspended, devVars, walkVars, sync_work>>

(* wait_for_completion(&fb_drv_ready) returns.                             *)
RequestReturns(u) ==
    /\ Running
    /\ request[u] = "waiting"
    /\ fb_drv_ready > 0
    /\ fb_drv_ready' = fb_drv_ready - 1
    /\ request' = [request EXCEPT ![u] = "idle"]
    /\ UNCHANGED <<wlVars, reqVars, suspended, devVars, walkVars, sync_work>>

-----------------------------------------------------------------------------
(* early_sys_sync on its own work queue, whose thread is not freezable.    *)

SyncStart ==
    /\ Running
    /\ sync_work = "pending"
    /\ sync_work' = "running"
    /\ wake_lock(sys_sync_wake_lock)
    /\ UNCHANGED <<expire_softirq, work_queue, worker, reqVars, suspended,
                   devVars, walkVars, waitVars>>

SyncEnd ==
    /\ Running
    /\ sync_work \in {"running", "running_pending"}
    /\ sync_work' = IF sync_work = "running" THEN "idle" ELSE "pending"
    /\ wake_unlock(sys_sync_wake_lock)
    /\ UNCHANGED <<expire_softirq, worker, reqVars, suspended, devVars,
                   walkVars, waitVars>>

-----------------------------------------------------------------------------
(* The works early_suspend and late_resume.                                *)

StartWork(w, pc) ==
    /\ worker = "idle"
    /\ work_queue # <<>>
    /\ Head(work_queue) = w
    /\ work_queue' = Tail(work_queue)
    /\ worker' = "busy"
    /\ es_pc' = pc
    /\ UNCHANGED <<lockVars, reqVars, suspended, devVars, pos, completed,
                   waitVars, sync_work>>

(* Mutant: an aborted early_suspend returns without looking at the state   *)
(* again.                                                                  *)
EarlyBeginReturns ==
    /\ es_pc = "early"
    /\ IF suspend_requested /\ ~suspended
       THEN suspended' = TRUE /\ es_pc' = "suspending" /\ pos' = 1 /\ UNCHANGED worker
       ELSE es_pc' = "none" /\ worker' = "idle" /\ UNCHANGED <<suspended, pos>>
    /\ UNCHANGED <<lockVars, work_queue, reqVars, devVars, completed, waitVars,
                   sync_work>>

EarlyBegin ==
    /\ es_pc = "early"
    /\ IF suspend_requested /\ ~suspended
       THEN suspended' = TRUE /\ es_pc' = "suspending" /\ pos' = 1
       ELSE es_pc' = "early_end" /\ UNCHANGED <<suspended, pos>>
    /\ UNCHANGED <<wlVars, reqVars, devVars, completed, waitVars, sync_work>>

(* Mutant: the walk ends one handler early.                                *)
EarlyHandlerMissesLast ==
    /\ es_pc = "suspending"
    /\ IF pos < Len(early_suspend_handlers)
       THEN /\ down' = down \cup ({early_suspend_handlers[pos]} \cap SuspendCb)
            /\ pos' = pos + 1
            /\ UNCHANGED es_pc
       ELSE /\ es_pc' = "early_end"
            /\ pos' = 0
            /\ UNCHANGED down
    /\ UNCHANGED <<wlVars, reqVars, suspended, early_suspend_handlers,
                   completed, waitVars, sync_work>>

EarlyHandler ==
    /\ es_pc = "suspending"
    /\ IF pos <= Len(early_suspend_handlers)
       THEN /\ down' = down \cup ({early_suspend_handlers[pos]} \cap SuspendCb)
            /\ pos' = pos + 1
            /\ UNCHANGED es_pc
       ELSE /\ es_pc' = "early_end"
            /\ pos' = 0
            /\ UNCHANGED down
    /\ UNCHANGED <<wlVars, reqVars, suspended, early_suspend_handlers,
                   completed, waitVars, sync_work>>

(* Mutant: the end of early_suspend does not look for SUSPEND_REQUESTED.   *)
EarlyEndUnasked ==
    /\ es_pc = "early_end"
    /\ es_pc' = "none"
    /\ worker' = "idle"
    /\ IF suspended
       THEN wake_unlock(main_wake_lock) /\ UNCHANGED expire_softirq
       ELSE UNCHANGED <<lockVars, work_queue>>
    /\ UNCHANGED <<reqVars, suspended, devVars, pos, completed, waitVars,
                   sync_work>>

(* Mutant: main_wake_lock is marked inactive behind wake_unlock's back.    *)
EarlyEndNoQueue ==
    /\ es_pc = "early_end"
    /\ es_pc' = "none"
    /\ worker' = "idle"
    /\ flags' = IF suspend_requested /\ suspended
                THEN [flags EXCEPT ![main_wake_lock] = "inactive"] ELSE flags
    /\ UNCHANGED <<expires, expire_timer, expire_softirq, event_seen, taken_late,
                   work_queue, reqVars, suspended, devVars, pos, completed,
                   waitVars, sync_work>>

EarlyEnd ==
    /\ es_pc = "early_end"
    /\ es_pc' = "none"
    /\ worker' = "idle"
    /\ IF suspend_requested /\ suspended
       THEN wake_unlock(main_wake_lock) /\ UNCHANGED expire_softirq
       ELSE UNCHANGED <<lockVars, work_queue>>
    /\ UNCHANGED <<reqVars, suspended, devVars, pos, completed, waitVars,
                   sync_work>>

LateBegin ==
    /\ es_pc = "late"
    /\ IF suspended /\ ~suspend_requested
       THEN /\ suspended' = FALSE
            /\ es_pc' = "resuming"
            /\ pos' = Len(early_suspend_handlers)
       ELSE es_pc' = "late_end" /\ UNCHANGED <<suspended, pos>>
    /\ UNCHANGED <<wlVars, reqVars, devVars, completed, waitVars, sync_work>>

(* The waiter is released when the handlers at or above the frame buffer's *)
(* level have been called.                                                 *)
LateHandler ==
    /\ es_pc = "resuming"
    /\ IF pos > 0
       THEN LET h == early_suspend_handlers[pos]
                ready == ~completed /\ Level[h] < EARLY_SUSPEND_LEVEL_DISABLE_FB
            IN  /\ completed' = (completed \/ ready)
                /\ fb_drv_ready' = IF ready THEN fb_drv_ready + 1 ELSE fb_drv_ready
                /\ down' = down \ ({h} \cap ResumeCb)
                /\ pos' = pos - 1
                /\ UNCHANGED es_pc
       ELSE /\ es_pc' = "late_end"
            /\ UNCHANGED <<completed, fb_drv_ready, down, pos>>
    /\ UNCHANGED <<wlVars, reqVars, suspended, early_suspend_handlers, request,
                   sync_work>>

(* Mutant: complete() is called at the end even if it has been called.     *)
LateEndCompletesTwice ==
    /\ es_pc = "late_end"
    /\ es_pc' = "none"
    /\ worker' = "idle"
    /\ fb_drv_ready' = fb_drv_ready + 1
    /\ completed' = FALSE
    /\ UNCHANGED <<lockVars, work_queue, reqVars, suspended, devVars, pos,
                   request, sync_work>>

(* Mutant: a late_resume that called no handler below the frame buffer's   *)
(* level, or none at all, forgets complete().                              *)
LateEndForgetsWaiter ==
    /\ es_pc = "late_end"
    /\ es_pc' = "none"
    /\ worker' = "idle"
    /\ completed' = FALSE
    /\ UNCHANGED <<lockVars, work_queue, reqVars, suspended, devVars, pos,
                   waitVars, sync_work>>

LateEnd ==
    /\ es_pc = "late_end"
    /\ es_pc' = "none"
    /\ worker' = "idle"
    /\ fb_drv_ready' = IF completed THEN fb_drv_ready ELSE fb_drv_ready + 1
    /\ completed' = FALSE
    /\ UNCHANGED <<lockVars, work_queue, reqVars, suspended, devVars, pos,
                   request, sync_work>>

-----------------------------------------------------------------------------
(* The whole of it.                                                        *)

HandlerNext ==
    \/ StartWork("early_suspend", "early")
    \/ StartWork("late_resume", "late")
    \/ EarlyBegin
    \/ EarlyHandler
    \/ EarlyEnd
    \/ LateBegin
    \/ LateHandler
    \/ LateEnd

RegistrationNext ==
    \E h \in Handlers : register_early_suspend(h) \/ unregister_early_suspend(h)

RequestNext ==
    \E u \in Users : RequestSleep(u) \/ RequestOn(u) \/ RequestAgain(u)

SyncNext == SyncStart \/ SyncEnd

SuspendStep ==
    /\ SuspendNext
    /\ worker' = "committed" => Frozen
    /\ UNCHANGED esVars

ESNext ==
    \/ HandlerNext
    \/ RegistrationNext
    \/ RequestNext
    \/ \E u \in Users : RequestReturns(u)
    \/ SyncNext
    \/ DriverNext /\ UNCHANGED esVars
    \/ SuspendStep
    \/ TimerNext /\ UNCHANGED esVars
    \/ Tick /\ UNCHANGED esVars

(* As for the wake locks, and: both kernel threads run, and a thread whose *)
(* completion has come gets to return.                                     *)
ESWorkerStep == HandlerNext \/ (SuspendStep /\ Running)

ESSafeSpec == ESInit /\ [][ESNext]_vars

ESSpec ==
    /\ ESSafeSpec
    /\ WF_vars(Tick /\ UNCHANGED esVars)
    /\ WF_vars(TimerNext /\ UNCHANGED esVars)
    /\ WF_vars(ESWorkerStep)
    /\ WF_vars(SyncNext)
    /\ \A u \in Users : WF_vars(RequestReturns(u))

-----------------------------------------------------------------------------
(* Properties.                                                             *)

(* main_wake_lock is given up only with a sleep request standing and every *)
(* registered device suspended.  Its three writers are                     *)
(* request_suspend_state, the end of early_suspend and registration.       *)
MainLockGuardsHandlers ==
    flags[main_wake_lock] # "held" =>
        /\ suspend_requested
        /\ suspended
        /\ Registered \cap SuspendCb \subseteq down

(* Between two walks of the list, exactly the devices that a suspend       *)
(* callback suspends are down if SUSPENDED is set, and none that a resume  *)
(* callback resumes if it is not: no handler is missed by a registration   *)
(* or by requests that overtake each other.                                *)
HandlersFollowState ==
    es_pc \notin {"suspending", "resuming"} =>
        IF suspended THEN Registered \cap SuspendCb \subseteq down
                     ELSE Registered \cap ResumeCb \cap down = {}

(* Every thread blocked in request_suspend_state is owed exactly one       *)
(* completion: one not yet consumed, or one that a late_resume which is    *)
(* queued or running will still post.  None is lost and none is left over. *)
LateOwes ==
    (IF Queued("late_resume") THEN 1 ELSE 0)
      + (IF es_pc \in {"late", "resuming", "late_end"} /\ ~completed THEN 1 ELSE 0)

CompletionsBalance == Cardinality(Waiting) = fb_drv_ready + LateOwes

(* The CPU is never off unless the last request was for sleep, nor with a  *)
(* device that early suspend should have put down still up.                *)
SleepsOnlyWhenSuspended ==
    worker = "asleep" =>
        /\ suspend_requested
        /\ Registered \cap SuspendCb \subseteq down

(* Once the requests stop changing their mind, every thread blocked in     *)
(* request_suspend_state gets out, whether late_resume ran its handlers or *)
(* gave up.  (While they go on, a newcomer can consume the completion      *)
(* posted for an older waiter, and again the next one.)                    *)
WaitersReleased ==
    (<>[]suspend_requested \/ <>[]~suspend_requested) => <>[](Waiting = {})

(* The last request wins: a sleep request that stands makes early suspend  *)
(* give up main_wake_lock for good, one to wake brings every device back.  *)
RequestsHonoured ==
    /\ <>[]suspend_requested => <>[](flags[main_wake_lock] # "held")
    /\ <>[]~suspend_requested => <>[](~suspended /\ Registered \cap ResumeCb \cap down = {})

(* What WakeLock says holds with early suspend and the file system sync as *)
(* the callers of its system locks: the thread that runs their works looks *)
(* idle to it, and the works themselves are not on its queue.              *)
WL == INSTANCE WakeLock WITH
          work_queue <- IF Queued("suspend") THEN <<"suspend">> ELSE <<>>,
          worker     <- IF worker = "busy" THEN "idle" ELSE worker

ImplementsWakeLock == WL!WLSafeSpec

(* "block the thread and wait for fb driver late_resume() callback         *)
(* function is completed" (earlysuspend.c, in request_suspend_state): a    *)
(* blocked thread returns only when the devices at or above the frame      *)
(* buffer's level are up, unless another thread has asked for sleep again. *)
FbUp == \A h \in Registered \cap ResumeCb :
            Level[h] >= EARLY_SUSPEND_LEVEL_DISABLE_FB => h \notin down

ReturnsWithFbUp ==
    [][\A u \in Users :
          RequestReturns(u) => FbUp \/ suspend_requested]_vars

=============================================================================
