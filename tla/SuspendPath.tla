----------------------------- MODULE SuspendPath -----------------------------
(***************************************************************************)
(* pm_suspend (kernel/power/suspend.c) with the freezer                    *)
(* (kernel/power/process.c), called by the suspend work of WakeLock, in    *)
(* the system of EarlySuspend.  On its way down it takes one thing after   *)
(* the other away from the running system; any step can fail and jumps to  *)
(* the label that gives back what has been taken so far.                   *)
(*                                                                         *)
(* Platform callbacks, notifiers and device callbacks are external: each   *)
(* may succeed or fail.  With interrupts off nothing else runs, so the     *)
(* section from arch_suspend_disable_irqs to arch_suspend_enable_irqs is   *)
(* the step into sleep, and the step out of it.                            *)
(***************************************************************************)
EXTENDS EarlySuspend

VARIABLES
    pm_pc,     \* the next thing pm_suspend does, "none" if it does not run
    taken,     \* what it has taken away and not yet given back
    frozen     \* threads of user space in the refrigerator

pmVars == <<pm_pc, taken, frozen>>

spVars == <<vars, pmVars>>

-----------------------------------------------------------------------------
(* The way down.  At each point: what success takes, where it leads, what  *)
(* a failing step has already taken, and the label the failure jumps to.   *)

Stage(take, next, spoil, label) ==
    [take |-> take, next |-> next, spoil |-> spoil, label |-> label]

Down ==
    [ enter_state  |-> Stage({"pm_mutex"}, "notify", {}, "none"),
      notify       |-> Stage({"notified"}, "helpers", {"notified"}, "post"),
      helpers      |-> Stage({"helpers"}, "freeze_user", {}, "post"),
      begin        |-> Stage({"begun"}, "devices", {}, "close"),
      devices      |-> Stage({"console", "gfp", "devices"}, "prepare",
                             {"console", "gfp"}, "resume_devices"),
      prepare      |-> Stage({"prepared"}, "noirq", {}, "resume_devices"),
      prepare_late |-> Stage({"prepared_late"}, "cpus", {}, "power_up"),
      cpus         |-> Stage({"cpus"}, "enter", {}, "enable_cpus") ]

(* The labels, in the order they fall through.                             *)
Label(give, next) == [give |-> give, next |-> next]

Up ==
    [ enable_cpus     |-> Label({"cpus"}, "platform_wake"),
      platform_wake   |-> Label({"prepared_late"}, "power_up"),
      power_up        |-> Label({"noirq"}, "platform_finish"),
      platform_finish |-> Label({"prepared"}, "resume_devices"),
      resume_devices  |-> Label({"devices", "gfp", "console"}, "close"),
      close           |-> Label({"begun"}, "thaw"),
      thaw            |-> Label({"oom_killer", "helpers"}, "post"),
      post            |-> Label({"notified"}, "unlock"),
      unlock          |-> Label({"pm_mutex"}, "none") ]

Freezing == {"freeze_user", "freeze_kernel"}

PmStates == DOMAIN Down \cup DOMAIN Up \cup Freezing
              \cup {"none", "noirq", "noirq_rest", "enter", "asleep"}

(* The order in which things are taken.                                    *)
Order == <<"pm_mutex", "notified", "helpers", "oom_killer", "begun", "console",
           "gfp", "devices", "prepared", "noirq", "prepared_late", "cpus">>

Things == {Order[i] : i \in 1..Len(Order)}

SPTypeOK ==
    /\ ESTypeOK
    /\ pm_pc \in PmStates
    /\ taken \in SUBSET Things
    /\ frozen \in SUBSET Users

SPInit == ESInit /\ pm_pc = "none" /\ taken = {} /\ frozen = {}

-----------------------------------------------------------------------------
(* pm_suspend called by suspend().  The requested state is read without    *)
(* state_lock, after the check for wake locks.                             *)

CallPmSuspend ==
    /\ SuspendEntry
    /\ pm_pc' = "enter_state"
    /\ UNCHANGED <<esVars, taken, frozen>>

Fail(label) ==
    /\ SuspendFails
    /\ pm_pc' = label
    /\ UNCHANGED esVars

StageSucceeds ==
    /\ pm_pc \in DOMAIN Down
    /\ pm_pc = "enter_state" => requested_suspend_state # "on"
    /\ taken' = taken \cup Down[pm_pc].take
    /\ pm_pc' = Down[pm_pc].next
    /\ UNCHANGED <<vars, frozen>>

(* Mutant: a failing suspend_ops->prepare jumps past the devices.          *)
StageFailsPastDevices ==
    /\ pm_pc \in DOMAIN Down
    /\ taken' = taken \cup Down[pm_pc].spoil
    /\ Fail(IF pm_pc = "prepare" THEN "close" ELSE Down[pm_pc].label)
    /\ UNCHANGED frozen

(* At enter_state this is -EINVAL, -ENODEV or -EBUSY.                      *)
StageFails ==
    /\ pm_pc \in DOMAIN Down
    /\ taken' = taken \cup Down[pm_pc].spoil
    /\ Fail(Down[pm_pc].label)
    /\ UNCHANGED frozen

-----------------------------------------------------------------------------
(* try_to_freeze_tasks, first for user space and then for kernel threads,  *)
(* of which only the result matters.                                       *)

(* Mutant: freezeable() lets the calling thread through.                   *)
FreezeTaskAndSelf(u) ==
    /\ pm_pc = "freeze_user"
    /\ u \notin frozen
    /\ request[u] = "idle"
    /\ frozen' = frozen \cup {u, "current"}
    /\ UNCHANGED <<vars, pm_pc, taken>>

(* A thread reaches the refrigerator on its way back to user space.        *)
FreezeTask(u) ==
    /\ pm_pc = "freeze_user"
    /\ u \notin frozen
    /\ request[u] = "idle"
    /\ frozen' = frozen \cup {u}
    /\ UNCHANGED <<vars, pm_pc, taken>>

Todo == pm_pc = "freeze_user" => frozen # Users

(* A lock ends it at once; without one it goes on for TIMEOUT.             *)
FreezeLook ==
    /\ pm_pc \in Freezing
    /\ Todo
    /\ FreezerLooks
    /\ pm_pc' = IF worker' = "returned" THEN "thaw" ELSE pm_pc
    /\ UNCHANGED <<esVars, taken, frozen>>

(* Mutant: the freezer's loop has no end_time.                             *)
FreezeForever == FALSE

FreezeTimesOut ==
    /\ pm_pc \in Freezing
    /\ Todo
    /\ Fail("thaw")
    /\ UNCHANGED <<taken, frozen>>

(* Mutant: the first round does not wait for the tasks it marked.          *)
FreezeUserHasty ==
    /\ pm_pc = "freeze_user"
    /\ pm_pc' = "freeze_kernel"
    /\ UNCHANGED <<vars, taken, frozen>>

FreezeUserDone ==
    /\ pm_pc = "freeze_user"
    /\ frozen = Users
    /\ pm_pc' = "freeze_kernel"
    /\ UNCHANGED <<vars, taken, frozen>>

FreezeKernelDone ==
    /\ pm_pc = "freeze_kernel"
    /\ pm_pc' = "begin"
    /\ taken' = taken \cup {"oom_killer"}
    /\ UNCHANGED <<vars, frozen>>

-----------------------------------------------------------------------------
(* dpm_suspend_noirq, which undoes itself when a device refuses.  The      *)
(* power device is one of them; others come before and after it.           *)

(* Mutant: the error of the noirq callbacks is dropped.                    *)
NoirqLateDropsError ==
    /\ pm_pc = "noirq"
    /\ worker = "entered"
    /\ worker' = "committed"
    /\ pm_pc' = "noirq_rest"
    /\ UNCHANGED <<flags, expires, expire_timer, expire_softirq, work_queue,
                   event_seen, taken_late, esVars, taken, frozen>>

NoirqLate ==
    /\ pm_pc = "noirq"
    /\ power_suspend_late
    /\ pm_pc' = IF worker' = "committed" THEN "noirq_rest" ELSE "platform_finish"
    /\ UNCHANGED <<esVars, taken, frozen>>

NoirqDone ==
    /\ pm_pc = "noirq_rest"
    /\ pm_pc' = "prepare_late"
    /\ taken' = taken \cup {"noirq"}
    /\ UNCHANGED <<vars, frozen>>

NoirqFails ==
    /\ pm_pc \in {"noirq", "noirq_rest"}
    /\ Fail("platform_finish")
    /\ UNCHANGED <<taken, frozen>>

-----------------------------------------------------------------------------
(* Into sleep and out of it; sysdev_suspend may still refuse.              *)

Enter ==
    /\ pm_pc = "enter"
    /\ CpuOff
    /\ pm_pc' = "asleep"
    /\ UNCHANGED <<esVars, taken, frozen>>

SysdevFails ==
    /\ pm_pc = "enter"
    /\ Fail("enable_cpus")
    /\ UNCHANGED <<taken, frozen>>

WakeUp ==
    /\ pm_pc = "asleep"
    /\ CpuOn
    /\ pm_pc' = "enable_cpus"
    /\ UNCHANGED <<esVars, taken, frozen>>

(* Mutant: the saved gfp mask is not restored.                             *)
UnwindForgetsGfp ==
    /\ pm_pc \in DOMAIN Up
    /\ taken' = taken \ (Up[pm_pc].give \ {"gfp"})
    /\ frozen' = IF pm_pc = "thaw" THEN {} ELSE frozen
    /\ pm_pc' = Up[pm_pc].next
    /\ UNCHANGED vars

Unwind ==
    /\ pm_pc \in DOMAIN Up
    /\ taken' = taken \ Up[pm_pc].give
    /\ frozen' = IF pm_pc = "thaw" THEN {} ELSE frozen
    /\ pm_pc' = Up[pm_pc].next
    /\ UNCHANGED vars

PmSuspendReturns ==
    /\ pm_pc = "none"
    /\ SuspendReturns
    /\ UNCHANGED <<esVars, pmVars>>

-----------------------------------------------------------------------------
(* The system: user space moves only while it is not frozen.               *)

PmNext ==
    \/ CallPmSuspend
    \/ StageSucceeds
    \/ StageFails
    \/ FreezeLook
    \/ FreezeTimesOut
    \/ FreezeUserDone
    \/ FreezeKernelDone
    \/ NoirqLate
    \/ NoirqDone
    \/ NoirqFails
    \/ Enter
    \/ SysdevFails
    \/ Unwind
    \/ PmSuspendReturns

ThreadNext ==
    \/ HandlerNext /\ UNCHANGED pmVars
    \/ (StartSuspend \/ SuspendCheck) /\ UNCHANGED <<esVars, pmVars>>
    \/ PmNext

UserNext ==
    \E u \in Users :
       \/ /\ u \notin frozen
          /\ RequestSleep(u) \/ RequestOn(u) \/ RequestAgain(u)
          /\ UNCHANGED pmVars
       \/ FreezeTask(u)

SPNext ==
    \/ ThreadNext
    \/ WakeUp
    \/ UserNext
    \/ (\E u \in Users : RequestReturns(u)) /\ UNCHANGED pmVars
    \/ RegistrationNext /\ UNCHANGED pmVars
    \/ SyncNext /\ UNCHANGED pmVars
    \/ (DriverNext \/ TimerNext \/ Tick) /\ UNCHANGED <<esVars, pmVars>>

(* The kernel threads run, and the freezer's loop ends.                    *)
SPSpec ==
    /\ SPInit
    /\ [][SPNext]_spVars
    /\ WF_spVars(ThreadNext)
    /\ WF_spVars(TimerNext /\ UNCHANGED <<esVars, pmVars>>)
    /\ WF_spVars(Tick /\ UNCHANGED <<esVars, pmVars>>)
    /\ WF_spVars(SyncNext /\ UNCHANGED pmVars)
    /\ \A u \in Users : WF_spVars(RequestReturns(u) /\ UNCHANGED pmVars)

-----------------------------------------------------------------------------
(* Properties.                                                             *)

(* Whatever failed and wherever, pm_suspend returns with everything given  *)
(* back and user space running.                                            *)
ReturnsUnwound == pm_pc = "none" => taken = {} /\ frozen = {}

(* Things are given back in the reverse order of taking: devices never     *)
(* work without the frame around them.                                     *)
Nested ==
    \A i, j \in 1..Len(Order) :
        i < j /\ Order[j] \in taken => Order[i] \in taken

(* The CPU is off only with everything taken, all of user space frozen and *)
(* the last request being for sleep, although that request is read without *)
(* a lock, long before.                                                    *)
AsleepWithAllTaken ==
    worker = "asleep" =>
        taken = Things /\ frozen = Users /\ requested_suspend_state = "mem"

(* The whole path is one the early suspend model allows, freezing and all. *)
ImplementsEarlySuspend == ESSafeSpec

(* An attempt to suspend ends: it does not hang in the freezer, even with  *)
(* a thread blocked until the very thread that freezes runs late_resume.   *)
AttemptsEnd == worker = "entered" ~> worker \in {"idle", "asleep"}

=============================================================================
