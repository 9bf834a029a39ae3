------------------------- MODULE SuspendPathProofs -------------------------
(***************************************************************************)
(* Proofs about SuspendPath: whatever step of pm_suspend fails, it unwinds *)
(* exactly what it has taken, in the reverse order, and the whole path     *)
(* implements EarlySuspend, in whose module pm_suspend is a few steps of   *)
(* the suspend work.                                                       *)
(*                                                                         *)
(* The properties speak of the ends of pm_suspend.  The invariant says for *)
(* each point of it how much is taken, who is frozen and where the wake    *)
(* locks believe the thread to be.  It holds together with ESInv: a thread *)
(* that is frozen is not blocked in request_suspend_state, which is what   *)
(* EarlySuspend asks of the look of the power device; and main_wake_lock,  *)
(* which ESInv knows to be free then, says that sleep is still requested.  *)
(***************************************************************************)
EXTENDS SuspendPath, EarlySuspendProofs

(* The first n things that pm_suspend takes.                               *)
Prefix(n) == {Order[i] : i \in 1..n}

(* How many are taken at each point.  Two numbers: a label that is reached *)
(* by fall-through and also by the failure that had taken less (or more).  *)
Depth ==
    [ none         |-> {0},  enter_state     |-> {0},  notify         |-> {1},
      helpers      |-> {2},  freeze_user     |-> {3},  freeze_kernel  |-> {3},
      begin        |-> {4},  devices         |-> {5},  prepare        |-> {8},
      noirq        |-> {9},  noirq_rest      |-> {9},  prepare_late   |-> {10},
      cpus         |-> {11}, enter           |-> {12}, asleep         |-> {12},
      enable_cpus  |-> {11, 12},  platform_wake   |-> {11},   power_up |-> {10},
      platform_finish |-> {9},    resume_devices  |-> {7, 8}, close |-> {4, 5},
      thaw         |-> {3, 4},    post            |-> {2},    unlock |-> {1} ]

TakenInv == \E n \in Depth[pm_pc] : taken = Prefix(n)

(* Points of the way down, before and after the power device has agreed.   *)
Entered == {"enter_state", "notify", "helpers", "freeze_user", "freeze_kernel",
            "begin", "devices", "prepare", "noirq"}

Committed == {"noirq_rest", "prepare_late", "cpus", "enter"}

(* The wake locks and pm_suspend agree on where the thread is.             *)
PhaseInv ==
    /\ pm_pc \in Entered <=> worker = "entered"
    /\ pm_pc \in Committed <=> worker = "committed"
    /\ pm_pc = "asleep" <=> worker = "asleep"
    /\ pm_pc \in DOMAIN Up => worker = "returned"

(* Outside of freeze_processes and thaw_processes all of user space runs   *)
(* or none; a frozen thread is not inside request_suspend_state.           *)
Outside == {"none", "enter_state", "notify", "helpers", "post", "unlock"}

FrozenInv ==
    /\ pm_pc \in Outside => frozen = {}
    /\ pm_pc \notin Outside \cup {"freeze_user", "thaw"} => frozen = Users
    /\ \A u \in frozen : request[u] = "idle"

(* While sleep is requested, requested_suspend_state says so.              *)
RequestedInv == suspend_requested => requested_suspend_state = "mem"

(* The inductive invariant.                                                *)
SPInv ==
    /\ ESInv
    /\ SPTypeOK
    /\ TakenInv
    /\ PhaseInv
    /\ FrozenInv
    /\ RequestedInv

-----------------------------------------------------------------------------
(* The points of the way down and the labels, one by one.                  *)
LEMMA Points ==
    /\ DOMAIN Down = {"enter_state", "notify", "helpers", "begin", "devices",
                      "prepare", "prepare_late", "cpus"}
    /\ DOMAIN Up = {"enable_cpus", "platform_wake", "power_up", "platform_finish",
                    "resume_devices", "close", "thaw", "post", "unlock"}
  BY DEF Down, Up

(* What one stage takes, or one label gives, is a run of the order.        *)
LEMMA Prefixes ==
    /\ Prefix(0) = {}
    /\ Prefix(1) = {"pm_mutex"}
    /\ Prefix(2) = Prefix(1) \cup {"notified"}
    /\ Prefix(3) = Prefix(2) \cup {"helpers"}
    /\ Prefix(4) = Prefix(3) \cup {"oom_killer"}
    /\ Prefix(5) = Prefix(4) \cup {"begun"}
    /\ Prefix(7) = Prefix(5) \cup {"console", "gfp"}
    /\ Prefix(8) = Prefix(7) \cup {"devices"}
    /\ Prefix(9) = Prefix(8) \cup {"prepared"}
    /\ Prefix(10) = Prefix(9) \cup {"noirq"}
    /\ Prefix(11) = Prefix(10) \cup {"prepared_late"}
    /\ Prefix(12) = Prefix(11) \cup {"cpus"}
    /\ Prefix(12) = Things
  BY DEF Prefix, Order, Things

(* The other way round: without the last thing, the shorter run is left.   *)
LEMMA Givebacks ==
    /\ Prefix(1) \ {"pm_mutex"} = Prefix(0)
    /\ Prefix(2) \ {"notified"} = Prefix(1)
    /\ Prefix(3) \ {"oom_killer", "helpers"} = Prefix(2)
    /\ Prefix(4) \ {"oom_killer", "helpers"} = Prefix(2)
    /\ Prefix(4) \ {"begun"} = Prefix(4)
    /\ Prefix(5) \ {"begun"} = Prefix(4)
    /\ Prefix(7) \ {"devices", "gfp", "console"} = Prefix(5)
    /\ Prefix(8) \ {"devices", "gfp", "console"} = Prefix(5)
    /\ Prefix(9) \ {"prepared"} = Prefix(8)
    /\ Prefix(10) \ {"noirq"} = Prefix(9)
    /\ Prefix(11) \ {"prepared_late"} = Prefix(10)
    /\ Prefix(11) \ {"cpus"} = Prefix(11)
    /\ Prefix(12) \ {"cpus"} = Prefix(11)
  BY DEF Prefix, Order

(* What a point of the way down takes or spoils leads to a depth that its  *)
(* successor, or the label it jumps to, knows of.                          *)
LEMMA StageDepth ==
    ASSUME NEW pc \in DOMAIN Down, NEW n \in Depth[pc]
    PROVE  /\ \E m \in Depth[Down[pc].next] : Prefix(n) \cup Down[pc].take = Prefix(m)
           /\ \E m \in Depth[Down[pc].label] : Prefix(n) \cup Down[pc].spoil = Prefix(m)
  BY Prefixes DEF Depth, Down, Stage

(* So does what a label gives.                                             *)
LEMMA LabelDepth ==
    ASSUME NEW pc \in DOMAIN Up, NEW n \in Depth[pc]
    PROVE  \E m \in Depth[Up[pc].next] : Prefix(n) \ Up[pc].give = Prefix(m)
  BY Givebacks DEF Depth, Up, Label

-----------------------------------------------------------------------------
(* To EarlySuspend every step is one of its own, or none.                  *)
LEMMA StepImplements ==
    ASSUME SPInv, SPNext
    PROVE  ESNext \/ UNCHANGED vars
<1>1. CASE CallPmSuspend
  BY <1>1 DEF CallPmSuspend, SuspendEntry, SuspendNext, SuspendStep, ESNext
<1>2. CASE StageSucceeds \/ FreezeUserDone \/ FreezeKernelDone \/ NoirqDone \/ Unwind
  BY <1>2 DEF StageSucceeds, FreezeUserDone, FreezeKernelDone, NoirqDone,
     Unwind
<1>3. CASE StageFails \/ FreezeTimesOut \/ NoirqFails \/ SysdevFails
  BY <1>3 DEF StageFails, FreezeTimesOut, NoirqFails, SysdevFails, Fail,
     SuspendFails, SuspendNext, SuspendStep, ESNext
<1>4. CASE FreezeLook
  BY <1>4 DEF FreezeLook, FreezerLooks, SuspendNext, SuspendStep, ESNext
<1>5. CASE NoirqLate
  <2>1. Frozen
    BY <1>5 DEF NoirqLate, SPInv, FrozenInv, Outside, Frozen, Waiting
  <2> QED
    BY <1>5, <2>1 DEF NoirqLate, SuspendNext, SuspendStep, ESNext
<1>6. CASE Enter \/ WakeUp
  BY <1>6 DEF Enter, WakeUp, CpuOff, CpuOn, SuspendNext, SuspendStep, ESNext
<1>7. CASE PmSuspendReturns
  BY <1>7 DEF PmSuspendReturns, SuspendReturns, SuspendNext, SuspendStep,
     ESNext
<1>8. CASE (StartSuspend \/ SuspendCheck) /\ UNCHANGED <<esVars, pmVars>>
  BY <1>8 DEF StartSuspend, SuspendCheck, SuspendNext, SuspendStep, ESNext
<1>9. CASE UserNext
  BY <1>9 DEF UserNext, FreezeTask, RequestNext, ESNext
<1>10. CASE HandlerNext /\ UNCHANGED pmVars
  BY <1>10 DEF ESNext
<1>11. CASE \/ (\E u \in Users : RequestReturns(u)) /\ UNCHANGED pmVars
            \/ RegistrationNext /\ UNCHANGED pmVars
            \/ SyncNext /\ UNCHANGED pmVars
            \/ (DriverNext \/ TimerNext \/ Tick) /\ UNCHANGED <<esVars, pmVars>>
  BY <1>11 DEF ESNext
<1> QED
  BY <1>1, <1>2, <1>3, <1>4, <1>5, <1>6, <1>7, <1>8, <1>9, <1>10, <1>11
     DEF SPNext, ThreadNext, PmNext

(* A step of another thread: where pm_suspend is, what it has taken and    *)
(* who is frozen stay.                                                     *)
OtherStep ==
    /\ \/ HandlerNext
       \/ (StartSuspend \/ SuspendCheck) /\ UNCHANGED esVars
       \/ \E u \in Users \ frozen : RequestSleep(u) \/ RequestOn(u) \/ RequestAgain(u)
       \/ \E u \in Users : RequestReturns(u)
       \/ RegistrationNext
       \/ SyncNext
       \/ (DriverNext \/ TimerNext \/ Tick) /\ UNCHANGED esVars
    /\ UNCHANGED pmVars

(* SPNext, sorted by what is shown of it.                                  *)
LEMMA StepKinds ==
    ASSUME SPNext
    PROVE  \/ PmNext
           \/ WakeUp
           \/ \E u \in Users : FreezeTask(u)
           \/ OtherStep
  BY DEF SPNext, ThreadNext, UserNext, OtherStep

(* The wake locks' own steps leave the thread where it is.                 *)
LEMMA WorkerStays ==
    ASSUME DriverNext \/ TimerNext \/ Tick \/ SyncNext \/ RegistrationNext
           \/ \E u \in Users : RequestReturns(u) \/ RequestSleep(u) \/ RequestOn(u)
                               \/ RequestAgain(u)
    PROVE  worker' = worker
  BY DEF DriverNext, ClientInit, ClientDestroy, ClientLock,
     ClientLockTimeout, ClientUnlock, TimerNext, TimerFires,
     expire_wake_locks, Tick, SyncNext, SyncStart, SyncEnd, RegistrationNext,
     register_early_suspend, unregister_early_suspend, RequestReturns,
     RequestSleep, RequestOn, RequestAgain, wlVars

(* What the invariant says of pm_suspend.                                  *)
PmInv ==
    /\ pm_pc \in PmStates /\ taken \in SUBSET Things /\ frozen \in SUBSET Users
    /\ TakenInv
    /\ PhaseInv
    /\ FrozenInv

(* The steps of the other threads keep it.                                 *)
LEMMA OtherKeeps ==
    ASSUME SPInv, OtherStep
    PROVE  PmInv'
<1>1. UNCHANGED <<pm_pc, taken, frozen>>
  BY DEF OtherStep, pmVars
<1>2. TakenInv'
  BY <1>1 DEF SPInv, TakenInv
<1>3. PhaseInv'
  <2>1. CASE HandlerNext
    <3>1. worker \in {"idle", "busy"} /\ worker' \in {"idle", "busy"}
      BY <2>1 DEF HandlerNext, StartWork, EarlyBegin, EarlyHandler, EarlyEnd,
         LateBegin, LateHandler, LateEnd, SPInv, ESInv, BusyInv, wlVars
    <3> QED
      BY <1>1, <3>1 DEF SPInv, PhaseInv
  <2>2. CASE StartSuspend \/ SuspendCheck
    <3>1. /\ worker \in {"idle", "suspend", "checked"}
          /\ worker' \in {"idle", "suspend", "checked"}
      BY <2>2 DEF StartSuspend, SuspendCheck
    <3> QED
      BY <1>1, <3>1 DEF SPInv, PhaseInv
  <2>3. CASE worker' = worker
    BY <1>1, <2>3 DEF SPInv, PhaseInv
  <2> QED
    BY <2>1, <2>2, <2>3, WorkerStays DEF OtherStep
<1>4. FrozenInv'
  <2>1. \A u \in frozen : request'[u] = request[u] \/ request'[u] = "idle"
    <3>1. CASE \E u \in Users \ frozen : RequestSleep(u) \/ RequestOn(u) \/ RequestAgain(u)
      BY <3>1 DEF RequestSleep, RequestOn, RequestAgain, SPInv, SPTypeOK,
         ESTypeOK, waitVars
    <3>2. CASE \E u \in Users : RequestReturns(u)
      BY <3>2 DEF RequestReturns
    <3>3. CASE HandlerNext \/ RegistrationNext \/ SyncNext
      BY <3>3 DEF HandlerNext, StartWork, EarlyBegin, EarlyHandler, EarlyEnd,
         LateBegin, LateHandler, LateEnd, RegistrationNext,
         register_early_suspend, unregister_early_suspend, SyncNext,
         SyncStart, SyncEnd, waitVars
    <3>4. CASE UNCHANGED esVars
      BY <3>4 DEF esVars, waitVars
    <3> QED
      BY <3>1, <3>2, <3>3, <3>4 DEF OtherStep
  <2> QED
    BY <1>1, <2>1 DEF SPInv, FrozenInv
<1> QED
  BY <1>1, <1>2, <1>3, <1>4 DEF SPInv, SPTypeOK, PmInv

(* The steps of pm_suspend and of the freezer keep it.                     *)
LEMMA PmKeeps ==
    ASSUME SPInv, PmNext \/ WakeUp \/ \E u \in Users : FreezeTask(u)
    PROVE  PmInv'
<1>1. CASE CallPmSuspend
  <2>1. pm_pc = "none"
    BY <1>1, Points DEF SPInv, SPTypeOK, PmStates, Freezing, PhaseInv,
       Entered, Committed, CallPmSuspend, SuspendEntry
  <2>2. pm_pc' \in PmStates /\ taken' \in SUBSET Things /\ frozen' \in SUBSET Users
    BY <1>1, Points DEF SPInv, SPTypeOK, PmStates, CallPmSuspend
  <2>3. TakenInv'
    BY <1>1, <2>1 DEF SPInv, TakenInv, Depth, CallPmSuspend
  <2>4. PhaseInv'
    BY <1>1, Points DEF PhaseInv, Entered, Committed, CallPmSuspend,
       SuspendEntry
  <2>5. FrozenInv'
    BY <1>1, <2>1 DEF SPInv, FrozenInv, Outside, CallPmSuspend
  <2> QED
    BY <2>2, <2>3, <2>4, <2>5 DEF PmInv
<1>2. CASE StageSucceeds
  <2>1. pm_pc' \in PmStates /\ taken' \in SUBSET Things /\ frozen' \in SUBSET Users
    BY <1>2 DEF SPInv, SPTypeOK, PmStates, Freezing, Down, Stage, Things,
       Order, StageSucceeds
  <2>2. TakenInv'
    BY <1>2, StageDepth DEF SPInv, TakenInv, StageSucceeds
  <2>3. PhaseInv'
    BY <1>2, Points DEF SPInv, PhaseInv, Entered, Committed, Down, Stage,
       StageSucceeds, vars, wlVars
  <2>4. FrozenInv'
    BY <1>2 DEF SPInv, FrozenInv, Outside, Down, Stage, StageSucceeds, vars,
       esVars, waitVars
  <2> QED
    BY <2>1, <2>2, <2>3, <2>4 DEF PmInv
<1>3. CASE StageFails
  <2>1. pm_pc' \in PmStates /\ taken' \in SUBSET Things /\ frozen' \in SUBSET Users
    BY <1>3, Points DEF SPInv, SPTypeOK, PmStates, Down, Stage, Things,
       Order, StageFails, Fail
  <2>2. TakenInv'
    BY <1>3, StageDepth DEF SPInv, TakenInv, StageFails, Fail
  <2>3. PhaseInv'
    BY <1>3 DEF PhaseInv, Entered, Committed, Down, Stage, StageFails, Fail,
       SuspendFails
  <2>4. FrozenInv'
    BY <1>3 DEF SPInv, FrozenInv, Outside, Down, Stage, StageFails, Fail,
       esVars, waitVars
  <2> QED
    BY <2>1, <2>2, <2>3, <2>4 DEF PmInv
<1>4. CASE \E u \in Users : FreezeTask(u)
  <2>1. pm_pc' \in PmStates /\ taken' \in SUBSET Things /\ frozen' \in SUBSET Users
    BY <1>4 DEF SPInv, SPTypeOK, FreezeTask
  <2>2. TakenInv'
    BY <1>4 DEF SPInv, TakenInv, FreezeTask
  <2>3. PhaseInv'
    BY <1>4 DEF SPInv, PhaseInv, FreezeTask, vars, wlVars
  <2>4. FrozenInv'
    BY <1>4 DEF SPInv, FrozenInv, Outside, Freezing, FreezeTask, vars,
       esVars, waitVars
  <2> QED
    BY <2>1, <2>2, <2>3, <2>4 DEF PmInv
<1>5. CASE FreezeLook
  <2>1. pm_pc' \in PmStates /\ taken' \in SUBSET Things /\ frozen' \in SUBSET Users
    BY <1>5, Points DEF SPInv, SPTypeOK, PmStates, FreezeLook
  <2>2. TakenInv'
    BY <1>5 DEF SPInv, TakenInv, Depth, Freezing, FreezeLook
  <2>3. PhaseInv'
    BY <1>5, Points DEF PhaseInv, Entered, Committed, Freezing, FreezeLook,
       FreezerLooks
  <2>4. FrozenInv'
    BY <1>5 DEF SPInv, FrozenInv, Outside, FreezeLook, esVars, waitVars
  <2> QED
    BY <2>1, <2>2, <2>3, <2>4 DEF PmInv
<1>6. CASE FreezeTimesOut
  <2>1. pm_pc' \in PmStates /\ taken' \in SUBSET Things /\ frozen' \in SUBSET Users
    BY <1>6, Points DEF SPInv, SPTypeOK, PmStates, FreezeTimesOut, Fail
  <2>2. TakenInv'
    BY <1>6 DEF SPInv, TakenInv, Depth, Freezing, FreezeTimesOut, Fail
  <2>3. PhaseInv'
    BY <1>6 DEF PhaseInv, Entered, Committed, FreezeTimesOut, Fail,
       SuspendFails
  <2>4. FrozenInv'
    BY <1>6 DEF SPInv, FrozenInv, Outside, FreezeTimesOut, Fail, esVars,
       waitVars
  <2> QED
    BY <2>1, <2>2, <2>3, <2>4 DEF PmInv
<1>7. CASE FreezeUserDone
  <2>1. pm_pc' \in PmStates /\ taken' \in SUBSET Things /\ frozen' \in SUBSET Users
    BY <1>7 DEF SPInv, SPTypeOK, PmStates, Freezing, FreezeUserDone
  <2>2. TakenInv'
    BY <1>7 DEF SPInv, TakenInv, Depth, FreezeUserDone
  <2>3. PhaseInv'
    BY <1>7, Points DEF SPInv, PhaseInv, Entered, Committed, Freezing,
       FreezeUserDone, vars, wlVars
  <2>4. FrozenInv'
    BY <1>7 DEF SPInv, FrozenInv, Outside, Freezing, FreezeUserDone, vars,
       esVars, waitVars
  <2> QED
    BY <2>1, <2>2, <2>3, <2>4 DEF PmInv
<1>8. CASE FreezeKernelDone
  <2>1. pm_pc' \in PmStates /\ taken' \in SUBSET Things /\ frozen' \in SUBSET Users
    BY <1>8, Points DEF SPInv, SPTypeOK, PmStates, Things, Order,
       FreezeKernelDone
  <2>2. TakenInv'
    BY <1>8, Prefixes DEF SPInv, TakenInv, Depth, FreezeKernelDone
  <2>3. PhaseInv'
    BY <1>8, Points DEF SPInv, PhaseInv, Entered, Committed, Freezing,
       FreezeKernelDone, vars, wlVars
  <2>4. FrozenInv'
    BY <1>8 DEF SPInv, FrozenInv, Outside, Freezing, FreezeKernelDone, vars,
       esVars, waitVars
  <2> QED
    BY <2>1, <2>2, <2>3, <2>4 DEF PmInv
<1>9. CASE NoirqLate
  <2>1. pm_pc' \in PmStates /\ taken' \in SUBSET Things /\ frozen' \in SUBSET Users
    BY <1>9, Points DEF SPInv, SPTypeOK, PmStates, NoirqLate
  <2>2. TakenInv'
    BY <1>9 DEF SPInv, TakenInv, Depth, NoirqLate
  <2>3. PhaseInv'
    BY <1>9, Points DEF PhaseInv, Entered, Committed, NoirqLate,
       power_suspend_late
  <2>4. FrozenInv'
    BY <1>9 DEF SPInv, FrozenInv, Outside, NoirqLate, esVars, waitVars
  <2> QED
    BY <2>1, <2>2, <2>3, <2>4 DEF PmInv
<1>10. CASE NoirqDone
  <2>1. pm_pc' \in PmStates /\ taken' \in SUBSET Things /\ frozen' \in SUBSET Users
    BY <1>10, Points DEF SPInv, SPTypeOK, PmStates, Things, Order, NoirqDone
  <2>2. TakenInv'
    BY <1>10, Prefixes DEF SPInv, TakenInv, Depth, NoirqDone
  <2>3. PhaseInv'
    BY <1>10, Points DEF SPInv, PhaseInv, Entered, Committed, NoirqDone,
       vars, wlVars
  <2>4. FrozenInv'
    BY <1>10 DEF SPInv, FrozenInv, Outside, NoirqDone, vars, esVars, waitVars
  <2> QED
    BY <2>1, <2>2, <2>3, <2>4 DEF PmInv
<1>11. CASE NoirqFails
  <2>1. pm_pc' \in PmStates /\ taken' \in SUBSET Things /\ frozen' \in SUBSET Users
    BY <1>11, Points DEF SPInv, SPTypeOK, PmStates, NoirqFails, Fail
  <2>2. TakenInv'
    BY <1>11 DEF SPInv, TakenInv, Depth, NoirqFails, Fail
  <2>3. PhaseInv'
    BY <1>11 DEF PhaseInv, Entered, Committed, NoirqFails, Fail, SuspendFails
  <2>4. FrozenInv'
    BY <1>11 DEF SPInv, FrozenInv, Outside, NoirqFails, Fail, esVars, waitVars
  <2> QED
    BY <2>1, <2>2, <2>3, <2>4 DEF PmInv
<1>12. CASE Enter
  <2>1. pm_pc' \in PmStates /\ taken' \in SUBSET Things /\ frozen' \in SUBSET Users
    BY <1>12 DEF SPInv, SPTypeOK, PmStates, Enter
  <2>2. TakenInv'
    BY <1>12 DEF SPInv, TakenInv, Depth, Enter
  <2>3. PhaseInv'
    BY <1>12, Points DEF PhaseInv, Entered, Committed, Enter, CpuOff
  <2>4. FrozenInv'
    BY <1>12 DEF SPInv, FrozenInv, Outside, Enter, esVars, waitVars
  <2> QED
    BY <2>1, <2>2, <2>3, <2>4 DEF PmInv
<1>13. CASE SysdevFails
  <2>1. pm_pc' \in PmStates /\ taken' \in SUBSET Things /\ frozen' \in SUBSET Users
    BY <1>13, Points DEF SPInv, SPTypeOK, PmStates, SysdevFails, Fail
  <2>2. TakenInv'
    BY <1>13 DEF SPInv, TakenInv, Depth, SysdevFails, Fail
  <2>3. PhaseInv'
    BY <1>13 DEF PhaseInv, Entered, Committed, SysdevFails, Fail, SuspendFails
  <2>4. FrozenInv'
    BY <1>13 DEF SPInv, FrozenInv, Outside, SysdevFails, Fail, esVars,
       waitVars
  <2> QED
    BY <2>1, <2>2, <2>3, <2>4 DEF PmInv
<1>14. CASE WakeUp
  <2>1. pm_pc' \in PmStates /\ taken' \in SUBSET Things /\ frozen' \in SUBSET Users
    BY <1>14, Points DEF SPInv, SPTypeOK, PmStates, WakeUp
  <2>2. TakenInv'
    BY <1>14 DEF SPInv, TakenInv, Depth, WakeUp
  <2>3. PhaseInv'
    BY <1>14 DEF PhaseInv, Entered, Committed, WakeUp, CpuOn
  <2>4. FrozenInv'
    BY <1>14 DEF SPInv, FrozenInv, Outside, WakeUp, esVars, waitVars
  <2> QED
    BY <2>1, <2>2, <2>3, <2>4 DEF PmInv
<1>15. CASE Unwind
  <2>1. pm_pc' \in PmStates /\ taken' \in SUBSET Things /\ frozen' \in SUBSET Users
    BY <1>15 DEF SPInv, SPTypeOK, PmStates, Up, Label, Unwind
  <2>2. TakenInv'
    BY <1>15, LabelDepth DEF SPInv, TakenInv, Unwind
  <2>3. PhaseInv'
    BY <1>15 DEF SPInv, PhaseInv, Entered, Committed, Up, Label, Unwind,
       vars, wlVars
  <2>4. FrozenInv'
    BY <1>15 DEF SPInv, FrozenInv, Outside, Up, Label, Unwind, vars, esVars,
       waitVars
  <2> QED
    BY <2>1, <2>2, <2>3, <2>4 DEF PmInv
<1>16. CASE PmSuspendReturns
  <2>1. pm_pc' \in PmStates /\ taken' \in SUBSET Things /\ frozen' \in SUBSET Users
    BY <1>16 DEF SPInv, SPTypeOK, PmSuspendReturns, pmVars
  <2>2. TakenInv'
    BY <1>16 DEF SPInv, TakenInv, PmSuspendReturns, pmVars
  <2>3. PhaseInv'
    BY <1>16, Points DEF PhaseInv, Entered, Committed, PmSuspendReturns,
       SuspendReturns, pmVars
  <2>4. FrozenInv'
    BY <1>16 DEF SPInv, FrozenInv, PmSuspendReturns, esVars, waitVars, pmVars
  <2> QED
    BY <2>1, <2>2, <2>3, <2>4 DEF PmInv
<1> QED
  BY <1>1, <1>2, <1>3, <1>4, <1>5, <1>6, <1>7, <1>8, <1>9, <1>10, <1>11,
     <1>12, <1>13, <1>14, <1>15, <1>16 DEF PmNext

(* The state that was requested last follows SUSPEND_REQUESTED.            *)
LEMMA RequestedKept ==
    ASSUME SPInv, ESNext \/ UNCHANGED vars
    PROVE  RequestedInv'
<1>1. CASE \E u \in Users : RequestSleep(u) \/ RequestOn(u) \/ RequestAgain(u)
  BY <1>1 DEF SPInv, RequestedInv, RequestSleep, RequestOn, RequestAgain
<1>2. CASE UNCHANGED reqVars
  BY <1>2 DEF SPInv, RequestedInv, reqVars
<1>3. CASE HandlerNext
  BY <1>2, <1>3 DEF HandlerNext, StartWork, EarlyBegin, EarlyHandler,
     EarlyEnd, LateBegin, LateHandler, LateEnd
<1>4. CASE RegistrationNext \/ SyncNext \/ \E u \in Users : RequestReturns(u)
  BY <1>2, <1>4 DEF RegistrationNext, register_early_suspend,
     unregister_early_suspend, SyncNext, SyncStart, SyncEnd, RequestReturns
<1>5. CASE UNCHANGED esVars
  BY <1>2, <1>5 DEF esVars
<1> QED
  BY <1>1, <1>3, <1>4, <1>5 DEF ESNext, RequestNext, SuspendStep, vars

-----------------------------------------------------------------------------
(* After the boot nothing is taken and nobody is frozen.                   *)
LEMMA SPInvInit == SPInit => SPInv
<1> SUFFICES ASSUME SPInit PROVE SPInv
  OBVIOUS
<1>1. ESInv
  BY ESInvInit DEF SPInit
<1>2. SPTypeOK
  BY <1>1 DEF SPInit, SPTypeOK, ESInv, PmStates
<1>3. TakenInv
  BY Prefixes DEF SPInit, TakenInv, Depth
<1>4. worker = "idle" /\ ~suspend_requested
  BY DEF SPInit, ESInit, WLInit
<1>5. PhaseInv
  BY <1>4, Points DEF SPInit, PhaseInv, Entered, Committed
<1>6. FrozenInv
  BY DEF SPInit, FrozenInv, Outside
<1> QED
  BY <1>1, <1>2, <1>3, <1>4, <1>5, <1>6 DEF SPInv, RequestedInv

(* Every step keeps the invariant.                                         *)
LEMMA SPInvStep == SPInv /\ [SPNext]_spVars => SPInv'
<1> SUFFICES ASSUME SPInv, [SPNext]_spVars PROVE SPInv'
  OBVIOUS
<1>1. CASE SPNext
  <2>1. ESNext \/ UNCHANGED vars
    BY <1>1, StepImplements
  <2>2. ESInv'
    BY <2>1, ESInvNext DEF SPInv
  <2>3. RequestedInv'
    BY <2>1, RequestedKept
  <2>4. PmInv'
    BY <1>1, StepKinds, PmKeeps, OtherKeeps
  <2> QED
    BY <2>2, <2>3, <2>4 DEF SPInv, SPTypeOK, PmInv, ESInv
<1>2. CASE UNCHANGED spVars
  <2>1. UNCHANGED vars /\ UNCHANGED <<pm_pc, taken, frozen>>
    BY <1>2 DEF spVars, pmVars
  <2>2. ESInv'
    BY <2>1, ESInvNext DEF SPInv
  <2>3. RequestedInv'
    BY <2>1, RequestedKept
  <2>4. UNCHANGED <<worker, request>>
    BY <2>1 DEF vars, wlVars, esVars, waitVars
  <2>5. TakenInv' /\ PhaseInv' /\ FrozenInv'
    BY <2>1, <2>4 DEF SPInv, TakenInv, PhaseInv, FrozenInv
  <2> QED
    BY <2>1, <2>2, <2>3, <2>5 DEF SPInv, SPTypeOK, ESInv
<1> QED
  BY <1>1, <1>2

-----------------------------------------------------------------------------
(* The invariant holds in every state.                                     *)
THEOREM SPInvariant == SPSpec => []SPInv
  BY SPInvInit, SPInvStep, PTL DEF SPSpec

(* Type correctness of the whole system.                                   *)
THEOREM SPTypeCorrect == SPSpec => []SPTypeOK
<1>1. SPInv => SPTypeOK
  BY DEF SPInv
<1> QED
  BY <1>1, SPInvariant, PTL

(* pm_suspend returns with everything given back and nobody frozen: each   *)
(* goto of enter_state, suspend_devices_and_enter and suspend_enter leads  *)
(* to a label that undoes exactly what was done before it.                 *)
THEOREM UnwoundTheorem == SPSpec => []ReturnsUnwound
<1>1. SPInv => ReturnsUnwound
  BY Prefixes DEF SPInv, TakenInv, FrozenInv, Outside, Depth, ReturnsUnwound
<1> QED
  BY <1>1, SPInvariant, PTL

(* What is taken is at any time a prefix of the order of taking: things    *)
(* are given back in the reverse order.                                    *)
THEOREM NestedTheorem == SPSpec => []Nested
<1>1. SPInv => Nested
  <2> SUFFICES ASSUME SPInv PROVE Nested
    OBVIOUS
  <2>1. \A pc \in PmStates : Depth[pc] \subseteq Nat
    BY Points DEF PmStates, Freezing, Depth
  <2>2. PICK n \in Nat : taken = Prefix(n)
    BY <2>1 DEF SPInv, SPTypeOK, TakenInv
  <2>3. \A i, j \in 1..Len(Order) : Order[i] = Order[j] => i = j
    BY DEF Order
  <2> QED
    BY <2>2, <2>3 DEF Nested, Prefix
<1> QED
  BY <1>1, SPInvariant, PTL

(* The CPU is off only with everything taken, all of user space frozen and *)
(* sleep still requested: request_suspend_state cannot run after the       *)
(* freezer, and before it main_wake_lock tells.                            *)
THEOREM AsleepTheorem == SPSpec => []AsleepWithAllTaken
<1>1. SPInv => AsleepWithAllTaken
  <2> SUFFICES ASSUME SPInv, worker = "asleep"
               PROVE  taken = Things /\ frozen = Users /\ requested_suspend_state = "mem"
    BY DEF AsleepWithAllTaken
  <2>1. pm_pc = "asleep"
    BY DEF SPInv, PhaseInv
  <2>2. taken = Things
    BY <2>1, Prefixes DEF SPInv, TakenInv, Depth
  <2>3. frozen = Users
    BY <2>1 DEF SPInv, FrozenInv, Outside
  <2>4. suspend_requested
    BY DEF SPInv, ESInv, CommittedUnlocked, MainLockGuardsHandlers
  <2> QED
    BY <2>2, <2>3, <2>4 DEF SPInv, RequestedInv
<1> QED
  BY <1>1, SPInvariant, PTL

(* pm_suspend with the freezer implements the few steps that EarlySuspend  *)
(* has for it; above all, the freezer sees to it that no thread is blocked *)
(* in request_suspend_state when the power device agrees.                  *)
THEOREM SuspendPathImplementsEarlySuspend == SPSpec => ImplementsEarlySuspend
<1>1. SPInit => ESInit
  BY DEF SPInit
<1>2. SPInv /\ [SPNext]_spVars => [ESNext]_vars
  BY StepImplements DEF spVars
<1> QED
  BY <1>1, <1>2, SPInvariant, PTL DEF SPSpec, ImplementsEarlySuspend,
     ESSafeSpec

(* Hence, with the whole of pm_suspend in it, the system still does not    *)
(* sleep over an active wake lock ...                                      *)
THEOREM PathSleepSafety == SPSpec => []SleepRespectsLocks
<1>1. SPInv => WLInv
  BY DEF SPInv, ESInv
<1>2. WLInv => SleepRespectsLocks
  BY DEF WLInv, CommittedRespectsLocks, SleepRespectsLocks
<1> QED
  BY <1>1, <1>2, SPInvariant, PTL

(* ... and implements what WakeLock says about the locks.                  *)
THEOREM SuspendPathImplementsWakeLock == SPSpec => ImplementsWakeLock
  BY SuspendPathImplementsEarlySuspend, EarlySuspendImplementsWakeLock, PTL
     DEF ImplementsEarlySuspend

=============================================================================
