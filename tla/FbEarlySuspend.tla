--------------------------- MODULE FbEarlySuspend ---------------------------
(***************************************************************************)
(* Frame buffer early suspend (kernel/power/fbearlysuspend.c): the         *)
(* early-suspend handler of level STOP_DRAWING, called before the drivers  *)
(* of the screen, asks user space to stop drawing and waits for its answer *)
(* for at most a second; its late-resume counterpart, called after theirs, *)
(* lets it draw again.  User space asks and answers by reading two sysfs   *)
(* files whose reads block.                                                *)
(*                                                                         *)
(* The handlers are called in turn by the suspend work queue: module       *)
(* EarlySuspend shows that they alternate.  The process that draws is      *)
(* external: one of its threads reads wait_for_fb_sleep, has the others    *)
(* stop, reads wait_for_fb_wake, which is the answer, and has them draw    *)
(* again; a read that a signal interrupts is repeated.  Watchers are other *)
(* threads, which do not draw and read wait_for_fb_sleep in a loop.        *)
(*                                                                         *)
(* wait_event queues the thread before it reads the condition, so that     *)
(* testing it and falling asleep are one step; the wait queue is the set   *)
(* of sleeping threads, and wake_up empties it (none waits exclusively).   *)
(***************************************************************************)

CONSTANTS
    Watchers      \* threads that only want to know when the screen goes off

(* They are threads of their own. *)
ASSUME WatcherAssumption == Watchers \cap {"work", "drawer"} = {}

VARIABLES
    fb_state,     \* "DRAWING_OK", "REQUEST_STOP_DRAWING" or "STOPPED_DRAWING"
    fb_state_wq,  \* the threads that sleep on the wait queue
    work,         \* where the work queue's thread is
    warned,       \* the last stop_drawing_early_suspend timed out
    drawer,       \* where the drawing process is
    watcher       \* per watcher: whether it is inside the read, or was told

fbVars == <<fb_state, fb_state_wq, work, warned, drawer, watcher>>

FbStates == {"DRAWING_OK", "REQUEST_STOP_DRAWING", "STOPPED_DRAWING"}

FbTypeOK ==
    /\ fb_state \in FbStates
    /\ fb_state_wq \subseteq {"work", "drawer"} \cup Watchers
    /\ work \in {"awake", "requested", "waiting", "waited", "off", "resumed"}
    /\ warned \in BOOLEAN
    /\ drawer \in {"in_sleep", "stopping", "stopped", "in_wake", "starting"}
    /\ watcher \in [Watchers -> {"in_sleep", "told"}]
    \* who sleeps on the queue is inside a wait
    /\ "work" \in fb_state_wq => work = "waiting"
    /\ "drawer" \in fb_state_wq => drawer \in {"in_sleep", "in_wake"}
    /\ \A w \in Watchers \cap fb_state_wq : watcher[w] = "in_sleep"

(* android_power_init.                                                     *)
FbInit ==
    /\ fb_state = "DRAWING_OK" /\ fb_state_wq = {}
    /\ work = "awake" /\ warned = FALSE
    /\ drawer = "in_sleep"
    /\ watcher = [w \in Watchers |-> "in_sleep"]

(* The process draws until its threads have been stopped.                  *)
Drawing == drawer \in {"in_sleep", "stopping"}

-----------------------------------------------------------------------------
(* stop_drawing_early_suspend.                                             *)

RequestStop ==
    /\ work = "awake"
    /\ work' = "requested"
    /\ fb_state' = "REQUEST_STOP_DRAWING"
    /\ UNCHANGED <<fb_state_wq, warned, drawer, watcher>>

WakeForStop ==
    /\ work = "requested"
    /\ work' = "waiting"
    /\ fb_state_wq' = {}
    /\ UNCHANGED <<fb_state, warned, drawer, watcher>>

(* wait_event_timeout tests its condition and sleeps or goes on ...        *)
WaitForStopped ==
    /\ work = "waiting" /\ "work" \notin fb_state_wq
    /\ \/ /\ fb_state = "STOPPED_DRAWING"
          /\ work' = "waited" /\ UNCHANGED fb_state_wq
       \/ /\ fb_state # "STOPPED_DRAWING"
          /\ fb_state_wq' = fb_state_wq \cup {"work"} /\ UNCHANGED work
    /\ UNCHANGED <<fb_state, warned, drawer, watcher>>

(* ... or gives up after a second.                                         *)
Timeout ==
    /\ work = "waiting" /\ "work" \in fb_state_wq
    /\ work' = "waited"
    /\ fb_state_wq' = fb_state_wq \ {"work"}
    /\ UNCHANGED <<fb_state, warned, drawer, watcher>>

(* The state is read again before the handler returns; the handlers of the *)
(* later levels then turn the screen off.                                  *)
StopReturns ==
    /\ work = "waited"
    /\ work' = "off"
    /\ warned' = (fb_state # "STOPPED_DRAWING")
    /\ UNCHANGED <<fb_state, fb_state_wq, drawer, watcher>>

(* start_drawing_late_resume.                                              *)
StartDrawing ==
    /\ work = "off"
    /\ work' = "resumed"
    /\ fb_state' = "DRAWING_OK"
    /\ warned' = FALSE
    /\ UNCHANGED <<fb_state_wq, drawer, watcher>>

(* Mutant: the sleeping threads are not woken up.                          *)
WakeForStart_no_wake ==
    /\ work = "resumed"
    /\ work' = "awake"
    /\ UNCHANGED <<fb_state, fb_state_wq, warned, drawer, watcher>>

WakeForStart ==
    /\ work = "resumed"
    /\ work' = "awake"
    /\ fb_state_wq' = {}
    /\ UNCHANGED <<fb_state, warned, drawer, watcher>>

-----------------------------------------------------------------------------
(* wait_for_fb_sleep_show, as read by the drawing process.                 *)

SleepShow ==
    /\ drawer = "in_sleep" /\ "drawer" \notin fb_state_wq
    /\ \/ /\ fb_state # "DRAWING_OK"
          /\ drawer' = "stopping" /\ UNCHANGED fb_state_wq
       \/ /\ fb_state = "DRAWING_OK"
          /\ fb_state_wq' = fb_state_wq \cup {"drawer"} /\ UNCHANGED drawer
    /\ UNCHANGED <<fb_state, work, warned, watcher>>

(* A signal: the state is read once more, and unless it has changed the    *)
(* process has to read the file again.                                     *)
SleepInterrupted ==
    /\ drawer = "in_sleep" /\ "drawer" \in fb_state_wq
    /\ fb_state_wq' = fb_state_wq \ {"drawer"}
    /\ drawer' = IF fb_state = "DRAWING_OK" THEN "in_sleep" ELSE "stopping"
    /\ UNCHANGED <<fb_state, work, warned, watcher>>

(* The process (external) has stopped its drawing threads.                 *)
DrawerStops ==
    /\ drawer = "stopping"
    /\ drawer' = "stopped"
    /\ UNCHANGED <<fb_state, fb_state_wq, work, warned, watcher>>

(* Mutant: the answer is given whatever was asked.                         *)
WakeShowAnswer_unasked ==
    /\ drawer = "stopped"
    /\ drawer' = "in_wake"
    /\ fb_state' = "STOPPED_DRAWING" /\ fb_state_wq' = {}
    /\ UNCHANGED <<work, warned, watcher>>

(* wait_for_fb_wake_show: the answer ...                                   *)
WakeShowAnswer ==
    /\ drawer = "stopped"
    /\ drawer' = "in_wake"
    /\ \/ /\ fb_state = "REQUEST_STOP_DRAWING"
          /\ fb_state' = "STOPPED_DRAWING" /\ fb_state_wq' = {}
       \/ /\ fb_state # "REQUEST_STOP_DRAWING"
          /\ UNCHANGED <<fb_state, fb_state_wq>>
    /\ UNCHANGED <<work, warned, watcher>>

(* ... and the wait.                                                       *)
WakeShowWait ==
    /\ drawer = "in_wake" /\ "drawer" \notin fb_state_wq
    /\ \/ /\ fb_state = "DRAWING_OK"
          /\ drawer' = "starting" /\ UNCHANGED fb_state_wq
       \/ /\ fb_state # "DRAWING_OK"
          /\ fb_state_wq' = fb_state_wq \cup {"drawer"} /\ UNCHANGED drawer
    /\ UNCHANGED <<fb_state, work, warned, watcher>>

(* Mutant: an interrupted read says "awake".                               *)
WakeInterrupted_says_awake ==
    /\ drawer = "in_wake" /\ "drawer" \in fb_state_wq
    /\ fb_state_wq' = fb_state_wq \ {"drawer"}
    /\ drawer' = "starting"
    /\ UNCHANGED <<fb_state, work, warned, watcher>>

WakeInterrupted ==
    /\ drawer = "in_wake" /\ "drawer" \in fb_state_wq
    /\ fb_state_wq' = fb_state_wq \ {"drawer"}
    /\ drawer' = IF fb_state # "DRAWING_OK" THEN "stopped" ELSE "starting"
    /\ UNCHANGED <<fb_state, work, warned, watcher>>

(* The process (external) draws again and goes back to the first file.     *)
DrawerStarts ==
    /\ drawer = "starting"
    /\ drawer' = "in_sleep"
    /\ UNCHANGED <<fb_state, fb_state_wq, work, warned, watcher>>

(* wait_for_fb_sleep_show, as read by a thread that does not draw.         *)
WatcherShow(w) ==
    /\ watcher[w] = "in_sleep" /\ w \notin fb_state_wq
    /\ \/ /\ fb_state # "DRAWING_OK"
          /\ watcher' = [watcher EXCEPT ![w] = "told"] /\ UNCHANGED fb_state_wq
       \/ /\ fb_state = "DRAWING_OK"
          /\ fb_state_wq' = fb_state_wq \cup {w} /\ UNCHANGED watcher
    /\ UNCHANGED <<fb_state, work, warned, drawer>>

WatcherAgain(w) ==
    /\ watcher[w] = "told"
    /\ watcher' = [watcher EXCEPT ![w] = "in_sleep"]
    /\ UNCHANGED <<fb_state, fb_state_wq, work, warned, drawer>>

-----------------------------------------------------------------------------
(* The steps of a handler that has been called.                            *)
WorkStep ==
    WakeForStop \/ WaitForStopped \/ Timeout \/ StopReturns \/ WakeForStart

DrawerStep ==
    SleepShow \/ DrawerStops \/ WakeShowAnswer \/ WakeShowWait \/ DrawerStarts

FbNext ==
    \/ RequestStop \/ StartDrawing \/ WorkStep
    \/ DrawerStep \/ SleepInterrupted \/ WakeInterrupted
    \/ \E w \in Watchers : WatcherShow(w) \/ WatcherAgain(w)

(* The scheduler runs every thread that can run, and the timer of          *)
(* wait_event_timeout goes off.  Nothing is assumed of when the system     *)
(* suspends and resumes, or of signals.                                    *)
FbFairness == WF_fbVars(WorkStep) /\ WF_fbVars(DrawerStep)

FbSpec == FbInit /\ [][FbNext]_fbVars /\ FbFairness

-----------------------------------------------------------------------------
(* The answer can be trusted: when the kernel believes that drawing has    *)
(* stopped it has, and it does not start again before the screen is on -   *)
(* although requests, answers and resumes may overtake each other, an      *)
(* answer may come after the timeout, and a read may be interrupted.       *)
NoDrawingWhenOff ==
    /\ fb_state = "STOPPED_DRAWING" => ~Drawing
    /\ work = "off" /\ ~warned => ~Drawing /\ fb_state = "STOPPED_DRAWING"

(* The answer belongs to a request: it never takes back the permission to  *)
(* draw that a resume has given.                                           *)
ResumeNotOverwritten ==
    /\ FbTypeOK
    /\ work \in {"awake", "resumed"} <=> fb_state = "DRAWING_OK"

(* Early suspend never hangs on user space; a request is answered, or      *)
(* taken back, unless it finds the process in the wait for the previous    *)
(* resume, which it has then to sit out; and after a resume the process    *)
(* draws again, unless the system changes its mind before.                 *)
FbLive ==
    /\ work = "requested" ~> work = "off"
    /\ fb_state = "REQUEST_STOP_DRAWING" /\ drawer # "in_wake"
          ~> fb_state # "REQUEST_STOP_DRAWING"
    /\ work = "awake" ~> Drawing \/ work # "awake"

=============================================================================
