------------------------ MODULE FbEarlySuspendProofs ------------------------
(***************************************************************************)
(* Proofs about FbEarlySuspend: nothing draws once the kernel believes     *)
(* that drawing has stopped, and no answer overwrites a resume, for every  *)
(* set of watchers.                                                        *)
(*                                                                         *)
(* What the two properties say is not kept by each step on its own: that   *)
(* the process does not draw is lost when its wait for the resume returns, *)
(* and it returns only if fb_state is DRAWING_OK.  AnswerInv says where    *)
(* the process is as long as its answer stands.                            *)
(***************************************************************************)
EXTENDS FbEarlySuspend, TLAPS

(* As long as the answer stands, the process that gave it is in the read   *)
(* of wait_for_fb_wake, or about to repeat it after a signal.              *)
AnswerInv == fb_state = "STOPPED_DRAWING" => drawer \in {"stopped", "in_wake"}

(* A handler that returned without the warning found the answer; the       *)
(* answer stays until start_drawing_late_resume.                           *)
BelievedInv == work = "off" /\ ~warned => fb_state = "STOPPED_DRAWING"

(* The inductive invariant.                                                *)
FbInv == AnswerInv /\ BelievedInv /\ ResumeNotOverwritten

-----------------------------------------------------------------------------
(* android_power_init establishes the invariant.                           *)
LEMMA FbInvInit == FbInit => FbInv
  BY DEF FbInit, FbInv, AnswerInv, BelievedInv, ResumeNotOverwritten,
     FbTypeOK, FbStates

(* The two handlers keep the invariant, between any two of their steps.    *)
LEMMA WorkKeeps ==
    ASSUME FbInv, RequestStop \/ StartDrawing \/ WorkStep
    PROVE  FbInv'
<1>1. CASE RequestStop
  <2>1. AnswerInv'
    BY <1>1 DEF AnswerInv, RequestStop
  <2>2. BelievedInv'
    BY <1>1 DEF BelievedInv, RequestStop
  <2>3. ResumeNotOverwritten'
    BY <1>1 DEF FbInv, ResumeNotOverwritten, FbTypeOK, FbStates, RequestStop
  <2> QED
    BY <2>1, <2>2, <2>3 DEF FbInv
<1>2. CASE WakeForStop
  <2>1. AnswerInv'
    BY <1>2 DEF FbInv, AnswerInv, WakeForStop
  <2>2. BelievedInv'
    BY <1>2 DEF BelievedInv, WakeForStop
  <2>3. ResumeNotOverwritten'
    BY <1>2 DEF FbInv, ResumeNotOverwritten, FbTypeOK, WakeForStop
  <2> QED
    BY <2>1, <2>2, <2>3 DEF FbInv
<1>3. CASE WaitForStopped
  <2>1. AnswerInv'
    BY <1>3 DEF FbInv, AnswerInv, WaitForStopped
  <2>2. BelievedInv'
    BY <1>3 DEF BelievedInv, WaitForStopped
  <2>3. ResumeNotOverwritten'
    BY <1>3, WatcherAssumption DEF FbInv, ResumeNotOverwritten, FbTypeOK,
       WaitForStopped
  <2> QED
    BY <2>1, <2>2, <2>3 DEF FbInv
<1>4. CASE Timeout
  <2>1. AnswerInv'
    BY <1>4 DEF FbInv, AnswerInv, Timeout
  <2>2. BelievedInv'
    BY <1>4 DEF BelievedInv, Timeout
  <2>3. ResumeNotOverwritten'
    BY <1>4 DEF FbInv, ResumeNotOverwritten, FbTypeOK, Timeout
  <2> QED
    BY <2>1, <2>2, <2>3 DEF FbInv
<1>5. CASE StopReturns
  <2>1. AnswerInv'
    BY <1>5 DEF FbInv, AnswerInv, StopReturns
  <2>2. BelievedInv'
    BY <1>5 DEF BelievedInv, StopReturns
  <2>3. ResumeNotOverwritten'
    BY <1>5 DEF FbInv, ResumeNotOverwritten, FbTypeOK, StopReturns
  <2> QED
    BY <2>1, <2>2, <2>3 DEF FbInv
<1>6. CASE StartDrawing
  <2>1. AnswerInv'
    BY <1>6 DEF AnswerInv, StartDrawing
  <2>2. BelievedInv'
    BY <1>6 DEF BelievedInv, StartDrawing
  <2>3. ResumeNotOverwritten'
    BY <1>6 DEF FbInv, ResumeNotOverwritten, FbTypeOK, FbStates, StartDrawing
  <2> QED
    BY <2>1, <2>2, <2>3 DEF FbInv
<1>7. CASE WakeForStart
  <2>1. AnswerInv'
    BY <1>7 DEF FbInv, AnswerInv, WakeForStart
  <2>2. BelievedInv'
    BY <1>7 DEF BelievedInv, WakeForStart
  <2>3. ResumeNotOverwritten'
    BY <1>7 DEF FbInv, ResumeNotOverwritten, FbTypeOK, WakeForStart
  <2> QED
    BY <2>1, <2>2, <2>3 DEF FbInv
<1> QED
  BY <1>1, <1>2, <1>3, <1>4, <1>5, <1>6, <1>7 DEF WorkStep

(* So does the drawing process, whose answer and waits depend on what      *)
(* fb_state has become in the meantime.                                    *)
LEMMA DrawerKeeps ==
    ASSUME FbInv, DrawerStep \/ SleepInterrupted \/ WakeInterrupted
    PROVE  FbInv'
<1>1. CASE SleepShow
  <2>1. AnswerInv'
    BY <1>1 DEF FbInv, AnswerInv, SleepShow
  <2>2. BelievedInv'
    BY <1>1 DEF FbInv, BelievedInv, SleepShow
  <2>3. ResumeNotOverwritten'
    BY <1>1, WatcherAssumption DEF FbInv, ResumeNotOverwritten, FbTypeOK,
       SleepShow
  <2> QED
    BY <2>1, <2>2, <2>3 DEF FbInv
<1>2. CASE SleepInterrupted
  <2>1. AnswerInv'
    BY <1>2 DEF FbInv, AnswerInv, SleepInterrupted
  <2>2. BelievedInv'
    BY <1>2 DEF FbInv, BelievedInv, SleepInterrupted
  <2>3. ResumeNotOverwritten'
    BY <1>2 DEF FbInv, ResumeNotOverwritten, FbTypeOK, SleepInterrupted
  <2> QED
    BY <2>1, <2>2, <2>3 DEF FbInv
<1>3. CASE DrawerStops
  <2>1. AnswerInv'
    BY <1>3 DEF AnswerInv, DrawerStops
  <2>2. BelievedInv'
    BY <1>3 DEF FbInv, BelievedInv, DrawerStops
  <2>3. ResumeNotOverwritten'
    BY <1>3 DEF FbInv, ResumeNotOverwritten, FbTypeOK, DrawerStops
  <2> QED
    BY <2>1, <2>2, <2>3 DEF FbInv
<1>4. CASE WakeShowAnswer
  <2>1. AnswerInv'
    BY <1>4 DEF AnswerInv, WakeShowAnswer
  <2>2. BelievedInv'
    BY <1>4 DEF FbInv, BelievedInv, WakeShowAnswer
  <2>3. ResumeNotOverwritten'
    BY <1>4 DEF FbInv, ResumeNotOverwritten, FbTypeOK, FbStates,
       WakeShowAnswer
  <2> QED
    BY <2>1, <2>2, <2>3 DEF FbInv
<1>5. CASE WakeShowWait
  <2>1. AnswerInv'
    BY <1>5 DEF AnswerInv, WakeShowWait
  <2>2. BelievedInv'
    BY <1>5 DEF FbInv, BelievedInv, WakeShowWait
  <2>3. ResumeNotOverwritten'
    BY <1>5, WatcherAssumption DEF FbInv, ResumeNotOverwritten, FbTypeOK,
       WakeShowWait
  <2> QED
    BY <2>1, <2>2, <2>3 DEF FbInv
<1>6. CASE WakeInterrupted
  <2>1. AnswerInv'
    BY <1>6 DEF AnswerInv, WakeInterrupted
  <2>2. BelievedInv'
    BY <1>6 DEF FbInv, BelievedInv, WakeInterrupted
  <2>3. ResumeNotOverwritten'
    BY <1>6 DEF FbInv, ResumeNotOverwritten, FbTypeOK, WakeInterrupted
  <2> QED
    BY <2>1, <2>2, <2>3 DEF FbInv
<1>7. CASE DrawerStarts
  <2>1. AnswerInv'
    BY <1>7 DEF FbInv, AnswerInv, DrawerStarts
  <2>2. BelievedInv'
    BY <1>7 DEF FbInv, BelievedInv, DrawerStarts
  <2>3. ResumeNotOverwritten'
    BY <1>7 DEF FbInv, ResumeNotOverwritten, FbTypeOK, DrawerStarts
  <2> QED
    BY <2>1, <2>2, <2>3 DEF FbInv
<1> QED
  BY <1>1, <1>2, <1>3, <1>4, <1>5, <1>6, <1>7 DEF DrawerStep

(* The watchers come and go on the same wait queue.                        *)
LEMMA WatcherKeeps ==
    ASSUME FbInv, NEW w \in Watchers, WatcherShow(w) \/ WatcherAgain(w)
    PROVE  FbInv'
<1>1. CASE WatcherShow(w)
  <2>1. AnswerInv'
    BY <1>1 DEF FbInv, AnswerInv, WatcherShow
  <2>2. BelievedInv'
    BY <1>1 DEF FbInv, BelievedInv, WatcherShow
  <2>3. ResumeNotOverwritten'
    BY <1>1, WatcherAssumption DEF FbInv, ResumeNotOverwritten, FbTypeOK,
       WatcherShow
  <2> QED
    BY <2>1, <2>2, <2>3 DEF FbInv
<1>2. CASE WatcherAgain(w)
  <2>1. AnswerInv'
    BY <1>2 DEF FbInv, AnswerInv, WatcherAgain
  <2>2. BelievedInv'
    BY <1>2 DEF FbInv, BelievedInv, WatcherAgain
  <2>3. ResumeNotOverwritten'
    BY <1>2 DEF FbInv, ResumeNotOverwritten, FbTypeOK, WatcherAgain
  <2> QED
    BY <2>1, <2>2, <2>3 DEF FbInv
<1> QED
  BY <1>1, <1>2

(* Every step of the system keeps the invariant.                           *)
LEMMA FbInvStep == FbInv /\ [FbNext]_fbVars => FbInv'
<1> SUFFICES ASSUME FbInv, [FbNext]_fbVars
             PROVE  FbInv'
  OBVIOUS
<1>1. CASE RequestStop \/ StartDrawing \/ WorkStep
  BY <1>1, WorkKeeps
<1>2. CASE DrawerStep \/ SleepInterrupted \/ WakeInterrupted
  BY <1>2, DrawerKeeps
<1>3. ASSUME NEW w \in Watchers, WatcherShow(w) \/ WatcherAgain(w)
      PROVE  FbInv'
  BY <1>3, WatcherKeeps
<1>4. CASE UNCHANGED fbVars
  BY <1>4 DEF fbVars, FbInv, AnswerInv, BelievedInv, ResumeNotOverwritten,
     FbTypeOK
<1> QED
  BY <1>1, <1>2, <1>3, <1>4 DEF FbNext

-----------------------------------------------------------------------------
(* The invariant holds in every state.                                     *)
THEOREM FbInvariant == FbSpec => []FbInv
  BY FbInvInit, FbInvStep, PTL DEF FbSpec

(* When stop_drawing_early_suspend has returned without its warning, user  *)
(* space does not draw, and will not before start_drawing_late_resume;     *)
(* likewise whenever fb_state says so, also after a late answer.           *)
THEOREM NoDrawingTheorem == FbSpec => []NoDrawingWhenOff
<1>1. FbInv => NoDrawingWhenOff
  BY DEF FbInv, AnswerInv, BelievedInv, NoDrawingWhenOff, Drawing
<1> QED
  BY <1>1, FbInvariant, PTL

(* fb_state is DRAWING_OK exactly outside of a suspend: an answer that     *)
(* wait_for_fb_wake_show gives late never takes a resume back.             *)
THEOREM ResumeTheorem == FbSpec => []ResumeNotOverwritten
<1>1. FbInv => ResumeNotOverwritten
  BY DEF FbInv
<1> QED
  BY <1>1, FbInvariant, PTL

=============================================================================
