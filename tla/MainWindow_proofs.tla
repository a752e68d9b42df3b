-------------------------- MODULE MainWindow_proofs --------------------------
(***************************************************************************)
(* What the window promises: of a runtime it has started, stopped or closed   *)
(* (Lifecycle), for any number of launches and crashes, and of the log it      *)
(* shows (LogRing), for every size of the ring and every sequence of writes.  *)
(*                                                                         *)
(* Runtime.  None of the properties is inductive: each says what is true at   *)
(* rest, and what makes it so is which part of the runtime exists at each     *)
(* line of app.Start and Session.Close.  The invariants say that, line by     *)
(* line.                                                                    *)
(*                                                                         *)
(* Log.  No wake-up is ever lost.  WakeUpUnderway is not inductive by itself: *)
(* a Write that finds notified set posts nothing, so the invariant must say   *)
(* that a set flag already has its wake-up underway.  And the text has no     *)
(* gap: for that the bounded history must itself be the end of the log, since *)
(* an overflow replaces the text by it, and a control that has dropped text   *)
(* must be full, or a later delta would leave a gap.                         *)
(***************************************************************************)
EXTENDS Lifecycle, LogRing, SequenceTheorems, TLAPS

(* Nothing of the runtime exists.                                           *)
Clean == ~ handle /\ ~ proxy /\ ~ installed

(* The flags of gui follow the two goroutines: a start is under way exactly   *)
(* while its goroutine or its result exists, and never beside a session;      *)
(* stopping means a cancelled start or a stop goroutine.                      *)
UiFollows ==
    /\ starting <=> starter # "none"
    /\ canCancel <=> starting
    /\ starter = "sent" <=> startResult # "none"
    /\ session => starter = "none"
    /\ stopper # "none" => session /\ stopping
    /\ stopping => starter # "none" \/ stopper # "none"

(* Session.Close takes the runtime down in its order.                       *)
CloseOrder ==
    /\ closePc \in {"proxy", "runner", "closed"} => ~ installed
    /\ closePc \in {"runner", "closed"} => ~ proxy
    /\ closePc = "closed" => ~ handle
    /\ stopper = "closing" => closePc # "open"
    /\ stopper = "done" => closePc = "closed"
    /\ session /\ closePc # "open" => stopping \/ closing

(* How much of the runtime app.Start has built at each of its lines.         *)
StartOrder ==
    /\ starter \in {"load", "engine", "err"} => Clean /\ closePc \in {"open", "closed"}
    /\ starter = "sent" /\ startResult = "err" => Clean /\ closePc \in {"open", "closed"}
    /\ starter = "none" /\ ~ session => Clean /\ closePc \in {"open", "closed"}
    /\ starter \in {"proxy", "snapshot", "setPac"} => ~ installed
    /\ starter = "proxy" => ~ proxy
    /\ starter \in {"proxy", "snapshot", "setPac", "check", "started", "ok"} => closePc = "open"
    /\ starter = "sent" /\ startResult = "ok" => closePc = "open"
    /\ starter = "abort" => closePc # "open"

(* A PAC of this process is one Session.Close still has to restore, or       *)
(* failed to.                                                               *)
PacOwned == pac = "ours" => installed \/ restoreFailed

(* The context of a start nobody interrupted is done only once its runtime    *)
(* is gone.                                                                 *)
CancelledLate ==
    cancelled /\ ~ hasty =>
       /\ Clean
       /\ \/ starter = "none" /\ (session => closePc = "closed")
          \/ starter = "sent" /\ startResult = "err"

(* What closing the window waits for.                                       *)
WindowOrder ==
    /\ closing /\ starting => hasty /\ closedInStart
    /\ rootDone => closing /\ (session => closePc = "closed")
    /\ process = "exited" /\ ~ closedInStart => ~ installed

Built == starter \in {"proxy", "snapshot", "setPac", "check", "started", "ok"}
         \/ (starter = "sent" /\ startResult = "ok") \/ session

(* Without an interruption the proxy is there when its PAC is written and     *)
(* stays as long as the PAC does, and the capture loop runs until Close.     *)
Undisturbed ==
    process = "running" /\ ~ hasty =>
       /\ starter \in {"snapshot", "setPac"} => proxy
       /\ installed => proxy
       /\ Built /\ closePc # "closed" => capturing

(* A PAC the user had when the settings were read stops the start.           *)
SnapshotValid == starter = "setPac" /\ pac = "user" => edited

(* The values of the fields, as far as the argument needs them.               *)
Fields ==
    /\ process \in {"running", "exited", "crashed"}
    /\ starting \in BOOLEAN /\ stopping \in BOOLEAN /\ closing \in BOOLEAN /\ session \in BOOLEAN
    /\ canCancel \in BOOLEAN /\ cancelled \in BOOLEAN /\ rootDone \in BOOLEAN
    /\ startResult \in {"none", "ok", "err"}
    /\ handle \in BOOLEAN /\ capturing \in BOOLEAN /\ proxy \in BOOLEAN /\ installed \in BOOLEAN
    /\ restoreFailed \in BOOLEAN /\ hasty \in BOOLEAN /\ closedInStart \in BOOLEAN
    /\ edited \in BOOLEAN

IInv ==
    /\ Fields /\ UiFollows /\ CloseOrder /\ StartOrder /\ PacOwned
    /\ CancelledLate /\ WindowOrder /\ Undisturbed /\ SnapshotValid

----------------------------------------------------------------------------
(* A machine on which SplitWire never ran satisfies the invariant.           *)
LEMMA InitInv == Init => IInv
<1> SUFFICES ASSUME Init PROVE IInv
  OBVIOUS
<1>1. ~ starting /\ ~ stopping /\ ~ closing /\ ~ session /\ ~ canCancel /\ ~ cancelled /\ ~ rootDone
  BY Zenon DEF Init
<1>2. ~ handle /\ ~ capturing /\ ~ proxy /\ ~ installed /\ ~ restoreFailed /\ ~ hasty
      /\ ~ closedInStart /\ ~ edited
  BY Zenon DEF Init
<1>3. Fields
  <2>1. starting \in BOOLEAN /\ stopping \in BOOLEAN /\ closing \in BOOLEAN /\ session \in BOOLEAN
        /\ canCancel \in BOOLEAN /\ cancelled \in BOOLEAN /\ rootDone \in BOOLEAN
    BY Zenon DEF Init
  <2>2. handle \in BOOLEAN /\ capturing \in BOOLEAN /\ proxy \in BOOLEAN /\ installed \in BOOLEAN
        /\ restoreFailed \in BOOLEAN /\ hasty \in BOOLEAN /\ closedInStart \in BOOLEAN
        /\ edited \in BOOLEAN
    BY Zenon DEF Init
  <2>3. QED BY <2>1, <2>2 DEF Init, Fields
<1>4. process = "running" /\ starter = "none" /\ startResult = "none" /\ stopper = "none"
      /\ closePc = "open" /\ pac \in {"none", "stale", "user"}
  BY DEF Init
<1>5. QED BY <1>1, <1>2, <1>3, <1>4 DEF IInv, UiFollows, CloseOrder, StartOrder, PacOwned,
     CancelledLate, WindowOrder, Undisturbed, SnapshotValid, Clean, Built

(* The user's buttons, and a relaunch after an exit or a crash.               *)
LEMMA UserSteps == ASSUME IInv, User PROVE IInv'
<1> USE DEF IInv, Fields, UiFollows, CloseOrder, StartOrder, PacOwned, CancelledLate, WindowOrder,
        Undisturbed, SnapshotValid, Clean, Built, uiVars, ctxVars, procVars, rtVars, userVars
<1>1. CASE BeginStart
  <2>1. ~ cancelled' /\ ~ hasty'
    BY <1>1, Zenon DEF BeginStart, Dispatching
  <2>2. cancelled' \in BOOLEAN /\ hasty' \in BOOLEAN
    BY <1>1, Zenon DEF BeginStart, Dispatching
  <2>3. QED BY <1>1, <2>1, <2>2 DEF BeginStart, Dispatching
<1>2. CASE BeginStopStarting
  BY <1>2 DEF BeginStopStarting, Dispatching
<1>3. CASE BeginStop
  BY <1>3 DEF BeginStop, Dispatching
<1>4. CASE CloseWindow
  BY <1>4 DEF CloseWindow, Dispatching, WindowClosesSession
<1>5. CASE Launch
  <2>1. ~ starting' /\ ~ stopping' /\ ~ closing' /\ ~ session' /\ ~ canCancel'
        /\ ~ cancelled' /\ ~ rootDone' /\ ~ handle' /\ ~ capturing' /\ ~ proxy' /\ ~ installed'
        /\ ~ restoreFailed' /\ ~ hasty' /\ ~ closedInStart' /\ ~ edited'
    BY <1>5, Zenon DEF Launch
  <2>2. starting' \in BOOLEAN /\ stopping' \in BOOLEAN /\ closing' \in BOOLEAN
        /\ session' \in BOOLEAN /\ canCancel' \in BOOLEAN /\ cancelled' \in BOOLEAN
        /\ rootDone' \in BOOLEAN /\ handle' \in BOOLEAN /\ capturing' \in BOOLEAN
        /\ proxy' \in BOOLEAN /\ installed' \in BOOLEAN /\ restoreFailed' \in BOOLEAN
        /\ hasty' \in BOOLEAN /\ closedInStart' \in BOOLEAN /\ edited' \in BOOLEAN
    BY <1>5, Zenon DEF Launch
  <2>3. QED BY <1>5, <2>1, <2>2 DEF Launch
<1>6. CASE UserEdits
  BY <1>6 DEF UserEdits
<1>7. QED BY <1>1, <1>2, <1>3, <1>4, <1>5, <1>6 DEF User

(* What the window's thread does with results and with its own end.          *)
LEMMA WindowSteps == ASSUME IInv, Window PROVE IInv'
<1> USE DEF IInv, Fields, UiFollows, CloseOrder, StartOrder, PacOwned, CancelledLate, WindowOrder,
        Undisturbed, SnapshotValid, Clean, Built, uiVars, ctxVars, procVars, rtVars, userVars
<1>1. CASE FinishStart
  <2>1. ~ starting' /\ ~ stopping' /\ ~ canCancel'
    BY <1>1, Zenon DEF FinishStart, Dispatching, StoppingAfterStart
  <2>2. starting' \in BOOLEAN /\ stopping' \in BOOLEAN /\ canCancel' \in BOOLEAN
    BY <1>1, Zenon DEF FinishStart, Dispatching, StoppingAfterStart
  <2>3. QED BY <1>1, <2>1, <2>2 DEF FinishStart, Dispatching, StoppingAfterStart
<1>2. CASE FinishStop
  <2>1. ~ session' /\ ~ stopping'
    BY <1>2, Zenon DEF FinishStop, Dispatching
  <2>2. session' \in BOOLEAN /\ stopping' \in BOOLEAN
    BY <1>2, Zenon DEF FinishStop, Dispatching
  <2>3. QED BY <1>2, <2>1, <2>2 DEF FinishStop, Dispatching
<1>3. CASE DestroyWindow
  BY <1>3 DEF DestroyWindow, WindowClosesSession
<1>4. CASE ProcessExits
  <2>1. ~ handle' /\ ~ capturing' /\ ~ proxy'
    BY <1>4, Zenon DEF ProcessExits, ProcessGone
  <2>2. handle' \in BOOLEAN /\ capturing' \in BOOLEAN /\ proxy' \in BOOLEAN
    BY <1>4, Zenon DEF ProcessExits, ProcessGone
  <2>3. QED BY <1>4, <2>1, <2>2 DEF ProcessExits, ProcessGone
<1>5. QED BY <1>1, <1>2, <1>3, <1>4 DEF Window

(* The lines of app.Start and of the goroutine around it.                    *)
LEMMA StarterSteps == ASSUME IInv, Starter PROVE IInv'
<1> USE DEF IInv, Fields, UiFollows, CloseOrder, StartOrder, PacOwned, CancelledLate, WindowOrder,
        Undisturbed, SnapshotValid, Clean, Built, uiVars, ctxVars, procVars, rtVars, userVars
<1>1. CASE StartLoad
  BY <1>1 DEF StartLoad, Starting
<1>2. CASE StartEngine
  <2>1. starter = "engine" /\ process = "running"
        /\ UNCHANGED <<procVars, userVars, uiVars, ctxVars, startResult, stopper,
                       proxy, installed, pac, restoreFailed>>
    BY <1>2 DEF StartEngine, Starting
  <2>2. CASE /\ handle' = TRUE /\ capturing' = TRUE /\ closePc' = "open"
             /\ starter' \in {"proxy", "check"}
    BY <2>1, <2>2
  <2>3. CASE starter' = "err" /\ UNCHANGED <<handle, capturing, closePc>>
    BY <2>1, <2>3
  <2>4. QED BY <1>2, <2>2, <2>3 DEF StartEngine
<1>3. CASE StartProxy
  BY <1>3 DEF StartProxy, Starting
<1>4. CASE ReadSnapshot
  <2>1. ~ edited'
    BY <1>4, Zenon DEF ReadSnapshot, Starting, RefusesPac
  <2>2. edited' \in BOOLEAN
    BY <1>4, Zenon DEF ReadSnapshot, Starting, RefusesPac
  <2>3. QED BY <1>4, <2>1, <2>2 DEF ReadSnapshot, Starting, RefusesPac
<1>5. CASE SetPac
  <2>1. starter = "setPac" /\ process = "running" /\ starter' = "check"
        /\ UNCHANGED <<procVars, userVars, uiVars, ctxVars, startResult, stopper, closePc,
                       handle, capturing>>
    BY <1>5 DEF SetPac, Starting
  <2>2. CASE pac' = "ours" /\ installed' = TRUE /\ restoreFailed' = FALSE /\ proxy' = proxy
    <3>1. installed' /\ ~ restoreFailed' /\ installed' \in BOOLEAN /\ restoreFailed' \in BOOLEAN
      BY <2>2, Zenon
    <3>2. QED BY <2>1, <2>2, <3>1
  <2>3. CASE proxy' = FALSE /\ UNCHANGED <<pac, installed, restoreFailed>>
    <3>1. ~ proxy' /\ proxy' \in BOOLEAN
      BY <2>3, Zenon
    <3>2. QED BY <2>1, <2>3, <3>1
  <2>4. QED BY <1>5, <2>2, <2>3 DEF SetPac
<1>6. CASE LastCheck
  BY <1>6 DEF LastCheck, Starting, AfterLastCheck
<1>7. CASE RootCheck
  BY <1>7 DEF RootCheck, Starting
<1>8. CASE Aborted
  BY <1>8 DEF Aborted, Starting
<1>9. CASE SendResult
  BY <1>9 DEF SendResult, ReadyToSend, CancelsAfter
<1>10. QED BY <1>1, <1>2, <1>3, <1>4, <1>5, <1>6, <1>7, <1>8, <1>9 DEF Starter

(* Session.Close, on whichever goroutine it runs.                            *)
LEMMA CloserSteps == ASSUME IInv, Closer PROVE IInv'
<1> USE DEF IInv, Fields, UiFollows, CloseOrder, StartOrder, PacOwned, CancelledLate, WindowOrder,
        Undisturbed, SnapshotValid, Clean, Built, uiVars, ctxVars, procVars, rtVars, userVars
<1>1. CASE CloseRestoresPac
  <2>1. closePc = "restore" /\ process = "running" /\ closePc' = "proxy"
        /\ UNCHANGED <<procVars, userVars, uiVars, ctxVars, starter, startResult, stopper,
                       handle, capturing, proxy>>
    BY <1>1 DEF CloseRestoresPac, Closing
  <2>2. ~ installed' /\ installed' \in BOOLEAN
    BY <1>1, Zenon DEF CloseRestoresPac
  <2>3. CASE ~ installed /\ UNCHANGED <<pac, restoreFailed>>
    BY <2>1, <2>2, <2>3
  <2>4. CASE installed /\ pac' = "none" /\ UNCHANGED restoreFailed
    BY <2>1, <2>2, <2>4
  <2>5. CASE installed /\ restoreFailed' = TRUE /\ UNCHANGED pac
    <3>1. restoreFailed' /\ restoreFailed' \in BOOLEAN
      BY <2>5, Zenon
    <3>2. QED BY <2>1, <2>2, <2>5, <3>1
  <2>6. QED BY <1>1, <2>3, <2>4, <2>5 DEF CloseRestoresPac
<1>2. CASE CloseProxy
  <2>1. ~ proxy'
    BY <1>2, Zenon DEF CloseProxy, Closing
  <2>2. proxy' \in BOOLEAN
    BY <1>2, Zenon DEF CloseProxy, Closing
  <2>3. QED BY <1>2, <2>1, <2>2 DEF CloseProxy, Closing
<1>3. CASE CloseRunner
  <2>1. ~ handle' /\ ~ capturing'
    BY <1>3, Zenon DEF CloseRunner, Closing
  <2>2. handle' \in BOOLEAN /\ capturing' \in BOOLEAN
    BY <1>3, Zenon DEF CloseRunner, Closing
  <2>3. QED BY <1>3, <2>1, <2>2 DEF CloseRunner, Closing
<1>4. CASE StopperDone
  BY <1>4 DEF StopperDone
<1>5. QED BY <1>1, <1>2, <1>3, <1>4 DEF Closer

(* The context's watchers, and the end of the process at any moment.          *)
LEMMA OtherSteps ==
    ASSUME IInv, ProxyWatcher \/ CaptureReturns \/ Crash \/ Over \/ UNCHANGED vars
    PROVE  IInv'
<1> USE DEF IInv, Fields, UiFollows, CloseOrder, StartOrder, PacOwned, CancelledLate, WindowOrder,
        Undisturbed, SnapshotValid, Clean, Built, uiVars, ctxVars, procVars, rtVars, userVars
<1>1. CASE ProxyWatcher
  <2>1. ~ proxy'
    BY <1>1, Zenon DEF ProxyWatcher
  <2>2. proxy' \in BOOLEAN
    BY <1>1, Zenon DEF ProxyWatcher
  <2>3. QED BY <1>1, <2>1, <2>2 DEF ProxyWatcher
<1>2. CASE CaptureReturns
  <2>1. ~ capturing'
    BY <1>2, Zenon DEF CaptureReturns
  <2>2. capturing' \in BOOLEAN
    BY <1>2, Zenon DEF CaptureReturns
  <2>3. QED BY <1>2, <2>1, <2>2 DEF CaptureReturns
<1>3. CASE Crash
  <2>1. ~ handle' /\ ~ capturing' /\ ~ proxy'
    BY <1>3, Zenon DEF Crash, ProcessGone
  <2>2. handle' \in BOOLEAN /\ capturing' \in BOOLEAN /\ proxy' \in BOOLEAN
    BY <1>3, Zenon DEF Crash, ProcessGone
  <2>3. QED BY <1>3, <2>1, <2>2 DEF Crash, ProcessGone
<1>4. CASE UNCHANGED vars
  BY <1>4 DEF vars
<1>5. QED BY <1>1, <1>2, <1>3, <1>4 DEF Over

(* The invariant of the window, the session and the PAC holds in every behaviour. *)
THEOREM InductiveInvariant == Spec => []IInv
<1>1. IInv /\ [Next]_vars => IInv'
  BY UserSteps, WindowSteps, StarterSteps, CloserSteps, OtherSteps DEF Next
<1>2. QED BY <1>1, InitInv, PTL DEF Spec

----------------------------------------------------------------------------
(* The window never says "disconnected", and never offers Start, while any    *)
(* part of an earlier runtime is left or could still appear.                  *)
THEOREM CleanWhenDisconnected == Spec => []DisconnectedIsClean
<1>1. IInv => DisconnectedIsClean
  BY DEF IInv, Fields, UiFollows, StartOrder, PacOwned, Clean, Dispatching, StarterBusy,
     DisconnectedIsClean
<1>2. QED BY <1>1, InductiveInvariant, PTL

(* The browser is never pointed at a proxy that has gone, unless a start was  *)
(* interrupted or the registry could not be written.                         *)
THEOREM PacHasProxy == Spec => []PacPointsAtProxy
<1>1. IInv => PacPointsAtProxy
  BY DEF IInv, Fields, PacOwned, Undisturbed, PacPointsAtProxy
<1>2. QED BY <1>1, InductiveInvariant, PTL

(* After a start nobody interrupted, "connected" means a live session.       *)
THEOREM ConnectedAfterOrderlyStart == Spec => []OrderlyStartIsLive
<1>1. IInv => OrderlyStartIsLive
  BY DEF IInv, Fields, UiFollows, CloseOrder, CancelledLate, Undisturbed, Built, Dispatching,
     ConnectedIsLive, OrderlyStartIsLive
<1>2. QED BY <1>1, InductiveInvariant, PTL

(* Closing the window leaves no PAC of this process in the registry, unless    *)
(* it is closed before a start's result is handled or Restore fails.          *)
THEOREM ClosingRestores == Spec => []WindowCloseRestores
<1>1. IInv => WindowCloseRestores
  BY DEF IInv, Fields, PacOwned, WindowOrder, WindowCloseRestores
<1>2. QED BY <1>1, InductiveInvariant, PTL

(* A PAC the user had when the settings were read is never replaced.         *)
THEOREM UserPacNeverReplaced == Spec => UserPacKept
<1> DEFINE Kept == pac = "user" /\ ~ edited => pac' # "ours"
<1>1. ASSUME IInv, Next PROVE Kept
  <2>1. SUFFICES ASSUME pac = "user", pac' = "ours" PROVE edited
    OBVIOUS
  <2>2. SetPac
    BY <1>1, <2>1 DEF Next, User, Window, Starter, Closer, Over, vars, rtVars,
       BeginStart, BeginStopStarting, BeginStop, CloseWindow, Launch, UserEdits,
       FinishStart, FinishStop, DestroyWindow, ProcessExits, Crash, ProcessGone,
       StartLoad, StartEngine, StartProxy, ReadSnapshot, LastCheck, RootCheck, Aborted, SendResult,
       CloseRestoresPac, CloseProxy, CloseRunner, StopperDone, ProxyWatcher, CaptureReturns
  <2>3. QED BY <1>1, <2>1, <2>2 DEF SetPac, Starting, IInv, SnapshotValid
<1>2. IInv /\ [Next]_vars => [Kept]_vars
  BY <1>1
<1>3. QED BY <1>2, InductiveInvariant, PTL DEF Spec, UserPacKept

----------------------------------------------------------------------------
(* The log.                                                                 *)

Underway == posted > 0 \/ writer = "post" \/ ui = "post"

(* A set notified flag stands for a wake-up that has not been consumed.      *)
NotifiedUnderway == notified => Underway

Flags ==
    /\ posted \in Nat
    /\ notify \in BOOLEAN /\ notified \in BOOLEAN /\ resync \in BOOLEAN

LogInv == Flags /\ NotifiedUnderway /\ WakeUpUnderway

(* An empty hub has no wake-up to owe.                                       *)
LEMMA LogInitInv == LogInit => LogInv
<1> SUFFICES ASSUME LogInit PROVE LogInv
  OBVIOUS
<1>1. posted \in Nat
  BY DEF LogInit
<1>2. ~ notify /\ ~ notified /\ notify \in BOOLEAN /\ notified \in BOOLEAN /\ resync \in BOOLEAN
  BY Zenon DEF LogInit
<1>3. QED
  BY <1>1, <1>2, Zenon DEF LogInv, Flags, NotifiedUnderway, WakeUpUnderway

(* Each operation of Ring and each step of the window keeps the invariant.   *)
LEMMA LogStepInv == LogInv /\ [LogNext]_logVars => LogInv'
<1> SUFFICES ASSUME LogInv, [LogNext]_logVars PROVE LogInv'
  OBVIOUS
<1> USE DEF LogInv, Flags, NotifiedUnderway, WakeUpUnderway, Underway
<1>1. ASSUME NEW k \in 1 .. MaxWrite, Write(k) PROVE LogInv'
  <2>1. posted' = posted /\ notify' = notify /\ ui' = ui /\ notified' = (notified \/ notify)
    BY <1>1 DEF Write
  <2>2. writer = "idle" /\ writer' = IF notify /\ ~ notified THEN "post" ELSE "idle"
    BY <1>1 DEF Write
  <2>3. resync' = (resync \/ Overflows(k))
    BY <1>1 DEF Write
  <2>4. resync' \in BOOLEAN
    BY <2>3
  <2>5. notified' \in BOOLEAN
    BY <2>1
  <2>6. notify => Underway'
    BY <2>1, <2>2
  <2>7. notified => Underway'
    BY <2>1, <2>2
  <2>8. QED BY <2>1, <2>4, <2>5, <2>6, <2>7
<1>2. CASE WriterPosts
  BY <1>2 DEF WriterPosts, ringVars
<1>3. CASE CreateControls
  BY <1>3 DEF CreateControls, ringVars
<1>4. CASE SetNotify
  BY <1>4 DEF SetNotify, WakesAtOnce
<1>5. CASE SetNotifyPosts
  BY <1>5 DEF SetNotifyPosts, ringVars
<1>6. CASE DrainAndAck
  <2>1. posted' \in Nat
    BY <1>6 DEF DrainAndAck
  <2>2. ~ notified' /\ notified' \in BOOLEAN /\ ~ resync' /\ resync' \in BOOLEAN
        /\ pending' = <<>> /\ notify' = notify
    BY <1>6, Zenon DEF DrainAndAck, Rearmed
  <2>3. QED BY <2>1, <2>2, Zenon
<1>7. CASE Show
  BY <1>7 DEF Show, ringVars
<1>8. CASE ClearLog
  <2>1. posted' = posted
    BY <1>8 DEF ClearLog
  <2>2. ~ notified' /\ notified' \in BOOLEAN /\ ~ resync' /\ resync' \in BOOLEAN
        /\ pending' = <<>> /\ notify' = notify
    BY <1>8, Zenon DEF ClearLog, PendingAfterClear
  <2>3. QED BY <2>1, <2>2, Zenon
<1>9. CASE ClearShown
  BY <1>9 DEF ClearShown, ringVars
<1>10. CASE Quiet
  BY <1>10 DEF Quiet, logVars, ringVars
<1>11. CASE UNCHANGED logVars
  BY <1>11 DEF logVars, ringVars
<1>12. QED
  BY <1>1, <1>2, <1>3, <1>4, <1>5, <1>6, <1>7, <1>8, <1>9, <1>10, <1>11 DEF LogNext, Ui

(* Whenever the window has log text to fetch, a wmAppLog is queued or about  *)
(* to be posted by Write or SetNotify.                                       *)
THEOREM WakeUpUnderwayAlways == LogSpec => []WakeUpUnderway
<1>1. LogInit => LogInv
  BY LogInitInv
<1>2. LogInv /\ [LogNext]_logVars => LogInv'
  BY LogStepInv
<1>3. LogInv => WakeUpUnderway
  BY DEF LogInv
<1>4. QED
  BY <1>1, <1>2, <1>3, PTL DEF LogSpec

----------------------------------------------------------------------------
(* The text itself.  Every text of the ring and the window is the end of the   *)
(* log at some moment; EndsAt says so unit by unit.                           *)
EndsAt(s, w) == \A i \in 1 .. Len(s) : s[i] = w - Len(s) + i

(* A text that ends at unit w is the units up to w.                          *)
LEMMA EndsAtUnits ==
    ASSUME NEW s \in Seq(Int), NEW w \in Int
    PROVE  EndsAt(s, w) <=> s = Units(w - Len(s), w)
<1> DEFINE u == Units(w - Len(s), w)
<1>1. Len(s) \in Nat /\ s = [i \in 1 .. Len(s) |-> s[i]]
  OBVIOUS
<1>2. u = [i \in 1 .. Len(s) |-> w - Len(s) + i]
  BY <1>1 DEF Units
<1>3. ASSUME EndsAt(s, w) PROVE s = u
  BY <1>1, <1>2, <1>3 DEF EndsAt
<1>4. ASSUME s = u PROVE EndsAt(s, w)
  BY <1>1, <1>2, <1>4 DEF EndsAt
<1>5. QED BY <1>3, <1>4

(* A write is the next k units.                                              *)
LEMMA WriteUnits ==
    ASSUME NEW w \in Nat, NEW k \in Nat
    PROVE  /\ Units(w, w + k) \in Seq(Int) /\ Len(Units(w, w + k)) = k
           /\ \A i \in 1 .. k : Units(w, w + k)[i] = w + i
<1>1. Units(w, w + k) = [i \in 1 .. k |-> w + i]
  BY DEF Units
<1>2. [i \in 1 .. k |-> w + i] \in Seq(Int) /\ Len([i \in 1 .. k |-> w + i]) = k
  OBVIOUS
<1>3. QED BY <1>1, <1>2

(* Where the units of two joined texts are.                                  *)
LEMMA Joined ==
    ASSUME NEW s \in Seq(Int), NEW t \in Seq(Int)
    PROVE  /\ s \o t \in Seq(Int) /\ Len(s \o t) = Len(s) + Len(t)
           /\ \A i \in 1 .. Len(s) : (s \o t)[i] = s[i]
           /\ \A i \in 1 .. Len(t) : (s \o t)[Len(s) + i] = t[i]
  OBVIOUS

(* Appending the units of a Write to the end of the log gives the end of the new log. *)
LEMMA Appended ==
    ASSUME NEW s \in Seq(Int), NEW w \in Nat, NEW k \in Nat, EndsAt(s, w)
    PROVE  /\ s \o Units(w, w + k) \in Seq(Int) /\ EndsAt(s \o Units(w, w + k), w + k)
           /\ Len(s \o Units(w, w + k)) = Len(s) + k
<1> DEFINE p == Units(w, w + k)
           t == s \o p
<1>1. p \in Seq(Int) /\ Len(p) = k /\ \A i \in 1 .. k : p[i] = w + i
  BY WriteUnits
<1> HIDE DEF p
<1>a. t \in Seq(Int) /\ Len(t) = Len(s) + Len(p) /\ (\A i \in 1 .. Len(s) : t[i] = s[i])
      /\ (\A i \in 1 .. Len(p) : t[Len(s) + i] = p[i])
  BY <1>1, Joined, Zenon
<1>2. t \in Seq(Int) /\ Len(t) = Len(s) + k /\ Len(s) \in Nat
      /\ (\A i \in 1 .. Len(s) : t[i] = s[i]) /\ (\A i \in 1 .. k : t[Len(s) + i] = p[i])
  <2>1. Len(s) \in Nat
    OBVIOUS
  <2>2. QED BY <1>1, <1>a, <2>1, Zenon
<1> HIDE DEF t
<1>3. ASSUME NEW i \in 1 .. Len(t) PROVE t[i] = w + k - Len(t) + i
  <2>1. CASE i <= Len(s)
    <3>1. t[i] = s[i] /\ i \in 1 .. Len(s)
      BY <1>1, <1>2, <2>1
    <3>2. QED BY <1>2, <3>1 DEF EndsAt
  <2>2. CASE i > Len(s)
    <3>1. i - Len(s) \in 1 .. k /\ Len(s) + (i - Len(s)) = i
      BY <1>2, <2>2
    <3>a. t[i] = p[i - Len(s)]
      BY <1>2, <3>1
    <3>2. QED BY <1>1, <1>2, <3>1, <3>a
  <2>3. QED BY <1>2, <2>1, <2>2
<1>4. QED BY <1>2, <1>3 DEF EndsAt, p, t

(* Cutting off the oldest units leaves an end of the log.                     *)
LEMMA Trimmed ==
    ASSUME NEW s \in Seq(Int), NEW w \in Nat, NEW n \in Nat \ {0}, EndsAt(s, w)
    PROVE  /\ LastUnits(s, n) \in Seq(Int) /\ EndsAt(LastUnits(s, n), w)
           /\ Len(LastUnits(s, n)) = IF Len(s) <= n THEN Len(s) ELSE n
<1>1. CASE Len(s) <= n
  BY <1>1 DEF LastUnits
<1>2. CASE Len(s) > n
  <2> DEFINE t == SubSeq(s, Len(s) - n + 1, Len(s))
  <2>1. LastUnits(s, n) = t
    BY <1>2 DEF LastUnits
  <2>2. t \in Seq(Int) /\ Len(t) = n /\ \A i \in 1 .. n : t[i] = s[Len(s) - n + i]
    BY <1>2
  <2>3. \A i \in 1 .. n : t[i] = w - n + i
    BY <1>2, <2>2 DEF EndsAt
  <2>4. QED BY <1>2, <2>1, <2>2, <2>3 DEF EndsAt
<1>3. QED BY <1>1, <1>2

(* A text c that is to be shown and the delta p: the end of the log at w, all   *)
(* since a Clear at v or at least maxBytes.                                  *)
Enough(n, w, v) == n <= w - v /\ (n = w - v \/ n >= MaxBytes)
Good(c, p, w, v) == EndsAt(c \o p, w) /\ Enough(Len(c) + Len(p), w, v)

(* A screen and its pending text are good when joined they are the last of    *)
(* the log: all since it was cleared, or at least a ring full.               *)
LEMMA GoodText ==
    ASSUME NEW c \in Seq(Int), NEW p \in Seq(Int), NEW w \in Nat, NEW v \in Nat
    PROVE  Good(c, p, w, v) <=> /\ c \o p = Units(w - Len(c \o p), w)
                                /\ Len(c \o p) <= w - v
                                /\ Len(c \o p) = w - v \/ Len(c \o p) >= MaxBytes
<1>1. c \o p \in Seq(Int) /\ Len(c \o p) = Len(c) + Len(p)
  BY Joined
<1>2. EndsAt(c \o p, w) <=> c \o p = Units(w - Len(c \o p), w)
  <2>1. w \in Int
    OBVIOUS
  <2>2. QED BY <1>1, <2>1, EndsAtUnits, Zenon
<1>3. QED BY <1>1, <1>2 DEF Good, Enough

(* A write adds to the delta; a drain moves the delta; nothing else matters.   *)
LEMMA GoodAppend ==
    ASSUME NEW c \in Seq(Int), NEW p \in Seq(Int), NEW w \in Nat, NEW v \in 0 .. w, NEW k \in Nat,
           MaxBytes \in Nat, Good(c, p, w, v)
    PROVE  p \o Units(w, w + k) \in Seq(Int) /\ Good(c, p \o Units(w, w + k), w + k, v)
<1>0. PICK u : u = Units(w, w + k)
  OBVIOUS
<1>1. u \in Seq(Int) /\ Len(u) = k
  BY <1>0, WriteUnits
<1>2. c \o p \in Seq(Int) /\ EndsAt(c \o p, w)
  BY Joined DEF Good
<1>3. EndsAt((c \o p) \o u, w + k)
  BY <1>0, <1>2, Appended
<1>4. (c \o p) \o u = c \o (p \o u)
  BY <1>1, ConcatAssociative
<1>5. p \o u \in Seq(Int) /\ Len(p \o u) = Len(p) + k /\ Len(p) \in Nat /\ Len(c) \in Nat
  <2>1. Len(p) \in Nat /\ Len(c) \in Nat
    OBVIOUS
  <2>2. p \o u \in Seq(Int) /\ Len(p \o u) = Len(p) + Len(u)
    BY <1>1, Joined, Zenon
  <2>3. QED BY <1>1, <2>1, <2>2, Zenon
<1>6. Enough(Len(c) + Len(p \o u), w + k, v)
  <2>1. ASSUME NEW a \in Nat, NEW b \in Nat, Enough(a + b, w, v) PROVE Enough(a + (b + k), w + k, v)
    BY <2>1 DEF Enough
  <2>2. Enough(Len(c) + Len(p), w, v)
    BY DEF Good
  <2>3. QED BY <1>5, <2>1, <2>2, Zenon
<1>7. QED BY <1>0, <1>3, <1>4, <1>5, <1>6 DEF Good

(* Pending text that has been appended is as good on the screen.             *)
LEMMA GoodMoved ==
    ASSUME NEW c \in Seq(Int), NEW p \in Seq(Int), NEW w \in Nat, NEW v \in 0 .. w, Good(c, p, w, v)
    PROVE  Good(c \o p, <<>>, w, v)
<1>1. c \o p \in Seq(Int) /\ Len(c \o p) = Len(c) + Len(p)
  BY Joined
<1>2. (c \o p) \o <<>> = c \o p /\ Len(<<>>) = 0
  BY <1>1, ConcatEmptySeq
<1>3. QED BY <1>1, <1>2 DEF Good

(* A prefix of the delta leaves one stretch of the log.                      *)
LEMMA PrefixEnds ==
    ASSUME NEW c \in Seq(Int), NEW p \in Seq(Int), NEW w \in Nat, NEW n \in 0 .. Len(p),
           EndsAt(c \o p, w), NEW q \in Seq(Int), Len(q) = n, \A i \in 1 .. n : q[i] = p[i]
    PROVE  EndsAt(c \o q, w - Len(p) + n)
<1>1. Len(c) \in Nat /\ Len(p) \in Nat /\ n \in Nat
  OBVIOUS
<1>2. /\ c \o p \in Seq(Int) /\ Len(c \o p) = Len(c) + Len(p)
      /\ \A i \in 1 .. Len(c) : (c \o p)[i] = c[i]
      /\ \A i \in 1 .. Len(p) : (c \o p)[Len(c) + i] = p[i]
  BY Joined
<1>3. /\ Len(c \o q) = Len(c) + n
      /\ \A i \in 1 .. Len(c) : (c \o q)[i] = c[i]
      /\ \A i \in 1 .. n : (c \o q)[Len(c) + i] = q[i]
  BY Joined
<1> DEFINE t == c \o p
           u == c \o q
<1>4. \A i \in 1 .. Len(t) : t[i] = w - Len(t) + i
  BY DEF EndsAt
<1>5. ASSUME NEW i \in 1 .. Len(u) PROVE u[i] = w - Len(p) + n - Len(u) + i
  <2> HIDE DEF t, u
  <2>1. Len(t) = Len(c) + Len(p) /\ Len(u) = Len(c) + n
    BY <1>2, <1>3 DEF t, u
  <2>2. CASE i <= Len(c)
    <3>1. i \in 1 .. Len(c) /\ i \in 1 .. Len(t)
      BY <1>1, <2>1, <2>2
    <3>2. u[i] = t[i]
      BY <1>2, <1>3, <3>1 DEF t, u
    <3>3. QED BY <1>1, <1>4, <2>1, <3>1, <3>2
  <2>3. CASE i > Len(c)
    <3>1. PICK j \in 1 .. n : i = Len(c) + j
      <4>1. i - Len(c) \in 1 .. n /\ i = Len(c) + (i - Len(c))
        BY <1>1, <2>1, <2>3
      <4>2. QED BY <4>1
    <3>2. j \in 1 .. Len(p) /\ i \in 1 .. Len(t)
      BY <1>1, <2>1, <3>1
    <3>3. u[i] = t[i]
      BY <1>2, <1>3, <3>1, <3>2 DEF t, u
    <3>4. QED BY <1>1, <1>4, <2>1, <3>2, <3>3
  <2>4. QED BY <1>1, <2>1, <2>2, <2>3
<1>6. QED BY <1>5 DEF EndsAt

Texts ==
    /\ written \in Nat /\ cleared \in 0 .. written
    /\ buf \in Seq(Int) /\ pending \in Seq(Int) /\ shown \in Seq(Int) /\ drain.text \in Seq(Int)
    /\ ui \in {"create", "register", "post", "idle", "drained", "clearing"}

History == EndsAt(buf, written) /\ Enough(Len(buf), written, cleared)

(* Nothing is drained or cleared before the window is there.                  *)
NothingDrained == ui \in {"create", "register", "post"} => resync /\ ~ cut

(* A text is a stretch of the log, of what was not cleared.                  *)
Stretch(c, w, v) == \E end \in v .. w : EndsAt(c, end) /\ Len(c) <= end - v

(* The control has dropped text only once it was full; otherwise it follows.  *)
Screen ==
    /\ Stretch(Coming, written, cleared)
    /\ Dropping => Len(Coming) >= EditLimit
    /\ ~ resync /\ ~ Dropping => Good(Coming, pending, written, cleared)

TextInv == Texts /\ History /\ NothingDrained /\ Screen

(* The end of the log is a stretch of it.                                    *)
LEMMA EndIsStretch ==
    ASSUME NEW c \in Seq(Int), NEW w \in Nat, NEW v \in 0 .. w, EndsAt(c, w), Enough(Len(c), w, v)
    PROVE  Stretch(c, w, v)
<1>1. w \in v .. w /\ Len(c) <= w - v
  BY DEF Enough
<1>2. QED BY <1>1 DEF Stretch

(* What is to be shown is a text.                                            *)
LEMMA ComingText == ASSUME Texts PROVE Coming \in Seq(Int) /\ Inserted \in Seq(Int)
<1>1. drain.text \in Seq(Int) /\ shown \in Seq(Int) /\ EditLimit \in Nat
  BY RingAssumption DEF Texts
<1>2. Room \in Int
  BY <1>1 DEF Room
<1>3. Inserted \in Seq(Int)
  BY <1>1, <1>2 DEF Inserted, Fits
<1>4. shown \o Inserted \in Seq(Int)
  BY <1>1, <1>3, Joined
<1>5. QED BY <1>1, <1>3, <1>4 DEF Coming

(* The invariant says of the edit control what NoGapNoRepeat says.           *)
LEMMA ScreenGood == TextInv => NoGapNoRepeat
<1> SUFFICES ASSUME TextInv PROVE NoGapNoRepeat
  OBVIOUS
<1>1. Coming \in Seq(Int) /\ pending \in Seq(Int) /\ written \in Nat /\ cleared \in Nat
  BY ComingText DEF TextInv, Texts
<1>2. PICK c : c = Coming
  OBVIOUS
<1>3. PICK end \in cleared .. written : EndsAt(c, end) /\ Len(c) <= end - cleared
  BY <1>2 DEF TextInv, Screen, Stretch
<1>4. c = Units(end - Len(c), end)
  <2>1. end \in Int
    BY <1>1
  <2>2. QED BY <1>1, <1>2, <1>3, <2>1, EndsAtUnits
<1>5. Dropping => Len(c) >= EditLimit
  BY <1>2 DEF TextInv, Screen
<1>6. ASSUME ~ resync, ~ Dropping
      PROVE  /\ c \o pending = Units(written - Len(c \o pending), written)
             /\ Len(c \o pending) <= written - cleared
             /\ Len(c \o pending) = written - cleared \/ Len(c \o pending) >= MaxBytes
  <2>1. Good(c, pending, written, cleared)
    BY <1>2, <1>6 DEF TextInv, Screen
  <2>2. QED BY <1>1, <1>2, <2>1, GoodText
<1>7. QED BY <1>2, <1>3, <1>4, <1>5, <1>6, Zenon DEF NoGapNoRepeat

(* An empty log on an empty screen.                                          *)
LEMMA TextInit == LogInit => TextInv
<1> SUFFICES ASSUME LogInit PROVE TextInv
  OBVIOUS
<1>1. written \in Nat /\ buf = Units(0, 0 + written) /\ cleared = 0 /\ Coming = <<>>
  BY DEF LogInit, Coming
<1>2. buf \in Seq(Int) /\ Len(buf) = written /\ \A i \in 1 .. written : buf[i] = 0 + i
  BY <1>1, WriteUnits
<1>3. Texts
  BY <1>1, <1>2 DEF LogInit, Texts, NoDrain
<1>4. History
  BY <1>1, <1>2, RingAssumption DEF LogInit, History, EndsAt, Enough
<1>5. resync /\ ~ cut /\ ~ Dropping
  BY Zenon DEF LogInit, Dropping
<1>6. Stretch(<<>>, written, cleared)
  BY <1>1 DEF Stretch, EndsAt
<1>7. QED BY <1>1, <1>3, <1>4, <1>5, <1>6 DEF TextInv, NothingDrained, Screen

(* Steps that leave the log, the history and what is to come alone.           *)
LEMMA TextSame ==
    ASSUME TextInv, Texts', Coming' = Coming, Dropping' = Dropping,
           UNCHANGED <<written, cleared, buf, pending, resync>>, NothingDrained'
    PROVE  TextInv'
<1>1. History'
  BY DEF TextInv, History
<1>2. Screen'
  BY DEF TextInv, Screen
<1>3. QED BY <1>1, <1>2 DEF TextInv

(* Write, with the ring below or beyond its capacity.                        *)
LEMMA TextWrite ==
    ASSUME TextInv, NEW k \in 1 .. MaxWrite, Write(k) PROVE TextInv'
<1>0. PICK p : p = Units(written, written + k)
  OBVIOUS
<1>1. written \in Nat /\ k \in Nat /\ MaxBytes \in Nat \ {0} /\ cleared \in 0 .. written
      /\ buf \in Seq(Int) /\ pending \in Seq(Int) /\ EndsAt(buf, written)
      /\ Enough(Len(buf), written, cleared)
  BY RingAssumption DEF TextInv, Texts, History
<1>2. /\ written' = written + k /\ cleared' = cleared
      /\ buf' = LastUnits(buf \o p, MaxBytes)
      /\ pending' = IF resync THEN pending ELSE IF Overflows(k) THEN <<>> ELSE pending \o p
      /\ resync' = (resync \/ Overflows(k))
      /\ UNCHANGED <<ui, drain, shown, cut>>
  BY <1>0 DEF Write
<1>3. p \in Seq(Int) /\ Len(p) = k /\ written + k \in Nat
  BY <1>0, <1>1, WriteUnits
<1>4. buf \o p \in Seq(Int) /\ EndsAt(buf \o p, written + k) /\ Len(buf \o p) = Len(buf) + k
  BY <1>0, <1>1, Appended
<1>5. buf' \in Seq(Int) /\ EndsAt(buf', written')
      /\ Len(buf') = IF Len(buf) + k <= MaxBytes THEN Len(buf) + k ELSE MaxBytes
  <2>1. LastUnits(buf \o p, MaxBytes) \in Seq(Int) /\ EndsAt(LastUnits(buf \o p, MaxBytes), written + k)
        /\ Len(LastUnits(buf \o p, MaxBytes)) = IF Len(buf \o p) <= MaxBytes THEN Len(buf \o p) ELSE MaxBytes
    BY <1>1, <1>3, <1>4, Trimmed, Zenon
  <2>2. QED BY <1>2, <1>4, <2>1, Zenon
<1>6. pending' \in Seq(Int)
  BY <1>1, <1>2, <1>3, Joined
<1>7. Texts'
  BY <1>1, <1>2, <1>5, <1>6 DEF TextInv, Texts
<1>8. History'
  <2>1. Len(buf) \in Nat
    BY <1>1
  <2>2. ASSUME NEW n \in Nat, NEW w \in Nat, NEW v \in 0 .. w, Enough(n, w, v)
        PROVE  Enough(IF n + k <= MaxBytes THEN n + k ELSE MaxBytes, w + k, v)
    BY <1>1, <2>2 DEF Enough
  <2>a. Enough(Len(buf'), written', cleared')
    BY <1>1, <1>2, <1>5, <2>1, <2>2, Zenon
  <2>3. QED BY <1>5, <2>a DEF History
<1>9. NothingDrained'
  BY <1>2 DEF TextInv, NothingDrained
<1>10. Screen'
  <2>1. Coming' = Coming /\ Dropping' = Dropping /\ Coming \in Seq(Int)
    BY <1>2, ComingText DEF TextInv, Coming, Dropping, Inserted, Fits, Room
  <2>2. PICK c : c = Coming
    OBVIOUS
  <2>3. Stretch(c, written', cleared')
    <3>1. PICK end \in cleared .. written : EndsAt(c, end) /\ Len(c) <= end - cleared
      BY <2>2 DEF TextInv, Screen, Stretch
    <3>2. end \in cleared' .. written'
      BY <1>1, <1>2
    <3>3. QED BY <1>2, <3>1, <3>2 DEF Stretch
  <2>4. Dropping => Len(c) >= EditLimit
    BY <2>2 DEF TextInv, Screen
  <2>5. ASSUME ~ resync', ~ Dropping PROVE Good(c, pending', written', cleared')
    <3>1. ~ resync /\ pending' = pending \o p
      BY <1>2, <2>5
    <3>2. Good(c, pending, written, cleared)
      BY <2>2, <2>5, <3>1 DEF TextInv, Screen
    <3>3. Good(c, pending \o p, written + k, cleared)
      BY <1>0, <1>1, <2>1, <2>2, <3>2, GoodAppend
    <3>4. QED BY <1>2, <3>1, <3>3
  <2>6. QED BY <2>1, <2>2, <2>3, <2>4, <2>5 DEF Screen
<1>11. QED BY <1>7, <1>8, <1>9, <1>10 DEF TextInv

(* What a control with the text s inserts of p: all that fits.               *)
Inserts(s, p) == IF Len(p) <= EditLimit - Len(s) THEN p ELSE SubSeq(p, 1, EditLimit - Len(s))

(* What it shows then is a stretch of the log, full if something was dropped.  *)
LEMMA InsertStretch ==
    ASSUME NEW s \in Seq(Int), NEW p \in Seq(Int), NEW w \in Nat, NEW v \in 0 .. w, Good(s, p, w, v)
    PROVE  /\ Stretch(s \o Inserts(s, p), w, v)
           /\ Len(p) > EditLimit - Len(s) => Len(s \o Inserts(s, p)) >= EditLimit
<1>1. EditLimit \in Nat /\ MaxBytes \in Nat /\ Len(s) \in Nat /\ Len(p) \in Nat
  BY RingAssumption
<1> DEFINE room == EditLimit - Len(s)
           q == Inserts(s, p)
           n == IF Len(p) <= room THEN Len(p) ELSE IF room < 0 THEN 0 ELSE room
<1>2. room \in Int /\ n \in 0 .. Len(p)
  BY <1>1
<1>3. q \in Seq(Int) /\ Len(q) = n /\ \A i \in 1 .. n : q[i] = p[i]
  <2>1. CASE Len(p) <= room
    BY <1>1, <2>1 DEF Inserts
  <2>2. CASE Len(p) > room
    <3>1. q = SubSeq(p, 1, room)
      BY <1>1, <2>2 DEF Inserts
    <3>2. CASE room < 0
      <4>1. Len(q) = 0 /\ q \in Seq(Int) /\ n = 0
        BY <1>1, <1>2, <2>2, <3>1, <3>2
      <4>2. QED BY <4>1
    <3>3. CASE room >= 0
      <4>1. n = room /\ room \in 0 .. Len(p)
        BY <1>1, <1>2, <2>2, <3>3
      <4>2. QED BY <3>1, <4>1
    <3>4. QED BY <1>2, <3>2, <3>3
  <2>3. QED BY <1>1, <2>1, <2>2
<1>4. EndsAt(s \o p, w) /\ Len(s) + Len(p) <= w - v
  BY DEF Good, Enough
<1> HIDE DEF q, n, room
<1>5. EndsAt(s \o q, w - Len(p) + n)
  BY <1>2, <1>3, <1>4, PrefixEnds
<1>6. s \o q \in Seq(Int) /\ Len(s \o q) = Len(s) + n
  BY <1>3, Joined
<1>7. w - Len(p) + n \in v .. w /\ Len(s) + n <= w - Len(p) + n - v
  BY <1>1, <1>2, <1>4
<1>8. Stretch(s \o q, w, v)
  <2>1. PICK end : end = w - Len(p) + n
    OBVIOUS
  <2>2. end \in v .. w /\ Len(s) + n <= end - v
    BY <1>1, <1>2, <1>7, <2>1
  <2>3. EndsAt(s \o q, end)
    BY <1>5, <2>1, Zenon
  <2>4. Len(s \o q) <= end - v
    BY <1>6, <2>2, Zenon
  <2>5. QED BY <2>2, <2>3, <2>4, Zenon DEF Stretch
<1>9. Len(p) > EditLimit - Len(s) => Len(s) + n >= EditLimit
  BY <1>1 DEF n, room
<1>10. QED BY <1>6, <1>8, <1>9 DEF q

(* A full control inserts nothing.                                           *)
LEMMA FullInsertsNothing ==
    ASSUME NEW s \in Seq(Int), NEW p \in Seq(Int), Len(s) >= EditLimit
    PROVE  s \o Inserts(s, p) = s
<1>1. EditLimit \in Nat /\ Len(s) \in Nat /\ Len(p) \in Nat
  BY RingAssumption
<1> DEFINE room == EditLimit - Len(s)
           q == Inserts(s, p)
<1>2. room \in Int /\ room <= 0
  BY <1>1
<1>3. q \in Seq(Int) /\ Len(q) = 0
  <2>1. CASE Len(p) <= room
    BY <1>1, <1>2, <2>1 DEF Inserts
  <2>2. CASE Len(p) > room
    <3>1. q = SubSeq(p, 1, room)
      BY <1>1, <2>2 DEF Inserts
    <3>2. QED BY <1>1, <1>2, <3>1
  <2>3. QED BY <1>1, <2>1, <2>2
<1> HIDE DEF q
<1>4. q = <<>>
  BY <1>3
<1>5. QED BY <1>4, ConcatEmptySeq DEF q

(* Drained text is on its way to the control with nothing left behind.         *)
LEMMA TextDrain == ASSUME TextInv, DrainAndAck PROVE TextInv'
<1>1. written \in Nat /\ cleared \in 0 .. written /\ buf \in Seq(Int) /\ pending \in Seq(Int)
      /\ shown \in Seq(Int) /\ EndsAt(buf, written) /\ Enough(Len(buf), written, cleared)
  BY DEF TextInv, Texts, History
<1>2. /\ ui = "idle" /\ ui' = "drained" /\ pending' = <<>>
      /\ drain' = [text |-> IF resync THEN buf ELSE pending, replace |-> resync]
      /\ UNCHANGED <<written, cleared, buf, shown, cut>>
  BY DEF DrainAndAck, Drained
<1>3. drain'.text = (IF resync THEN buf ELSE pending) /\ drain'.replace = resync
  BY <1>2
<1>4. Texts'
  BY <1>2, <1>3 DEF TextInv, Texts
<1>5. History' /\ NothingDrained'
  BY <1>2 DEF TextInv, History, NothingDrained
<1>6. Coming = shown /\ Dropping = cut
  BY <1>2, Zenon DEF Coming, Dropping
<1>7. CASE resync
  <2>1. drain'.replace /\ drain'.text = buf
    BY <1>3, <1>7, Zenon
  <2>2. Coming' = buf
    BY <1>2, <2>1 DEF Coming
  <2>3. ~ Dropping'
    BY <1>2, <2>1, Zenon DEF Dropping
  <2>4. Stretch(buf, written, cleared)
    BY <1>1, EndIsStretch
  <2>5. Good(buf, <<>>, written, cleared)
    <3>1. buf \o <<>> = buf /\ Len(<<>>) = 0
      BY <1>1, ConcatEmptySeq
    <3>2. QED BY <1>1, <3>1 DEF Good
  <2>6. Screen'
    BY <1>2, <2>2, <2>3, <2>4, <2>5 DEF Screen
  <2>7. QED BY <1>4, <1>5, <2>6 DEF TextInv
<1>8. CASE ~ resync
  <2>1. ~ drain'.replace /\ drain'.text = pending
    BY <1>3, <1>8, Zenon
  <2>2. Coming' = shown \o Inserts(shown, pending)
    BY <1>2, <2>1 DEF Coming, Inserted, Fits, Room, Inserts
  <2>3. Dropping' <=> cut \/ Len(pending) > EditLimit - Len(shown)
    <3>1. Fits' <=> Len(pending) <= EditLimit - Len(shown)
      BY <1>2, <2>1 DEF Fits, Room
    <3>2. EditLimit \in Nat /\ Len(shown) \in Nat /\ Len(pending) \in Nat
      BY <1>1, RingAssumption
    <3>3. ~ Fits' <=> Len(pending) > EditLimit - Len(shown)
      BY <3>1, <3>2
    <3>4. Dropping' <=> cut' \/ ~ Fits'
      BY <1>2, <2>1, Zenon DEF Dropping
    <3>5. cut' <=> cut
      BY <1>2, Zenon
    <3>6. QED BY <3>3, <3>4, <3>5, Zenon
  <2>4. CASE cut
    <3>1. Len(shown) >= EditLimit /\ Stretch(shown, written, cleared)
      BY <1>6, <2>4 DEF TextInv, Screen
    <3>2. Coming' = shown
      BY <1>1, <2>2, <3>1, FullInsertsNothing
    <3>3. Dropping'
      BY <2>3, <2>4
    <3>4. Screen'
      BY <1>2, <3>1, <3>2, <3>3 DEF Screen
    <3>5. QED BY <1>4, <1>5, <3>4 DEF TextInv
  <2>5. CASE ~ cut
    <3>1. Good(shown, pending, written, cleared)
      BY <1>6, <1>8, <2>5 DEF TextInv, Screen
    <3>2. /\ Stretch(shown \o Inserts(shown, pending), written, cleared)
          /\ Len(pending) > EditLimit - Len(shown)
               => Len(shown \o Inserts(shown, pending)) >= EditLimit
      BY <1>1, <3>1, InsertStretch
    <3>3. ASSUME ~ Dropping' PROVE Good(Coming', <<>>, written, cleared)
      <4>1. Inserts(shown, pending) = pending
        <5>1. EditLimit \in Nat /\ Len(shown) \in Nat /\ Len(pending) \in Nat
          BY <1>1, RingAssumption
        <5>2. ~ (Len(pending) > EditLimit - Len(shown))
          BY <2>3, <3>3
        <5>3. QED BY <5>1, <5>2 DEF Inserts
      <4>2. QED BY <1>1, <2>2, <3>1, <4>1, GoodMoved
    <3>4. Screen'
      BY <1>2, <2>2, <2>3, <2>5, <3>2, <3>3 DEF Screen
    <3>5. QED BY <1>4, <1>5, <3>4 DEF TextInv
  <2>6. QED BY <2>4, <2>5
<1>9. QED BY <1>7, <1>8

(* The control shows what was to come, and has dropped what did not fit.      *)
LEMMA TextShow == ASSUME TextInv, Show PROVE TextInv'
<1>1. /\ ui = "drained" /\ ui' = "idle" /\ drain' = NoDrain
      /\ shown' = IF drain.replace THEN drain.text ELSE shown \o Inserted
      /\ UNCHANGED <<written, cleared, buf, pending, resync>>
  BY DEF Show, ringVars
<1>2. Coming' = Coming
  BY <1>1 DEF Coming
<1>3. Dropping' = Dropping
  BY <1>1, Zenon DEF Dropping, Show
<1>4. shown' = Coming
  BY <1>1 DEF Coming
<1>5. Coming \in Seq(Int)
  BY ComingText DEF TextInv
<1>6. Texts'
  <2>1. drain'.text = <<>>
    BY <1>1 DEF NoDrain
  <2>2. shown' \in Seq(Int) /\ drain'.text \in Seq(Int)
    BY <1>4, <1>5, <2>1
  <2>3. QED BY <1>1, <2>2 DEF TextInv, Texts
<1>7. NothingDrained'
  BY <1>1 DEF NothingDrained
<1>8. QED BY <1>1, <1>2, <1>3, <1>6, <1>7, TextSame

(* Clear empties the ring and the screen starts anew.                        *)
LEMMA TextClear == ASSUME TextInv, ClearLog PROVE TextInv'
<1>1. /\ buf' = <<>> /\ pending' = <<>> /\ cleared' = written /\ written' = written
      /\ ui' = "clearing" /\ UNCHANGED <<drain, shown>>
  BY DEF ClearLog, PendingAfterClear
<1>2. written \in Nat
  BY DEF TextInv, Texts
<1>3. Texts'
  BY <1>1, <1>2 DEF TextInv, Texts
<1>4. EndsAt(<<>>, written) /\ Enough(0, written, written) /\ Len(<<>>) = 0
  BY <1>2 DEF EndsAt, Enough
<1>5. History'
  BY <1>1, <1>4 DEF History
<1>6. Coming' = <<>>
  BY <1>1 DEF Coming
<1>7. ~ Dropping'
  BY <1>1, Zenon DEF Dropping
<1>8. Good(<<>>, <<>>, written, written)
  <2>1. <<>> \in Seq(Int)
    OBVIOUS
  <2>2. <<>> \o <<>> = <<>>
    BY <2>1, ConcatEmptySeq
  <2>3. QED BY <1>4, <2>2 DEF Good
<1>9. Stretch(<<>>, written, written)
  BY <1>2, <1>4 DEF Stretch
<1>10. Screen' /\ NothingDrained'
  BY <1>1, <1>6, <1>7, <1>8, <1>9 DEF Screen, NothingDrained
<1>11. QED BY <1>3, <1>5, <1>10 DEF TextInv

(* Every step keeps the text in order.                                       *)
LEMMA TextStep == TextInv /\ [LogNext]_logVars => TextInv'
<1> SUFFICES ASSUME TextInv, [LogNext]_logVars PROVE TextInv'
  OBVIOUS
<1>1. CASE WriterPosts \/ Quiet \/ UNCHANGED logVars
  <2>1. UNCHANGED <<written, cleared, buf, pending, resync, ui, drain, shown, cut>>
    BY <1>1 DEF WriterPosts, Quiet, logVars, ringVars
  <2>2. Coming' = Coming /\ Dropping' = Dropping /\ Texts' /\ NothingDrained'
    BY <2>1 DEF Coming, Dropping, Inserted, Fits, Room, TextInv, Texts, NothingDrained
  <2>3. QED BY <2>1, <2>2, TextSame
<1>2. CASE CreateControls \/ SetNotify \/ SetNotifyPosts
  <2>1. UNCHANGED <<written, cleared, buf, pending, resync, drain, cut>> /\ shown' \in {shown, buf}
        /\ ui \in {"create", "register", "post"} /\ ui' \in {"register", "post", "idle"}
    BY <1>2 DEF CreateControls, SetNotify, SetNotifyPosts, ringVars
  <2>2. resync /\ ~ cut
    BY <2>1 DEF TextInv, NothingDrained
  <2>3. resync' /\ ~ cut'
    BY <2>1, <2>2, Zenon
  <2>4. Texts'
    BY <2>1 DEF TextInv, Texts
  <2>5. History'
    BY <2>1 DEF TextInv, History
  <2>6. Coming' = shown' /\ Coming = shown
    BY <2>1 DEF Coming
  <2>7. ~ Dropping'
    BY <2>1, <2>3, Zenon DEF Dropping
  <2>8. Stretch(shown', written, cleared)
    <3>1. Stretch(shown, written, cleared)
      BY <2>6 DEF TextInv, Screen
    <3>2. Stretch(buf, written, cleared)
      BY EndIsStretch DEF TextInv, Texts, History
    <3>3. QED BY <2>1, <3>1, <3>2
  <2>9. Screen'
    BY <2>1, <2>3, <2>6, <2>7, <2>8 DEF Screen
  <2>10. QED BY <2>3, <2>4, <2>5, <2>9 DEF TextInv, NothingDrained
<1>3. CASE ClearShown
  <2>1. UNCHANGED <<written, cleared, buf, pending, resync, drain>> /\ shown' = <<>>
        /\ ui = "clearing" /\ ui' = "idle" /\ cut' = FALSE
    BY <1>3 DEF ClearShown, ringVars
  <2>2. Coming' = Coming /\ Texts' /\ NothingDrained'
    BY <2>1 DEF Coming, TextInv, Texts, NothingDrained
  <2>3. Dropping' = Dropping
    BY <2>1, Zenon DEF Dropping
  <2>4. QED BY <2>1, <2>2, <2>3, TextSame
<1>4. QED BY <1>1, <1>2, <1>3, TextWrite, TextDrain, TextShow, TextClear DEF LogNext, Ui

(* What the window shows is always one stretch of the log without a gap or a   *)
(* repetition; with what is pending it is the end of the log, for any order of *)
(* writes, drains and clears and however much is logged, until the control is  *)
(* full: past that EM_REPLACESEL drops text, and only then.                   *)
THEOREM TextHasNoGap == LogSpec => []NoGapNoRepeat
<1>1. TextInv /\ [LogNext]_logVars => TextInv'
  BY TextStep
<1>2. QED BY <1>1, TextInit, ScreenGood, PTL DEF LogSpec
=============================================================================
