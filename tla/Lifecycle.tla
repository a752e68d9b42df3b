----------------------------- MODULE Lifecycle -----------------------------
(***************************************************************************)
(* Starting, stopping and closing SplitWire: the window (main_windows.go), *)
(* app.Start and Session.Close (session.go), the hostname proxy's context   *)
(* watcher (browserproxy.Start) and the system PAC setting                  *)
(* (winutil/proxy_windows.go), with crashes and relaunches of the process.  *)
(*                                                                         *)
(* The window procedure runs on one thread, a message at a time.  app.Start *)
(* runs on a goroutine of its own, Session.Close on the goroutine of the    *)
(* Stop button, inside app.Start, or on the window's thread; its sync.Once  *)
(* makes a second caller wait.  Everything the registry, the listener and   *)
(* the driver keep is outside the process.                                  *)
(***************************************************************************)
EXTENDS Integers

CONSTANTS
    MaxLaunches       \* bound: launches of the process

ASSUME LifecycleAssumption == MaxLaunches \in Nat \ {0}

VARIABLES
    process,     \* "running", "exited" (closeWindow) or "crashed"
    launches,
    starting, stopping, closing, session,   \* fields of gui, session # nil
    canCancel,   \* gui.startCancel # nil
    cancelled,   \* the context given to app.Start is done
    rootDone,    \* gui.rootCtx is done
    starter,     \* program counter of the start goroutine
    startResult, \* what it left in startResults: "none", "ok", "err"
    stopper,     \* the stop goroutine: "none", "closing", "done"
    closePc,     \* Session.Close: "open", "restore", "proxy", "runner", "closed"
    handle,      \* the WinDivert network handle is open
    capturing,   \* captureLoop reads from it
    proxy,       \* the proxy's listener is open
    installed,   \* ProxySession.installed
    pac,         \* AutoConfigURL: "none", "user", "ours" (of the latest process, also
                 \* after its end) or "stale" (of an earlier one, or of a closed port)
    restoreFailed, \* history: a Restore has failed and no PAC was installed since
    hasty,       \* history: Stop or close was pressed during the latest start
    closedInStart, \* history: the window was closed before finishStart
    edited       \* history: the user edited the PAC since the latest snapshot

uiVars == <<starting, stopping, closing, session, canCancel>>
ctxVars == <<cancelled, rootDone>>
procVars == <<process, launches>>
rtVars == <<handle, capturing, proxy, installed, pac, restoreFailed>>
userVars == <<hasty, closedInStart, edited>>
vars == <<procVars, uiVars, ctxVars, starter, startResult, stopper, closePc, rtVars, userVars>>

StarterBusy == starter \notin {"none", "sent"}

Init ==
    /\ process = "running" /\ launches = 1
    /\ starting = FALSE /\ stopping = FALSE /\ closing = FALSE /\ session = FALSE
    /\ canCancel = FALSE /\ cancelled = FALSE /\ rootDone = FALSE
    /\ starter = "none" /\ startResult = "none" /\ stopper = "none" /\ closePc = "open"
    /\ handle = FALSE /\ capturing = FALSE /\ proxy = FALSE /\ installed = FALSE
    /\ pac \in {"none", "stale", "user"} /\ restoreFailed = FALSE
    /\ hasty = FALSE /\ closedInStart = FALSE /\ edited = FALSE

----------------------------------------------------------------------------
(* The window procedure.  It is busy while closeWindow runs Session.Close.   *)
Dispatching == process = "running" /\ ~ closing

\* beginStart
BeginStart ==
    /\ Dispatching /\ ~ starting /\ ~ stopping /\ ~ session
    /\ starting' = TRUE /\ canCancel' = TRUE /\ cancelled' = FALSE
    /\ starter' = "load" /\ hasty' = FALSE
    /\ UNCHANGED <<procVars, closedInStart, edited, stopping, closing, session, rootDone,
                   startResult, stopper, closePc, rtVars>>

\* finishStart on wmAppStartDone.
StoppingKept == stopping
StoppingAfterStart == FALSE
FinishStart ==
    /\ Dispatching /\ starter = "sent" /\ startResult # "none"
    /\ starting' = FALSE /\ stopping' = StoppingAfterStart /\ canCancel' = FALSE
    /\ session' = (startResult = "ok")
    /\ startResult' = "none" /\ starter' = "none"
    /\ UNCHANGED <<procVars, userVars, closing, ctxVars, stopper, closePc, rtVars>>

\* beginStop while starting cancels the start's context.
BeginStopStarting ==
    /\ Dispatching /\ starting
    /\ cancelled' = TRUE /\ stopping' = TRUE /\ hasty' = TRUE
    /\ UNCHANGED <<procVars, closedInStart, edited, starting, closing, session, canCancel, rootDone,
                   starter, startResult, stopper, closePc, rtVars>>

\* beginStop of a running session.
BeginStop ==
    /\ Dispatching /\ ~ starting /\ ~ stopping /\ session
    /\ stopping' = TRUE /\ stopper' = "closing"
    /\ closePc' = IF closePc = "open" THEN "restore" ELSE closePc
    /\ UNCHANGED <<procVars, userVars, starting, closing, session, canCancel, ctxVars,
                   starter, startResult, rtVars>>

\* finishStop on wmAppStopDone.
FinishStop ==
    /\ Dispatching /\ stopper = "done"
    /\ session' = FALSE /\ stopping' = FALSE
    /\ stopper' = "none"
    /\ UNCHANGED <<procVars, userVars, starting, closing, canCancel, ctxVars,
                   starter, startResult, closePc, rtVars>>

\* closeWindow calls Session.Close, if there is a session, ...
WindowJustCloses == FALSE
WindowClosesSession == session
CloseWindow ==
    /\ Dispatching
    /\ closing' = TRUE /\ hasty' = (hasty \/ starting) /\ closedInStart' = starting
    /\ cancelled' = (cancelled \/ canCancel)
    /\ closePc' = IF WindowClosesSession /\ closePc = "open" THEN "restore" ELSE closePc
    /\ UNCHANGED <<procVars, edited, starting, stopping, session, canCancel, rootDone,
                   starter, startResult, stopper, rtVars>>

\* ... and when it has returned rootCancel and destroyWindow.
DestroyWindow ==
    /\ process = "running" /\ closing /\ ~ rootDone
    /\ WindowClosesSession => closePc = "closed"
    /\ cancelled' = TRUE /\ rootDone' = TRUE
    /\ UNCHANGED <<procVars, userVars, uiVars, starter, startResult, stopper, closePc, rtVars>>

\* What the end of the process leaves: the driver and the listener are gone,
\* the registry is as it was.
ProcessGone ==
    /\ handle' = FALSE /\ capturing' = FALSE /\ proxy' = FALSE
    /\ UNCHANGED <<launches, userVars, uiVars, ctxVars, starter, startResult, stopper, closePc,
                   installed, pac, restoreFailed>>

\* main returns after the message loop.
ProcessExits ==
    /\ process = "running" /\ rootDone
    /\ process' = "exited"
    /\ ProcessGone

Crash ==
    /\ process = "running"
    /\ process' = "crashed"
    /\ ProcessGone

Launch ==
    /\ process # "running" /\ launches < MaxLaunches
    /\ process' = "running" /\ launches' = launches + 1
    /\ starting' = FALSE /\ stopping' = FALSE /\ closing' = FALSE /\ session' = FALSE
    /\ canCancel' = FALSE /\ cancelled' = FALSE /\ rootDone' = FALSE
    /\ starter' = "none" /\ startResult' = "none" /\ stopper' = "none" /\ closePc' = "open"
    /\ handle' = FALSE /\ capturing' = FALSE /\ proxy' = FALSE /\ installed' = FALSE
    /\ restoreFailed' = FALSE /\ hasty' = FALSE /\ closedInStart' = FALSE /\ edited' = FALSE
    /\ pac' = IF pac = "ours" THEN "stale" ELSE pac

----------------------------------------------------------------------------
(* The start goroutine: app.Start and the few lines after it.               *)
Starting(at) == process = "running" /\ starter = at

\* Everything up to the first look at parent.Err.
StartLoad ==
    /\ Starting("load")
    /\ starter' \in (IF cancelled THEN {"err"} ELSE {"engine", "err"})
    /\ UNCHANGED <<procVars, userVars, uiVars, ctxVars, startResult, stopper, closePc, rtVars>>

\* engine.Start, which cleans up after itself when it fails.
StartEngine ==
    /\ Starting("engine")
    /\ \/ /\ handle' = TRUE /\ capturing' = TRUE /\ closePc' = "open"
          /\ starter' \in {"proxy", "check"}     \* "check": no hostname patterns
       \/ /\ starter' = "err"
          /\ UNCHANGED <<handle, capturing, closePc>>
    /\ UNCHANGED <<procVars, userVars, uiVars, ctxVars, startResult, stopper,
                   proxy, installed, pac, restoreFailed>>

\* browserproxy.Start on a new port; without it names come from DNS and SNI.
StartProxy ==
    /\ Starting("proxy")
    /\ \/ /\ proxy' = TRUE /\ starter' = "snapshot"
          /\ pac' = IF pac = "ours" THEN "stale" ELSE pac
       \/ starter' = "check" /\ UNCHANGED <<proxy, pac>>
    /\ UNCHANGED <<procVars, userVars, uiVars, ctxVars, startResult, stopper, closePc,
                   handle, capturing, installed, restoreFailed>>

\* InstallSessionPAC reads the settings and refuses to replace a foreign one;
\* the URL of a SplitWire that is gone is reclaimed.
RefusesPacNever == FALSE
RefusesPac == pac = "user"
ReadSnapshot ==
    /\ Starting("snapshot")
    /\ \/ ~ RefusesPac /\ proxy' = proxy /\ starter' = "setPac"
       \/ proxy' = FALSE /\ starter' = "check"    \* refused, or unreadable
    /\ edited' = FALSE
    /\ UNCHANGED <<procVars, hasty, closedInStart, uiVars, ctxVars, startResult, stopper, closePc,
                   handle, capturing, installed, pac, restoreFailed>>

\* ... and a separate script writes them.
SetPac ==
    /\ Starting("setPac")
    /\ \/ pac' = "ours" /\ installed' = TRUE /\ restoreFailed' = FALSE /\ proxy' = proxy
       \/ proxy' = FALSE /\ UNCHANGED <<pac, installed, restoreFailed>>
    /\ starter' = "check"
    /\ UNCHANGED <<procVars, userVars, uiVars, ctxVars, startResult, stopper, closePc,
                   handle, capturing>>

\* The last look at parent.Err: Session.Close, or the session is returned.
AfterLastCheckLeaks == IF cancelled THEN "err" ELSE "started"
AfterLastCheck == IF cancelled THEN "abort" ELSE "started"
LastCheck ==
    /\ Starting("check")
    /\ starter' = AfterLastCheck
    /\ closePc' = IF starter' = "abort" THEN "restore" ELSE closePc
    /\ UNCHANGED <<procVars, userVars, uiVars, ctxVars, startResult, stopper, rtVars>>

\* app.Start has returned a session: it is closed if the window went away.
RootCheck ==
    /\ Starting("started")
    /\ starter' = IF rootDone THEN "abort" ELSE "ok"
    /\ closePc' = IF rootDone THEN "restore" ELSE closePc
    /\ UNCHANGED <<procVars, userVars, uiVars, ctxVars, startResult, stopper, rtVars>>

\* Session.Close called by the start goroutine has returned.
Aborted ==
    /\ Starting("abort") /\ closePc = "closed"
    /\ starter' = "err"
    /\ UNCHANGED <<procVars, userVars, uiVars, ctxVars, startResult, stopper, closePc, rtVars>>

\* startResults <- r and postMessage; after an error the context is cancelled.
ReadyToSend == starter \in {"ok", "err"}
AlwaysCancels == TRUE
CancelsAfter == starter = "err"
SendResult ==
    /\ process = "running" /\ ReadyToSend
    /\ startResult = "none"
    /\ startResult' = starter
    /\ cancelled' = (cancelled \/ CancelsAfter)
    /\ starter' = "sent"
    /\ UNCHANGED <<procVars, userVars, uiVars, rootDone, stopper, closePc, rtVars>>

----------------------------------------------------------------------------
(* Session.Close, in its order, on whichever goroutine came first.          *)
Closing(at) == process = "running" /\ closePc = at

CloseProxyBeforePac ==
    /\ Closing("restore")
    /\ IF proxy
       THEN proxy' = FALSE /\ UNCHANGED <<pac, installed, closePc>>
       ELSE /\ pac' = (IF installed THEN "none" ELSE pac) /\ installed' = FALSE
            /\ closePc' = "proxy" /\ UNCHANGED proxy
    /\ UNCHANGED <<procVars, userVars, uiVars, ctxVars, starter, startResult, stopper,
                   handle, capturing, restoreFailed>>
CloseRestoresPac ==
    /\ Closing("restore")
    /\ \/ ~ installed /\ UNCHANGED <<pac, restoreFailed>>
       \/ installed /\ pac' = "none" /\ UNCHANGED restoreFailed
       \/ installed /\ restoreFailed' = TRUE /\ UNCHANGED pac
    /\ installed' = FALSE
    /\ closePc' = "proxy"
    /\ UNCHANGED <<procVars, userVars, uiVars, ctxVars, starter, startResult, stopper,
                   handle, capturing, proxy>>

CloseProxy ==
    /\ Closing("proxy")
    /\ proxy' = FALSE
    /\ closePc' = "runner"
    /\ UNCHANGED <<procVars, userVars, uiVars, ctxVars, starter, startResult, stopper,
                   handle, capturing, installed, pac, restoreFailed>>

\* Runner.Close, then the session's own context is cancelled.
CloseRunner ==
    /\ Closing("runner")
    /\ handle' = FALSE /\ capturing' = FALSE
    /\ closePc' = "closed"
    /\ UNCHANGED <<procVars, userVars, uiVars, ctxVars, starter, startResult, stopper,
                   proxy, installed, pac, restoreFailed>>

\* The stop goroutine: Session.Close has returned, cancel, post.
StopperDone ==
    /\ process = "running" /\ stopper = "closing" /\ closePc = "closed"
    /\ stopper' = "done" /\ cancelled' = TRUE
    /\ UNCHANGED <<procVars, userVars, uiVars, rootDone, starter, startResult, closePc, rtVars>>

\* browserproxy's watcher: <-ctx.Done() closes the listener.
ProxyWatcher ==
    /\ process = "running" /\ cancelled /\ proxy
    /\ proxy' = FALSE
    /\ UNCHANGED <<procVars, userVars, uiVars, ctxVars, starter, startResult, stopper, closePc,
                   handle, capturing, installed, pac, restoreFailed>>

\* captureLoop returns at its next tunnelled packet once the context is done.
CaptureReturns ==
    /\ process = "running" /\ cancelled /\ capturing
    /\ capturing' = FALSE
    /\ UNCHANGED <<procVars, userVars, uiVars, ctxVars, starter, startResult, stopper, closePc,
                   handle, proxy, installed, pac, restoreFailed>>

\* The user edits the Windows proxy settings.
UserEdits ==
    /\ pac' \in {"none", "user"} \ {pac}
    /\ edited' = TRUE
    /\ UNCHANGED <<procVars, hasty, closedInStart, uiVars, ctxVars, starter, startResult, stopper, closePc,
                   handle, capturing, proxy, installed, restoreFailed>>

----------------------------------------------------------------------------
Window == FinishStart \/ FinishStop \/ DestroyWindow \/ ProcessExits

Starter ==
    \/ StartLoad
    \/ StartEngine
    \/ StartProxy
    \/ ReadSnapshot
    \/ SetPac
    \/ LastCheck
    \/ RootCheck
    \/ Aborted
    \/ SendResult

Closer ==
    \/ CloseRestoresPac
    \/ CloseProxy
    \/ CloseRunner
    \/ StopperDone

User ==
    \/ BeginStart
    \/ BeginStopStarting
    \/ BeginStop
    \/ CloseWindow
    \/ Launch
    \/ UserEdits

\* The machine is off for good.
Over == process # "running" /\ launches = MaxLaunches /\ UNCHANGED vars

Next == User \/ Window \/ Starter \/ Closer \/ ProxyWatcher \/ CaptureReturns \/ Crash \/ Over

Spec == Init /\ [][Next]_vars

\* Goroutines run and posted messages are dispatched.
FairSpec == Spec /\ WF_vars(Starter) /\ WF_vars(Closer) /\ WF_vars(Window)

----------------------------------------------------------------------------
(* Fields, program counters and settings range over their values.           *)
TypeOK ==
    /\ process \in {"running", "exited", "crashed"} /\ launches \in 1 .. MaxLaunches
    /\ {starting, stopping, closing, session, canCancel, cancelled, rootDone} \subseteq BOOLEAN
    /\ starter \in {"none", "load", "engine", "proxy", "snapshot", "setPac", "check",
                    "started", "abort", "ok", "err", "sent"}
    /\ startResult \in {"none", "ok", "err"}
    /\ stopper \in {"none", "closing", "done"}
    /\ closePc \in {"open", "restore", "proxy", "runner", "closed"}
    /\ {handle, capturing, proxy, installed, restoreFailed, hasty, closedInStart, edited} \subseteq BOOLEAN
    /\ pac \in {"none", "ours", "stale", "user"}

(* The window shows "disconnected" and offers Start again only when nothing   *)
(* of the previous runtime is left: no open driver handle, which would        *)
(* swallow the machine's packets, no proxy, no PAC of this session, and no    *)
(* goroutine that could still create one.  Cancelled and failed starts        *)
(* included; only a failed registry write can leave the PAC behind.           *)
DisconnectedIsClean ==
    Dispatching /\ ~ starting /\ ~ stopping /\ ~ session =>
       /\ ~ handle /\ ~ proxy /\ ~ installed
       /\ pac # "ours" \/ restoreFailed
       /\ ~ StarterBusy /\ closePc \in {"open", "closed"}

(* "Restore the system PAC before shutting down the local proxy so Chrome    *)
(* never points at a proxy that has already disappeared."  It holds unless    *)
(* the user stops or closes during the start, which cancels the proxy's own  *)
(* context, or the registry cannot be written.                               *)
PacPointsAtProxy ==
    process = "running" /\ pac = "ours" /\ ~ hasty /\ ~ restoreFailed => proxy

(* A session shown as connected has a live context, so its proxy and its     *)
(* capture loop are not being torn down underneath it.                       *)
ConnectedIsLive ==
    Dispatching /\ session /\ ~ stopping => ~ cancelled /\ capturing

(* "Stop also cancels an in-progress start": what beginStop says of itself   *)
(* would make every connected session a live one.  It does for a start that  *)
(* nobody interrupted.                                                       *)
OrderlyStartIsLive == ~ hasty => ConnectedIsLive

(* "Closing the window also reliably switches the tunnel off and restores    *)
(* the temporary proxy/PAC settings": the process does not exit with its own  *)
(* PAC in the registry, also when the window closes a session whose start     *)
(* Stop came too late for, or one that is being stopped.  Two cases are        *)
(* exempt: a window closed before finishStart has handled the start's result, *)
(* when there is no session to close yet, and a Restore that failed.          *)
WindowCloseRestores == process = "exited" /\ ~ closedInStart => pac # "ours" \/ restoreFailed

(* SplitWire "refuses to override an existing explicit proxy or PAC": one     *)
(* that was there when the settings were read is never replaced, in any of   *)
(* the starts, whatever an earlier session or crash left.                     *)
UserPacKept == [][pac = "user" /\ ~ edited => pac' # "ours"]_vars

(* A start always comes to an end, and so does a stop: the window never       *)
(* stays with its buttons disabled while the process runs.                   *)
ButtonsComeBack ==
    (starting \/ stopping) ~> (~ (starting \/ stopping) \/ closing \/ process # "running")
=============================================================================
