------------------------------ MODULE LogRing ------------------------------
(***************************************************************************)
(* The in-memory log the window shows (loghub.Ring and its use in           *)
(* main_windows.go).  log.Logger serialises the writers; the window's       *)
(* thread creates the control, registers the wake-up, drains the ring on    *)
(* wmAppLog and clears it.  A mutex guards each Ring operation, and the     *)
(* wake-up is posted after it is released.                                  *)
(*                                                                         *)
(* Text is a sequence of units, numbered in the order they are logged; a    *)
(* unit stands for any number of bytes.                                     *)
(***************************************************************************)
EXTENDS Integers, Sequences

CONSTANTS
    MaxBytes,   \* maxBytes, 256 KiB
    EditLimit,  \* setEditLimit, 512 Ki characters
    MaxUnits,   \* bound: units logged
    MaxWrite    \* bound: units of one write

ASSUME RingAssumption ==
    {MaxBytes, EditLimit, MaxUnits, MaxWrite} \subseteq Nat \ {0}

VARIABLES
    written, cleared,           \* history: units logged, units logged before Clear
    buf, pending, resync,       \* fields of Ring
    notify, notified,
    writer,                     \* "idle", or "post": about to call fn()
    posted,                     \* wmAppLog messages in the window's queue
    ui,                         \* the window's thread
    drain,                      \* result of DrainAndAck
    shown,                      \* text of the edit control
    cut                         \* history: the control dropped text since shown was last set

ringVars == <<buf, pending, resync, notify, notified>>
logVars == <<written, cleared, ringVars, writer, posted, ui, drain, shown, cut>>

NoDrain == [text |-> <<>>, replace |-> FALSE]

\* Units from + 1 to to, and the last n units of a text.
Units(from, to) == [i \in 1 .. to - from |-> from + i]
LastUnits(s, n) == IF Len(s) <= n THEN s ELSE SubSeq(s, Len(s) - n + 1, Len(s))

\* Seed has run.
LogInit ==
    /\ written \in 0 .. 1 /\ cleared = 0
    /\ buf = Units(0, written) /\ pending = <<>> /\ resync = TRUE
    /\ notify = FALSE /\ notified = FALSE
    /\ writer = "idle" /\ posted = 0
    /\ ui = "create" /\ drain = NoDrain /\ shown = <<>> /\ cut = FALSE

----------------------------------------------------------------------------
(* Ring.Write on a logging goroutine.                                       *)
Overflows(k) == k >= MaxBytes \/ Len(pending) + k > MaxBytes

Write(k) ==
    LET p == Units(written, written + k) IN
    /\ writer = "idle" /\ written + k <= MaxUnits
    /\ written' = written + k
    /\ buf' = LastUnits(buf \o p, MaxBytes)
    /\ pending' = IF resync THEN pending ELSE IF Overflows(k) THEN <<>> ELSE pending \o p
    /\ resync' = (resync \/ Overflows(k))
    /\ notified' = (notified \/ notify)
    /\ writer' = IF notify /\ ~ notified THEN "post" ELSE "idle"
    /\ UNCHANGED <<cleared, notify, posted, ui, drain, shown, cut>>

\* fn() posts wmAppLog.
WriterPosts ==
    /\ writer = "post"
    /\ posted' = posted + 1 /\ writer' = "idle"
    /\ UNCHANGED <<written, cleared, ringVars, ui, drain, shown, cut>>

----------------------------------------------------------------------------
(* The window's thread.                                                     *)
CreateControls ==
    /\ ui = "create"
    /\ shown' = buf /\ ui' = "register"
    /\ UNCHANGED <<written, cleared, ringVars, writer, posted, drain, cut>>

WakesNever == FALSE
WakesAtOnce == (resync \/ pending # <<>>) /\ ~ notified
SetNotify ==
    /\ ui = "register"
    /\ notify' = TRUE
    /\ notified' = (notified \/ WakesAtOnce)
    /\ ui' = IF WakesAtOnce THEN "post" ELSE "idle"
    /\ UNCHANGED <<written, cleared, buf, pending, resync, writer, posted, drain, shown, cut>>

SetNotifyPosts ==
    /\ ui = "post"
    /\ posted' = posted + 1 /\ ui' = "idle"
    /\ UNCHANGED <<written, cleared, ringVars, writer, drain, shown, cut>>

\* refreshLogRing: DrainAndAck, ...
Drained == [text |-> IF resync THEN buf ELSE pending, replace |-> resync]
RearmedLate == notified
Rearmed == FALSE
DrainAndAck ==
    /\ ui = "idle" /\ posted > 0
    /\ posted' = posted - 1
    /\ drain' = Drained
    /\ pending' = <<>> /\ resync' = FALSE /\ notified' = Rearmed
    /\ ui' = "drained"
    /\ UNCHANGED <<written, cleared, buf, notify, writer, shown, cut>>

\* ... then WM_SETTEXT, or EM_REPLACESEL, which inserts no more than fits under
\* the control's limit: appendEditText trims nothing, and what does not fit is lost.
Room == EditLimit - Len(shown)
Fits == Len(drain.text) <= Room
Inserted == IF Fits THEN drain.text ELSE SubSeq(drain.text, 1, Room)
Show ==
    /\ ui = "drained"
    /\ shown' = IF drain.replace THEN drain.text ELSE shown \o Inserted
    /\ cut' = (~ drain.replace /\ (cut \/ ~ Fits))
    /\ drain' = NoDrain /\ ui' = "idle"
    /\ UNCHANGED <<written, cleared, ringVars, writer, posted>>

\* idClearLog: Ring.Clear, then WM_SETTEXT.
PendingAfterClearKept == pending
PendingAfterClear == <<>>
ClearLog ==
    /\ ui = "idle"
    /\ buf' = <<>> /\ pending' = PendingAfterClear /\ resync' = FALSE /\ notified' = FALSE
    /\ cleared' = written
    /\ ui' = "clearing"
    /\ UNCHANGED <<written, notify, writer, posted, drain, shown, cut>>

ClearShown ==
    /\ ui = "clearing"
    /\ shown' = <<>> /\ cut' = FALSE /\ ui' = "idle"
    /\ UNCHANGED <<written, cleared, ringVars, writer, posted, drain>>

\* Nobody logs any more and the window is idle.
Quiet == written = MaxUnits /\ posted = 0 /\ ui = "idle" /\ writer = "idle" /\ UNCHANGED logVars

Ui == CreateControls \/ SetNotify \/ SetNotifyPosts \/ DrainAndAck \/ Show \/ ClearShown

LogNext == (\E k \in 1 .. MaxWrite : Write(k)) \/ WriterPosts \/ Ui \/ ClearLog \/ Quiet

LogSpec == LogInit /\ [][LogNext]_logVars

\* A logger that holds the lock goes on, and the message loop dispatches.
LogFairSpec == LogSpec /\ WF_logVars(WriterPosts) /\ WF_logVars(Ui)

----------------------------------------------------------------------------
(* Fields and program counters range over their values; history and delta    *)
(* stay within maxBytes.                                                    *)
LogTypeOK ==
    /\ written \in Nat /\ cleared \in 0 .. written
    /\ buf \in Seq(Nat) /\ pending \in Seq(Nat) /\ shown \in Seq(Nat)
    /\ Len(buf) <= MaxBytes /\ Len(pending) <= MaxBytes
    /\ resync \in BOOLEAN /\ notify \in BOOLEAN /\ notified \in BOOLEAN
    /\ writer \in {"idle", "post"} /\ posted \in Nat
    /\ ui \in {"create", "register", "post", "idle", "drained", "clearing"}
    /\ drain.text \in Seq(Nat) /\ drain.replace \in BOOLEAN /\ cut \in BOOLEAN

(* "A Write after the unlock posts another wake-up": whenever the window has *)
(* text to fetch, a wake-up is in its queue or about to be posted, whatever   *)
(* order writes, drains and clears come in.                                  *)
WakeUpUnderway ==
    notify /\ (resync \/ pending # <<>>) => posted > 0 \/ writer = "post" \/ ui = "post"

(* Deltas, replacements and clears never "duplicate/lose text", except at the  *)
(* control's limit.  What the control will show is always one stretch of the   *)
(* log without a gap or a repetition, and nothing cleared comes back.  Unless  *)
(* the ring has overflowed, that text followed by the pending delta is the     *)
(* tail of the log, all of it since the last Clear or at least maxBytes.  The  *)
(* exception: a full control (512 Ki characters) drops what is appended, and   *)
(* the window stops following the log until Clear or an overflow replaces it.  *)
Coming ==
    CASE ui = "drained" -> IF drain.replace THEN drain.text ELSE shown \o Inserted
      [] ui = "clearing" -> <<>>
      [] OTHER -> shown
Dropping ==
    CASE ui = "drained" -> ~ drain.replace /\ (cut \/ ~ Fits)
      [] ui = "clearing" -> FALSE
      [] OTHER -> cut
NoGapNoRepeat ==
    LET text == Coming \o pending IN
    /\ \E end \in cleared .. written :
          Coming = Units(end - Len(Coming), end) /\ Len(Coming) <= end - cleared
    /\ Dropping => Len(Coming) >= EditLimit
    /\ ~ resync /\ ~ Dropping =>
         /\ text = Units(written - Len(text), written)
         /\ Len(text) <= written - cleared
         /\ Len(text) = written - cleared \/ Len(text) >= MaxBytes

(* The log is a "live stream": every unit logged is eventually in the         *)
(* control, unless it was cleared, has left the bounded history, or the        *)
(* control stays full for ever: then nobody clears it and the ring does not    *)
(* overflow.                                                                 *)
LogShown ==
    \A u \in 1 .. MaxUnits :
       [](written >= u => <>(\/ u <= cleared \/ u <= written - MaxBytes
                             \/ \E i \in 1 .. Len(shown) : shown[i] = u
                             \/ []cut))
=============================================================================
