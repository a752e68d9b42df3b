----------------------------- MODULE SendQueues -----------------------------
(***************************************************************************)
(* The two queues between packet capture and the WireGuard client          *)
(* (engine_windows.go: the tail of captureLoop, sendOne, sendLoop).        *)
(*                                                                         *)
(* captureLoop splits a selected packet into segments and offers each to   *)
(* urgentQ (UDP) or bulkQ (TCP) without blocking; sendLoop takes up to     *)
(* urgentBurst urgent packets, then one bulk packet if one is ready, then  *)
(* waits for either.  Packets are not told apart within a class, so a      *)
(* queue is its length.  Each select of the code is one step; where more   *)
(* than one of its cases is ready Go picks any of them.                    *)
(***************************************************************************)
EXTENDS Integers

CONSTANTS
    UrgentCap,    \* capacity of urgentQ, 4096
    BulkCap,      \* capacity of bulkQ, 8192
    urgentBurst,  \* 8
    MaxSegments   \* segments of one captured packet

ASSUME SendAssumption ==
    /\ UrgentCap \in Nat \ {0} /\ BulkCap \in Nat \ {0}
    /\ urgentBurst \in Nat \ {0} /\ MaxSegments \in Nat \ {0}

VARIABLES
    urgentQ, bulkQ,   \* packets queued
    segments,         \* segments captureLoop has still to offer
    class,            \* and their class
    capturing,        \* captureLoop has not returned
    handleOpen,       \* the WinDivert network handle
    sendPc,           \* sendLoop: "burst", "bulk", "wait", "send", "done"
    after,            \* where sendLoop goes after sendOne
    drained,          \* urgent packets taken in this burst
    cancelled,        \* ctx is done
    bulkWait,         \* history: urgent packets taken since a bulk one is ready
    urgentWait        \* history: bulk packets taken since an urgent one is ready

sendVars == <<urgentQ, bulkQ, segments, class, capturing, handleOpen,
              sendPc, after, drained, cancelled, bulkWait, urgentWait>>
capVars == <<segments, class, capturing>>
ctxVars == <<handleOpen, cancelled>>

----------------------------------------------------------------------------
SendInit ==
    /\ urgentQ = 0 /\ bulkQ = 0
    /\ segments = 0 /\ class = "bulk" /\ capturing = TRUE /\ handleOpen = TRUE
    /\ sendPc = "burst" /\ after = "burst" /\ drained = 0
    /\ cancelled = FALSE
    /\ bulkWait = 0 /\ urgentWait = 0

\* captureLoop has a selected packet, split into n segments.
Capture(c, n) ==
    /\ capturing /\ segments = 0 /\ handleOpen
    /\ segments' = n /\ class' = c
    /\ UNCHANGED <<urgentQ, bulkQ, capturing, ctxVars, sendPc, after, drained, bulkWait, urgentWait>>

\* netHandle.Recv fails once the handle is closed.
CaptureEnds ==
    /\ capturing /\ segments = 0 /\ ~ handleOpen
    /\ capturing' = FALSE
    /\ UNCHANGED <<urgentQ, bulkQ, segments, class, ctxVars, sendPc, after, drained, bulkWait, urgentWait>>

Full == IF class = "urgent" THEN urgentQ = UrgentCap ELSE bulkQ = BulkCap

\* case q <- item
Enqueue ==
    /\ segments > 0 /\ ~ Full
    /\ IF class = "urgent"
       THEN urgentQ' = urgentQ + 1 /\ bulkQ' = bulkQ
       ELSE bulkQ' = bulkQ + 1 /\ urgentQ' = urgentQ
    /\ segments' = segments - 1
    /\ UNCHANGED <<class, capturing, ctxVars, sendPc, after, drained, bulkWait, urgentWait>>

\* default: the queue is full and the segment is dropped.
DropSegment ==
    /\ segments > 0 /\ Full /\ ~ cancelled
    /\ segments' = segments - 1
    /\ UNCHANGED <<urgentQ, bulkQ, class, capturing, ctxVars, sendPc, after, drained, bulkWait, urgentWait>>

\* case <-ctx.Done(): captureLoop returns.
CaptureCancelled ==
    /\ segments > 0 /\ cancelled
    /\ segments' = 0 /\ capturing' = FALSE
    /\ UNCHANGED <<urgentQ, bulkQ, class, ctxVars, sendPc, after, drained, bulkWait, urgentWait>>

----------------------------------------------------------------------------
\* sendLoop takes a packet of one class, sends it and goes on at "then".
TakeUrgent(then) ==
    /\ urgentQ > 0
    /\ urgentQ' = urgentQ - 1
    /\ sendPc' = "send" /\ after' = then
    /\ bulkWait' = IF bulkQ > 0 THEN bulkWait + 1 ELSE 0
    /\ urgentWait' = 0
    /\ UNCHANGED <<bulkQ, capVars, ctxVars>>

TakeBulk(then) ==
    /\ bulkQ > 0
    /\ bulkQ' = bulkQ - 1
    /\ sendPc' = "send" /\ after' = then
    /\ bulkWait' = 0
    /\ urgentWait' = IF urgentQ > 0 THEN urgentWait + 1 ELSE 0
    /\ drained' = 0
    /\ UNCHANGED <<urgentQ, capVars, ctxVars>>

\* One pass of the burst loop: case p := <-urgentQ.
AfterBurstNeverBulk == "burst"
AfterBurst == IF drained + 1 < urgentBurst THEN "burst" ELSE "bulk"
BurstTake ==
    /\ sendPc = "burst"
    /\ TakeUrgent(AfterBurst)
    /\ drained' = drained + 1

\* default: drained = urgentBurst.
BurstEmpty ==
    /\ sendPc = "burst" /\ urgentQ = 0 /\ ~ cancelled
    /\ sendPc' = "bulk" /\ drained' = urgentBurst
    /\ UNCHANGED <<urgentQ, bulkQ, capVars, ctxVars, after, bulkWait, urgentWait>>

\* A ready bulk packet is forced; continue.
AfterBulk == "burst"
BulkTake == sendPc = "bulk" /\ TakeBulk(AfterBulk)

BulkEmpty ==
    /\ sendPc = "bulk" /\ bulkQ = 0
    /\ sendPc' = "wait"
    /\ UNCHANGED <<urgentQ, bulkQ, capVars, ctxVars, after, drained, bulkWait, urgentWait>>

\* The blocking select.
WaitTakeUrgent == sendPc = "wait" /\ TakeUrgent("burst") /\ drained' = 0
WaitTakeBulk == sendPc = "wait" /\ TakeBulk("burst")

\* case <-ctx.Done() of the burst loop and of the blocking select.
CancelSeenInBurst == sendPc = "burst" /\ cancelled
CancelSeen == sendPc \in {"burst", "wait"} /\ cancelled
SendLoopReturns ==
    /\ CancelSeen
    /\ sendPc' = "done"
    /\ UNCHANGED <<urgentQ, bulkQ, capVars, ctxVars, after, drained, bulkWait, urgentWait>>

\* sendOne returns: SendPacket gives up at the latest after 8 seconds.
SendOneReturns ==
    /\ sendPc = "send"
    /\ sendPc' = after
    /\ UNCHANGED <<urgentQ, bulkQ, capVars, ctxVars, after, drained, bulkWait, urgentWait>>

----------------------------------------------------------------------------
\* Runner.Close cancels ctx and closes the handle; a cancelled parent context
\* alone only cancels ctx.
CancelParent ==
    /\ ~ cancelled /\ cancelled' = TRUE
    /\ UNCHANGED <<urgentQ, bulkQ, capVars, handleOpen, sendPc, after, drained, bulkWait, urgentWait>>

CloseRunner ==
    /\ handleOpen
    /\ cancelled' = TRUE /\ handleOpen' = FALSE
    /\ UNCHANGED <<urgentQ, bulkQ, capVars, sendPc, after, drained, bulkWait, urgentWait>>

\* After Close nothing more happens than the return of the loops.
Closed == ~ handleOpen /\ UNCHANGED sendVars

CaptureLoop ==
    \/ \E c \in {"urgent", "bulk"}, n \in 1 .. MaxSegments : Capture(c, n)
    \/ CaptureEnds
    \/ Enqueue
    \/ DropSegment
    \/ CaptureCancelled

SendLoop ==
    \/ BurstTake
    \/ BurstEmpty
    \/ BulkTake
    \/ BulkEmpty
    \/ WaitTakeUrgent
    \/ WaitTakeBulk
    \/ SendLoopReturns
    \/ SendOneReturns

SendNext == CaptureLoop \/ SendLoop \/ CancelParent \/ CloseRunner \/ Closed

SendSpec == SendInit /\ [][SendNext]_sendVars

\* The sender goroutine runs, and Go's select does not ignore a ready
\* <-ctx.Done() for ever.  A captured packet is offered to its queue.
FairSendSpec ==
    /\ SendSpec
    /\ WF_sendVars(SendLoop) /\ SF_sendVars(SendLoopReturns)
    /\ WF_sendVars(CaptureEnds) /\ WF_sendVars(Enqueue \/ DropSegment \/ CaptureCancelled)

----------------------------------------------------------------------------
(* Queue lengths respect the channel capacities and the program counters    *)
(* name statements of the two loops.                                        *)
QueuesTypeOK ==
    /\ urgentQ \in 0 .. UrgentCap /\ bulkQ \in 0 .. BulkCap
    /\ segments \in 0 .. MaxSegments /\ class \in {"urgent", "bulk"}
    /\ capturing \in BOOLEAN /\ handleOpen \in BOOLEAN /\ cancelled \in BOOLEAN
    /\ sendPc \in {"burst", "bulk", "wait", "send", "done"}
    /\ after \in {"burst", "bulk"}
    /\ drained \in 0 .. urgentBurst
    /\ bulkWait \in Nat /\ urgentWait \in Nat

(* "Continuous voice traffic cannot starve bulk TCP": while a bulk packet is *)
(* ready at most urgentBurst + 1 urgent packets are taken, the one being the *)
(* blocking select's choice when the bulk packet came after its check.      *)
BulkWaitBounded == bulkWait <= urgentBurst + 1

(* The forced bulk packet costs a ready urgent packet at most one turn.     *)
UrgentWaitBounded == urgentWait <= 1

(* Runner.Close waits for both loops: they return once ctx is cancelled and *)
(* the handle is closed, even with packets still queued.                    *)
LoopsReturn == (~ handleOpen) ~> (sendPc = "done" /\ ~ capturing)
=============================================================================
