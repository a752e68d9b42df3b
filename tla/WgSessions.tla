----------------------------- MODULE WgSessions -----------------------------
(***************************************************************************)
(* The life of WireGuard sessions in internal/wireguard/client.go: who      *)
(* selects, replaces, retires, uses and closes them.                        *)
(*                                                                         *)
(* Senders (the engine's sendLoop and the keepalive goroutine) select the   *)
(* current session, or wait for a handshake when it has expired; an aging   *)
(* session is renewed by one background goroutine; readers decrypt with any *)
(* session of the table; the reaper closes what was retired long enough;    *)
(* Close ends it all.  A handshake is one long step here; WgHandshake       *)
(* models its inside.                                                       *)
(*                                                                         *)
(* Time passes in ticks.  A session and a goroutine carry their age in      *)
(* ticks, saturated once larger values make no difference, so that runs are *)
(* finite without a bound on time.  Sessions live in slots, blanked when    *)
(* they are closed and reused when nobody refers to them, as the garbage    *)
(* collector does.                                                          *)
(***************************************************************************)
EXTENDS Integers, FiniteSets

CONSTANTS
    Readers,        \* the reader goroutines, one per UDP socket
    Worlds          \* the timers and peers under study; one is chosen at the start

ASSUME SessionsAssumption ==
    \A w \in Worlds :
       /\ {w.RekeyAfter, w.ReapEvery, w.KeepaliveEvery, w.Slots} \subseteq Nat \ {0}
       /\ {w.RejectAfter, w.Grace, w.PeerKeeps, w.HsTime, w.MaxPause} \subseteq Nat
       /\ w.RekeyAfter <= w.RejectAfter /\ w.Reliable \in BOOLEAN

\* The other names of Actors.
ASSUME ReadersAssumption == {"loop", "keepalive", "rekey"} \cap Readers = {}

\* What the times of the code leave to the scheduler and the peer: no goroutine is delayed
\* for the grace period of 180 s; and a peer that keeps a key for 180 s (WireGuard's own
\* limit), of which 110 s have passed when it is retired, leaves a reader 110 s to be late.
ASSUME GraceAssumption ==
    \A w \in Worlds : w.MaxPause <= w.Grace /\ w.PeerKeeps + w.MaxPause <= w.Grace + w.RekeyAfter

\* With a peer that answers: keepalives come often enough (the configuration sets them, 25 s in
\* README_RU.md) for a rekey of up to 8 s to begin and end between 110 s and 170 s.
ASSUME KeepaliveAssumption ==
    \A w \in Worlds : w.Reliable =>
       /\ w.MaxPause <= w.KeepaliveEvery /\ w.MaxPause < w.RekeyAfter
       /\ w.RekeyAfter + w.KeepaliveEvery + w.MaxPause + w.MaxPause + w.HsTime <= w.RejectAfter

Senders == {"loop", "keepalive"}
Users == Senders \cup Readers
Actors == Users \cup {"rekey"}
None == 0
NotRetired == -1

VARIABLES
    sess,      \* [Session -> [age, retired]]: created, retiredAt
    open,      \* c.sessions: sessions whose keys are not closed
    current,   \* c.current, None for nil
    pc,        \* where each goroutine is; a reader that holds a session is at "late"
               \* when the session was Outlived as it was looked up, else at "have"
    held,      \* the session it holds (the base session of a rekey)
    wait,      \* ticks spent there
    kaAge,     \* ticks since the keepalive ticker fired
    reapAge,   \* ticks since the reaper's ticker fired
    stage,     \* "running", "stopping" (Runner.Close), "closing" (c.done), "returned"
    world      \* the member of Worlds this behaviour is in

actors == <<pc, held, wait>>
timers == <<kaAge, reapAge>>
vars == <<sess, open, current, actors, timers, stage, world>>

Session == 1 .. world.Slots             \* bound: number of sessions that exist at a time
RekeyAfter == world.RekeyAfter          \* rekeyAfterTime, 110 s
RejectAfter == world.RejectAfter        \* rejectAfterTime, 170 s
Grace == world.Grace                    \* a retired session is closed after 3 minutes
ReapEvery == world.ReapEvery            \* period of the reaper, 30 s
KeepaliveEvery == world.KeepaliveEvery  \* p.Keepalive
PeerKeeps == world.PeerKeeps            \* the peer sends with a key no older than this
HsTime == world.HsTime                  \* a handshake ends within this, 8 s
MaxPause == world.MaxPause              \* a runnable goroutine is not delayed for longer
Reliable == world.Reliable              \* every handshake is answered

MaxOf(a, b) == IF a > b THEN a ELSE b
AgeCap == MaxOf(RejectAfter, PeerKeeps) + 1

Blank == [age |-> 0, retired |-> NotRetired]

Init ==
    /\ world \in Worlds
    /\ sess = [i \in Session |-> Blank] /\ open = {} /\ current = None
    /\ pc = [a \in Actors |-> "idle"] /\ held = [a \in Actors |-> None]
    /\ wait = [a \in Actors |-> 0]
    /\ kaAge = 0 /\ reapAge = 0
    /\ stage = "running"

----------------------------------------------------------------------------
(* sessionUsable: both of its results.  The other limit, 2^60 packets, is out *)
(* of reach within the three minutes a session is used.                      *)
Expired(s) == s.age >= RejectAfter
Usable(i) == i # None /\ ~ Expired(sess[i])
ShouldRekeyLate(i) == sess[i].age >= RejectAfter - 1
ShouldRekey(i) == sess[i].age >= RekeyAfter

\* hsMu is held exactly while handshake runs.
HsFree == \A a \in Actors : pc[a] # "handshake"

Moves(a, to) == /\ pc' = [pc EXCEPT ![a] = to] /\ wait' = [wait EXCEPT ![a] = 0]

\* ensureSession returns the current session; startBackgroundRekey's
\* compare-and-swap lets one rekey run at a time.
StartsRekey == ShouldRekey(current) /\ pc["rekey"] = "idle"
TakesCurrent(p) ==
    IF StartsRekey
    THEN /\ pc' = [pc EXCEPT ![p] = "have", !["rekey"] = "begun"]
         /\ held' = [held EXCEPT ![p] = current, !["rekey"] = current]
         /\ wait' = [wait EXCEPT ![p] = 0, !["rekey"] = 0]
    ELSE Moves(p, "have") /\ held' = [held EXCEPT ![p] = current]

\* SendPacket up to the end of ensureSession's fast path.
Sends(p) ==
    /\ pc[p] = "idle"
    /\ IF Usable(current) THEN TakesCurrent(p) ELSE Moves(p, "want") /\ UNCHANGED held

LoopSends ==
    /\ stage \in {"running", "stopping"}
    /\ Sends("loop")
    /\ UNCHANGED <<sess, open, current, timers, stage, world>>

\* The keepalive ticker; without a session nothing is sent.
KeepaliveFires ==
    /\ kaAge = KeepaliveEvery /\ pc["keepalive"] = "idle"
    /\ kaAge' = 0
    /\ IF current = None THEN UNCHANGED actors ELSE Sends("keepalive")
    /\ UNCHANGED <<sess, open, current, reapAge, stage, world>>

\* ensureSession's slow path has hsMu and looks again.
FoundUsable(p) == Usable(current)
LockForSend(p) ==
    /\ pc[p] = "want" /\ HsFree
    /\ IF FoundUsable(p) THEN TakesCurrent(p) ELSE Moves(p, "handshake") /\ UNCHANGED held
    /\ UNCHANGED <<sess, open, current, timers, stage, world>>

\* The locked part of SendPacket: Seal and the write.
Seal(p) ==
    /\ pc[p] = "have"
    /\ Moves(p, "idle") /\ held' = [held EXCEPT ![p] = None]
    /\ UNCHANGED <<sess, open, current, timers, stage, world>>

----------------------------------------------------------------------------
(* The background rekey.                                                    *)
RekeyBegins ==
    /\ pc["rekey"] = "begun"
    /\ Moves("rekey", IF stage \in {"closing", "returned"} THEN "ending" ELSE "want")
    /\ UNCHANGED <<sess, open, current, held, timers, stage, world>>

\* It has hsMu: another caller may have replaced the base session.
AlreadyFreshNever == FALSE
AlreadyFresh ==
    /\ current # None /\ current # held["rekey"]
    /\ Usable(current) /\ ~ ShouldRekey(current)
LockForRekey ==
    /\ pc["rekey"] = "want" /\ HsFree
    /\ Moves("rekey", IF AlreadyFresh THEN "ending" ELSE "handshake")
    /\ UNCHANGED <<sess, open, current, held, timers, stage, world>>

\* The deferred rekeying.Store(false), after hsMu is released.
RekeyEnds ==
    /\ pc["rekey"] = "ending"
    /\ Moves("rekey", "idle") /\ held' = [held EXCEPT !["rekey"] = None]
    /\ UNCHANGED <<sess, open, current, timers, stage, world>>

----------------------------------------------------------------------------
FreeSlots == {i \in Session \ open : i # current /\ \A a \in Actors : held[a] # i}

\* installSession: the previous session is retired, its keys stay open.
RetireNone(r) == r
Retire(r) == IF r.retired = NotRetired THEN [r EXCEPT !.retired = 0] ELSE r
Install(i) ==
    /\ sess' = [j \in Session |-> IF j = i THEN Blank
                                  ELSE IF j = current THEN Retire(sess[j]) ELSE sess[j]]
    /\ open' = open \cup {i}
    /\ current' = i

\* handshake returns a session.  After c.done is closed its select may still
\* pick a response that is already there.
HandshakeOk(a) ==
    /\ pc[a] = "handshake"
    /\ \E i \in FreeSlots :
         /\ \A j \in FreeSlots : i <= j
         /\ Install(i)
         /\ held' = [held EXCEPT ![a] = IF a = "rekey" THEN @ ELSE i]
    /\ Moves(a, IF a = "rekey" THEN "ending" ELSE "have")
    /\ UNCHANGED <<timers, stage, world>>

\* It fails: five attempts, the context, a write error, or c.done.  The
\* current session is kept.
HandshakeFails(a) ==
    /\ pc[a] = "handshake"
    /\ \/ ~ Reliable
       \/ stage = "stopping" /\ a = "loop"
       \/ stage \in {"closing", "returned"}
    /\ Moves(a, IF a = "rekey" THEN "ending" ELSE "idle")
    /\ UNCHANGED <<sess, open, current, held, timers, stage, world>>

----------------------------------------------------------------------------
(* A retired session that a peer no longer sends with: only a delayed, a      *)
(* repeated or a forged datagram still names it.                             *)
Outlived(s) == s.retired # NotRetired /\ s.age > PeerKeeps

\* handleTransport looks up the session of a datagram by its index alone ...
ReaderFinds(r) ==
    /\ pc[r] = "idle" /\ stage \in {"running", "stopping"}
    /\ \E i \in open : /\ held' = [held EXCEPT ![r] = i]
                       /\ Moves(r, IF Outlived(sess[i]) THEN "late" ELSE "have")
    /\ UNCHANGED <<sess, open, current, timers, stage, world>>

\* ... and opens it.
ReaderOpens(r) ==
    /\ pc[r] \in {"have", "late"}
    /\ Moves(r, "idle") /\ held' = [held EXCEPT ![r] = None]
    /\ UNCHANGED <<sess, open, current, timers, stage, world>>

\* The reaper.
Reapable(s) == s.retired > Grace
Reap ==
    /\ reapAge = ReapEvery /\ stage # "returned"
    /\ reapAge' = 0
    /\ open' = {i \in open : i = current \/ ~ Reapable(sess[i])}
    /\ sess' = [i \in Session |-> IF i \in open' THEN sess[i] ELSE Blank]
    /\ UNCHANGED <<current, actors, kaAge, stage, world>>

----------------------------------------------------------------------------
(* Runner.Close cancels, waits for its own goroutines, then calls            *)
(* Client.Close, which waits for the readers, the keepalive and the reaper.  *)
Stop ==
    /\ stage = "running"
    /\ stage' = "stopping"
    /\ UNCHANGED <<sess, open, current, actors, timers, world>>

MayExitUnlessKeepalive(a) == IF a = "loop" THEN stage = "stopping"
                             ELSE stage = "closing" /\ a # "keepalive"
MayExit(a) == IF a = "loop" THEN stage = "stopping" ELSE stage = "closing"
Exits(a) ==
    /\ pc[a] = "idle" /\ MayExit(a)
    /\ Moves(a, "exited")
    /\ UNCHANGED <<sess, open, current, held, timers, stage, world>>

CloseBegins ==
    /\ stage = "stopping" /\ pc["loop"] = "exited"
    /\ stage' = "closing"
    /\ UNCHANGED <<sess, open, current, actors, timers, world>>

WorkersIgnored == TRUE
WorkersDone == \A a \in Readers \cup {"keepalive"} : pc[a] = "exited"
CloseReturns ==
    /\ stage = "closing" /\ WorkersDone
    /\ open' = {} /\ current' = None
    /\ sess' = [i \in Session |-> Blank]
    /\ stage' = "returned"
    /\ UNCHANGED <<actors, timers, world>>

----------------------------------------------------------------------------
(* How long a goroutine may stay where it is.                               *)
Patience(a) == IF pc[a] = "handshake" THEN HsTime ELSE MaxPause
Blocked(a) == pc[a] \in {"idle", "exited"} \/ (pc[a] = "want" /\ ~ HsFree)

Older(s) ==
    [age |-> IF s.age < AgeCap THEN s.age + 1 ELSE s.age,
     retired |-> IF s.retired \in 0 .. Grace THEN s.retired + 1 ELSE s.retired]

Tick ==
    /\ \A a \in Actors : Blocked(a) \/ wait[a] < Patience(a)
    /\ kaAge < KeepaliveEvery \/ pc["keepalive"] # "idle"
    /\ reapAge < ReapEvery \/ stage = "returned"
    /\ sess' = [i \in Session |-> IF i \in open THEN Older(sess[i]) ELSE sess[i]]
    /\ wait' = [a \in Actors |-> IF Blocked(a) THEN 0 ELSE wait[a] + 1]
    /\ kaAge' = IF kaAge < KeepaliveEvery THEN kaAge + 1 ELSE kaAge
    /\ reapAge' = IF reapAge < ReapEvery THEN reapAge + 1 ELSE reapAge
    /\ UNCHANGED <<open, current, pc, held, stage, world>>

----------------------------------------------------------------------------
SenderStep(p) == LockForSend(p) \/ Seal(p) \/ HandshakeOk(p) \/ HandshakeFails(p)
RekeyStep == RekeyBegins \/ LockForRekey \/ RekeyEnds
                \/ HandshakeOk("rekey") \/ HandshakeFails("rekey")

Next ==
    \/ LoopSends
    \/ KeepaliveFires
    \/ \E p \in Senders : SenderStep(p)
    \/ RekeyStep
    \/ \E r \in Readers : ReaderFinds(r) \/ ReaderOpens(r)
    \/ Reap
    \/ Stop
    \/ \E a \in Users : Exits(a)
    \/ CloseBegins
    \/ CloseReturns
    \/ Tick

Spec == Init /\ [][Next]_vars

\* Goroutines that can run do; select and the mutex are not starved forever.
FairSpec ==
    /\ Spec
    /\ \A p \in Senders : SF_vars(SenderStep(p))
    /\ WF_vars(RekeyStep)
    /\ \A r \in Readers : WF_vars(ReaderOpens(r) \/ Exits(r))
    /\ \A p \in Senders : SF_vars(Exits(p))
    /\ WF_vars(CloseBegins \/ CloseReturns)

----------------------------------------------------------------------------
(* Ages, program counters and references are in range.                      *)
TypeOK ==
    /\ sess \in [Session -> [age : 0 .. AgeCap, retired : -1 .. Grace + 1]]
    /\ open \subseteq Session /\ current \in open \cup {None}
    /\ pc \in [Actors -> {"idle", "begun", "want", "handshake", "have", "late", "ending", "exited"}]
    /\ held \in [Actors -> Session \cup {None}]
    /\ wait \in [Actors -> 0 .. MaxOf(HsTime, MaxPause)]
    /\ kaAge \in 0 .. KeepaliveEvery /\ reapAge \in 0 .. ReapEvery
    /\ stage \in {"running", "stopping", "closing", "returned"} /\ world \in Worlds

(* No goroutine encrypts or decrypts with keys that were closed: a session    *)
(* selected before a rekey, a reap or Close stays open until its user is done *)
(* with it.  One user is exempt, a reader at "late": handleTransport checks no *)
(* age and holds no lock, so a datagram that names an outlived session may be *)
(* looked up just before the reaper closes the keys it is then opened with.   *)
KeysOpenWhileHeld == \A p \in Users : pc[p] = "have" => held[p] \in open

(* "Do not immediately rekey that fresh session": however senders and the     *)
(* background rekey meet, a session is replaced only when it is due.          *)
FreshNeverReplaced ==
    [][current # None /\ current' \notin {None, current} =>
          ShouldRekey(current) \/ Expired(sess[current])]_vars

(* "A periodic rekey must never stall Discord/Telegram packets behind the     *)
(* handshake RTT": with an answering peer and keepalives on, no sender waits  *)
(* for a handshake once there is a session, until Close.                     *)
NeverStalls ==
    Reliable /\ current # None /\ stage \in {"running", "stopping"} =>
       \A p \in Senders : pc[p] \notin {"want", "handshake"}

(* The table of sessions stays small: with the reaper running, a connection   *)
(* that is up for days keeps only the sessions of the last few minutes, and   *)
(* after Close at most the one is left that a background rekey, which Close   *)
(* does not wait for, installed last.                                        *)
TableBounded ==
    Cardinality(open) <= IF stage = "returned" THEN 1 ELSE 2 + (Grace + ReapEvery) \div RekeyAfter

(* Stopping comes to an end: Close waits for goroutines that wait for a       *)
(* mutex, and none of them waits for it.                                     *)
CloseEnds == stage = "stopping" ~> stage = "returned"
=============================================================================
