------------------------- MODULE WgSessions_proofs --------------------------
(***************************************************************************)
(* Sessions in use are not closed under their user, none is replaced          *)
(* before they are due, few at a time, and, with a peer that answers and       *)
(* keepalives on, never make a sender wait: for any number of readers and any  *)
(* timers in the ratios of the assumptions of WgSessions.                      *)
(***************************************************************************)
EXTENDS WgSessions, FiniteSetTheorems, TLAPS

SessionRec == [age : Nat, retired : Int]
Pcs == {"idle", "begun", "want", "handshake", "have", "late", "ending", "exited"}

Types ==
    /\ world \in Worlds
    /\ sess \in [Session -> SessionRec]
    /\ open \subseteq Session /\ current \in open \cup {None}
    /\ pc \in [Actors -> Pcs]
    /\ held \in [Actors -> Session \cup {None}]
    /\ wait \in [Actors -> Nat]
    /\ kaAge \in 0 .. KeepaliveEvery
    /\ stage \in {"running", "stopping", "closing", "returned"}

(* hsMu is a mutex, and readers never take it.                               *)
OneHandshake ==
    /\ \A a, b \in Actors : pc[a] = "handshake" /\ pc[b] = "handshake" => a = b
    /\ \A r \in Readers : pc[r] \in {"idle", "have", "late", "exited"}

(* Whoever runs a handshake found no session, or one that is due; and the      *)
(* base session of a rekey that has not got hsMu yet is due if it is still    *)
(* current.                                                                 *)
HandshakeDue ==
    current # None =>
       /\ \A a \in Actors : pc[a] = "handshake" => ShouldRekey(current)
       /\ pc["rekey"] \in {"begun", "want"} /\ held["rekey"] = current => ShouldRekey(current)

(* Only replaced sessions are retired, and a session is not retired before    *)
(* RekeyAfter.                                                              *)
RetiredLate ==
    /\ current # None => sess[current].retired = NotRetired
    /\ \A i \in open : sess[i].retired >= 0 /\ sess[i].age <= PeerKeeps
                         => sess[i].retired + RekeyAfter <= sess[i].age

(* Nobody stays anywhere longer than the scheduler allows.                   *)
Patient == \A a \in Actors : pc[a] \notin {"idle", "exited"} => wait[a] <= Patience(a)

(* The session a sender holds was current when it took it.                   *)
SenderHolds ==
    \A p \in Senders : pc[p] = "have" =>
       held[p] \in open /\ sess[held[p]].retired <= wait[p]

(* The session a reader holds was not outlived w ticks ago: it was not retired *)
(* yet, or the peer still used it.                                           *)
Lately(s, w) == s.retired <= w \/ s.retired + RekeyAfter <= PeerKeeps + w
ReaderHolds ==
    \A r \in Readers : pc[r] = "have" => held[r] \in open /\ Lately(sess[held[r]], wait[r])

(* Close has waited for those who could hold a session.                      *)
Stopped ==
    /\ stage \in {"closing", "returned"} => pc["loop"] = "exited"
    /\ stage = "returned" => \A a \in Readers \cup {"keepalive"} : pc[a] = "exited"

KeyInv ==
    /\ Types /\ OneHandshake /\ HandshakeDue /\ RetiredLate /\ Patient
    /\ SenderHolds /\ ReaderHolds /\ Stopped

----------------------------------------------------------------------------
(* With a peer that answers, as long as the runtime runs.                     *)
Serving == Reliable /\ stage \in {"running", "stopping"}

(* The keepalive goroutine is never in ensureSession's slow path, and while   *)
(* it holds a session its ticker counts along.                               *)
KeepaliveSteady ==
    Serving => /\ pc["keepalive"] \in {"idle", "have"}
               /\ pc["keepalive"] = "have" => kaAge = wait["keepalive"]

(* A rekey starts from the current session and nobody else replaces it.      *)
RekeySteady ==
    Serving =>
       /\ pc["rekey"] \notin {"have", "late", "exited"}
       /\ current = None => pc["rekey"] = "idle"
       /\ pc["rekey"] \in {"begun", "want", "handshake"} => held["rekey"] = current

(* How old the current session can be at each point of the rekey.            *)
AgeBound ==
    Serving /\ current # None =>
       LET age == sess[current].age
           start == RekeyAfter + KeepaliveEvery
       IN  /\ pc["rekey"] \in {"idle", "ending"} => age < RekeyAfter + kaAge
           /\ pc["rekey"] = "ending" => age <= wait["rekey"]
           /\ pc["rekey"] = "begun" => age < start + wait["rekey"]
           /\ pc["rekey"] = "want" => age < start + MaxPause + wait["rekey"]
           /\ pc["rekey"] = "handshake" => age < start + MaxPause + MaxPause + wait["rekey"]

SteadyInv == KeepaliveSteady /\ RekeySteady /\ AgeBound /\ NeverStalls

----------------------------------------------------------------------------
(* The timers of a world are numbers, and steps stay in their world.         *)
LEMMA WorldFacts ==
    ASSUME world \in Worlds
    PROVE  /\ RekeyAfter \in Nat \ {0} /\ KeepaliveEvery \in Nat \ {0} /\ RejectAfter \in Nat
           /\ Grace \in Nat /\ PeerKeeps \in Nat /\ HsTime \in Nat /\ MaxPause \in Nat
           /\ RekeyAfter <= RejectAfter /\ Reliable \in BOOLEAN
           /\ MaxPause <= Grace /\ PeerKeeps + MaxPause <= Grace + RekeyAfter
           /\ Session \subseteq Nat \ {0}
<1>1. /\ {world.RekeyAfter, world.ReapEvery, world.KeepaliveEvery, world.Slots} \subseteq Nat \ {0}
      /\ {world.RejectAfter, world.Grace, world.PeerKeeps, world.HsTime, world.MaxPause} \subseteq Nat
      /\ world.RekeyAfter <= world.RejectAfter /\ world.Reliable \in BOOLEAN
  BY SessionsAssumption
<1>2. world.MaxPause <= world.Grace
      /\ world.PeerKeeps + world.MaxPause <= world.Grace + world.RekeyAfter
  BY GraceAssumption
<1>3. QED BY <1>1, <1>2 DEF RekeyAfter, KeepaliveEvery, RejectAfter, Grace, PeerKeeps, HsTime,
     MaxPause, Reliable, Session

(* The world a behaviour began in never changes.                             *)
LEMMA WorldKept ==
    ASSUME world' = world
    PROVE  /\ RekeyAfter' = RekeyAfter /\ KeepaliveEvery' = KeepaliveEvery
           /\ RejectAfter' = RejectAfter /\ Grace' = Grace /\ PeerKeeps' = PeerKeeps
           /\ HsTime' = HsTime /\ MaxPause' = MaxPause /\ Reliable' = Reliable
           /\ Session' = Session
<1>1. QED BY DEF RekeyAfter, KeepaliveEvery, RejectAfter, Grace, PeerKeeps, HsTime,
     MaxPause, Reliable, Session

(* The actors have different names.                                         *)
LEMMA ActorNames ==
    /\ "loop" \in Senders /\ "keepalive" \in Senders /\ "rekey" \in Actors
    /\ Senders \subseteq Actors /\ Readers \subseteq Actors
    /\ "rekey" \notin Senders /\ "rekey" \notin Readers
    /\ \A p \in Senders : p \notin Readers
<1>1. QED BY ReadersAssumption DEF Senders, Users, Actors

(* The first session, with no sender at work.                                *)
LEMMA KeyInit == Init => KeyInv
<1> SUFFICES ASSUME Init PROVE KeyInv
  OBVIOUS
<1>1. world \in Worlds
  BY DEF Init
<1>2. Types
  BY <1>1, WorldFacts DEF Init, Types, Blank, SessionRec, NotRetired, None, Pcs
<1>3. \A a \in Actors : pc[a] = "idle"
  BY DEF Init
<1>4. open = {} /\ current = None /\ stage = "running"
  BY DEF Init
<1>5. QED BY <1>2, <1>3, <1>4, ActorNames DEF KeyInv, OneHandshake, HandshakeDue, RetiredLate,
     Patient, SenderHolds, ReaderHolds, Stopped

----------------------------------------------------------------------------
(* Most steps only move goroutines from one line to the next.  Moved says     *)
(* what such a move must respect.                                            *)
Stays(a) == pc'[a] = pc[a] /\ held'[a] = held[a] /\ wait'[a] = wait[a]
Moved(a) ==
    /\ wait'[a] = 0
    /\ pc'[a] = "handshake" => /\ a \notin Readers
                               /\ \A b \in Actors : b # a => pc'[b] # "handshake"
                               /\ current # None => ShouldRekey(current)
    /\ a \in Readers => pc'[a] \in {"idle", "have", "late", "exited"}
    /\ a = "rekey" /\ pc'[a] \in {"begun", "want"} /\ held'[a] = current /\ current # None
         => ShouldRekey(current)
    /\ pc'[a] = "have" =>
         /\ a \in Senders => held'[a] = current /\ current # None
         /\ a \in Readers => held'[a] \in open /\ ~ Outlived(sess[held'[a]])
    /\ a = "loop" /\ stage \in {"closing", "returned"} => pc'[a] = "exited"
    /\ a \in Readers \cup {"keepalive"} /\ stage = "returned" => pc'[a] = "exited"

MovesOnly ==
    /\ UNCHANGED <<sess, open, current, stage, world>>
    /\ kaAge' \in 0 .. KeepaliveEvery
    /\ pc' \in [Actors -> Pcs] /\ held' \in [Actors -> Session \cup {None}]
    /\ wait' \in [Actors -> Nat]
    /\ \A a \in Actors : Stays(a) \/ Moved(a)

(* A step that moves a goroutine and no session keeps the keys.              *)
LEMMA MovesKeepKeys == ASSUME KeyInv, MovesOnly PROVE KeyInv'
<1>1. world' = world /\ world \in Worlds /\ sess' = sess /\ open' = open /\ current' = current
      /\ stage' = stage
  BY DEF KeyInv, Types, MovesOnly
<1> USE <1>1, WorldFacts, WorldKept, ActorNames
<1>2. \A a \in Actors : Stays(a) \/ Moved(a)
  BY DEF MovesOnly
<1>3. Types'
  BY DEF KeyInv, Types, MovesOnly
<1>4. OneHandshake'
  <2>1. ASSUME NEW a \in Actors, NEW b \in Actors, pc'[a] = "handshake", pc'[b] = "handshake"
        PROVE  a = b
    BY <1>2, <2>1 DEF KeyInv, OneHandshake, Stays, Moved
  <2>2. ASSUME NEW r \in Readers PROVE pc'[r] \in {"idle", "have", "late", "exited"}
    BY <1>2 DEF KeyInv, OneHandshake, Stays, Moved
  <2>3. QED BY <2>1, <2>2 DEF OneHandshake
<1>5. HandshakeDue'
  <2>1. SUFFICES ASSUME current # None
                 PROVE  /\ \A a \in Actors : pc'[a] = "handshake" => ShouldRekey(current)
                        /\ pc'["rekey"] \in {"begun", "want"} /\ held'["rekey"] = current
                             => ShouldRekey(current)
    BY DEF HandshakeDue, ShouldRekey
  <2>2. ASSUME NEW a \in Actors, pc'[a] = "handshake" PROVE ShouldRekey(current)
    BY <1>2, <2>1, <2>2 DEF KeyInv, HandshakeDue, Stays, Moved
  <2>3. ASSUME pc'["rekey"] \in {"begun", "want"}, held'["rekey"] = current
        PROVE  ShouldRekey(current)
    BY <1>2, <2>1, <2>3 DEF KeyInv, HandshakeDue, Stays, Moved
  <2>4. QED BY <2>2, <2>3
<1>6. RetiredLate'
  BY DEF KeyInv, RetiredLate
<1>7. Patient'
  <2>1. SUFFICES ASSUME NEW a \in Actors, pc'[a] \notin {"idle", "exited"}
                 PROVE  wait'[a] <= Patience(a)'
    BY DEF Patient
  <2>2. CASE Moved(a)
    BY <2>2 DEF Moved, Patience
  <2>3. CASE Stays(a)
    BY <2>1, <2>3 DEF Stays, Patience, KeyInv, Patient
  <2>4. QED BY <1>2, <2>2, <2>3
<1>8. SenderHolds'
  <2>1. SUFFICES ASSUME NEW p \in Senders, pc'[p] = "have"
                 PROVE  held'[p] \in open /\ sess[held'[p]].retired <= wait'[p]
    BY DEF SenderHolds
  <2>2. CASE Moved(p)
    <3>1. held'[p] = current /\ current # None /\ wait'[p] = 0
      BY <2>1, <2>2 DEF Moved
    <3>2. current \in open /\ sess[current].retired = -1
      BY <3>1 DEF KeyInv, Types, RetiredLate, NotRetired
    <3>3. QED BY <3>1, <3>2
  <2>3. CASE Stays(p)
    BY <2>1, <2>3 DEF Stays, KeyInv, SenderHolds
  <2>4. QED BY <1>2, <2>2, <2>3
<1>9. ReaderHolds'
  <2>1. SUFFICES ASSUME NEW r \in Readers, pc'[r] = "have"
                 PROVE  held'[r] \in open /\ Lately(sess[held'[r]], wait'[r])
    BY DEF ReaderHolds, Lately
  <2>2. CASE Moved(r)
    <3>1. held'[r] \in open /\ ~ Outlived(sess[held'[r]]) /\ wait'[r] = 0
      BY <2>1, <2>2 DEF Moved
    <3>2. sess[held'[r]].retired \in Int /\ sess[held'[r]].age \in Nat
      BY <3>1 DEF KeyInv, Types, SessionRec
    <3>3. sess[held'[r]].retired >= 0 /\ sess[held'[r]].age <= PeerKeeps
            => sess[held'[r]].retired + RekeyAfter <= sess[held'[r]].age
      BY <3>1 DEF KeyInv, RetiredLate
    <3>4. QED BY <3>1, <3>2, <3>3 DEF Outlived, NotRetired, Lately
  <2>3. CASE Stays(r)
    BY <2>1, <2>3 DEF Stays, KeyInv, ReaderHolds
  <2>4. QED BY <1>2, <2>2, <2>3
<1>10. Stopped'
  <2>1. ASSUME stage \in {"closing", "returned"} PROVE pc'["loop"] = "exited"
    BY <1>2, <2>1 DEF KeyInv, Stopped, Stays, Moved
  <2>2. ASSUME stage = "returned", NEW a \in Readers \cup {"keepalive"} PROVE pc'[a] = "exited"
    BY <1>2, <2>2 DEF KeyInv, Stopped, Stays, Moved
  <2>3. QED BY <2>1, <2>2 DEF Stopped
<1>11. QED BY <1>3, <1>4, <1>5, <1>6, <1>7, <1>8, <1>9, <1>10 DEF KeyInv

(* One goroutine moves.                                                      *)
LEMMA OneMove ==
    ASSUME KeyInv, NEW a \in Actors, NEW to \in Pcs, NEW h \in Session \cup {None},
           pc[a] # "exited", Moves(a, to), held' = [held EXCEPT ![a] = h],
           UNCHANGED <<sess, open, current, stage, world>>, kaAge' \in 0 .. KeepaliveEvery,
           to = "handshake" => HsFree /\ a \notin Readers /\ (current # None => ShouldRekey(current)),
           a \in Readers => to \in {"idle", "have", "late", "exited"},
           a = "rekey" /\ to \in {"begun", "want"} /\ h = current /\ current # None
             => ShouldRekey(current),
           to = "have" /\ a \in Senders => h = current /\ current # None,
           to = "have" /\ a \in Readers => h \in open /\ ~ Outlived(sess[h])
    PROVE  MovesOnly
<1>1. pc' = [pc EXCEPT ![a] = to] /\ wait' = [wait EXCEPT ![a] = 0]
  BY DEF Moves
<1>2. pc \in [Actors -> Pcs] /\ held \in [Actors -> Session \cup {None}] /\ wait \in [Actors -> Nat]
  BY DEF KeyInv, Types
<1>3. pc'[a] = to /\ held'[a] = h /\ wait'[a] = 0
  BY <1>1, <1>2
<1>4. \A b \in Actors : b # a => Stays(b)
  BY <1>1, <1>2 DEF Stays
<1>5. Moved(a)
  <2>1. to = "handshake" => \A b \in Actors : b # a => pc'[b] # "handshake"
    BY <1>4 DEF HsFree, Stays
  <2>2. /\ a = "loop" /\ stage \in {"closing", "returned"} => to = "exited"
        /\ a \in Readers \cup {"keepalive"} /\ stage = "returned" => to = "exited"
    BY DEF KeyInv, Stopped
  <2>3. QED BY <1>3, <2>1, <2>2 DEF Moved
<1>6. QED BY <1>1, <1>2, <1>4, <1>5 DEF MovesOnly

(* The same when held is left alone.                                         *)
LEMMA OneMoveHolding ==
    ASSUME KeyInv, NEW a \in Actors, NEW to \in Pcs,
           pc[a] # "exited", Moves(a, to), held' = held,
           UNCHANGED <<sess, open, current, stage, world>>, kaAge' \in 0 .. KeepaliveEvery,
           to = "handshake" => HsFree /\ a \notin Readers /\ (current # None => ShouldRekey(current)),
           a \in Readers => to \in {"idle", "exited"}, to # "have",
           a = "rekey" /\ to \in {"begun", "want"} /\ held["rekey"] = current /\ current # None
             => ShouldRekey(current)
    PROVE  MovesOnly
<1>1. held \in [Actors -> Session \cup {None}]
  BY DEF KeyInv, Types
<1>2. held' = [held EXCEPT ![a] = held[a]] /\ held[a] \in Session \cup {None}
  BY <1>1
<1>3. QED BY <1>2, OneMove

(* ensureSession returns the current session, which may start a rekey.        *)
LEMMA TakesMoves ==
    ASSUME KeyInv, NEW p \in Senders, pc[p] # "exited", Usable(current), TakesCurrent(p),
           UNCHANGED <<sess, open, current, stage, world>>, kaAge' \in 0 .. KeepaliveEvery
    PROVE  MovesOnly
<1>1. current # None /\ current \in Session
  BY DEF Usable, KeyInv, Types
<1>2. CASE ~ StartsRekey
  <2>1. Moves(p, "have") /\ held' = [held EXCEPT ![p] = current]
    BY <1>2 DEF TakesCurrent
  <2>2. QED BY <1>1, <2>1, OneMove, ActorNames DEF Pcs
<1>3. CASE StartsRekey
  <2>1. /\ pc' = [pc EXCEPT ![p] = "have", !["rekey"] = "begun"]
        /\ held' = [held EXCEPT ![p] = current, !["rekey"] = current]
        /\ wait' = [wait EXCEPT ![p] = 0, !["rekey"] = 0]
    BY <1>3 DEF TakesCurrent
  <2>2. pc \in [Actors -> Pcs] /\ held \in [Actors -> Session \cup {None}]
        /\ wait \in [Actors -> Nat]
    BY DEF KeyInv, Types
  <2>3. p \in Actors /\ "rekey" \in Actors /\ p # "rekey"
    BY ActorNames
  <2>4. pc' \in [Actors -> Pcs] /\ held' \in [Actors -> Session \cup {None}]
        /\ wait' \in [Actors -> Nat]
    BY <1>1, <2>1, <2>2, <2>3 DEF Pcs
  <2>5. \A a \in Actors : a # p /\ a # "rekey" => Stays(a)
    BY <2>1, <2>2 DEF Stays
  <2>6. Moved(p)
    <3>1. pc'[p] = "have" /\ held'[p] = current /\ wait'[p] = 0
      BY <2>1, <2>2, <2>3
    <3>2. ~ (p = "loop" /\ stage \in {"closing", "returned"})
          /\ ~ (p = "keepalive" /\ stage = "returned")
      BY DEF KeyInv, Stopped
    <3>3. QED BY <1>1, <2>3, <3>1, <3>2, ActorNames DEF Moved
  <2>7. Moved("rekey")
    <3>1. pc'["rekey"] = "begun" /\ held'["rekey"] = current /\ wait'["rekey"] = 0
      BY <2>1, <2>2, <2>3
    <3>2. QED BY <1>3, <3>1, ActorNames DEF Moved, StartsRekey
  <2>8. QED BY <2>4, <2>5, <2>6, <2>7 DEF MovesOnly
<1>4. QED BY <1>2, <1>3

(* A session that cannot be used is due.                                     *)
LEMMA UnusableDue == ASSUME KeyInv, ~ Usable(current), current # None PROVE ShouldRekey(current)
<1>1. sess[current].age \in Nat
  BY DEF KeyInv, Types, SessionRec
<1>2. RekeyAfter \in Nat /\ RejectAfter \in Nat /\ RekeyAfter <= RejectAfter
  BY WorldFacts DEF KeyInv, Types
<1>3. QED BY <1>1, <1>2 DEF Usable, Expired, ShouldRekey

(* Senders pick up and put down references only.                             *)
LEMMA SenderMoves ==
    ASSUME KeyInv, NEW p \in Senders,
           \/ LoopSends \/ KeepaliveFires \/ LockForSend(p) \/ Seal(p)
    PROVE  MovesOnly
<1> USE ActorNames
<1>1. kaAge \in 0 .. KeepaliveEvery /\ 0 \in 0 .. KeepaliveEvery
  BY WorldFacts DEF KeyInv, Types
<1>2. ASSUME NEW q \in Senders, Sends(q), UNCHANGED <<sess, open, current, stage, world>>,
             kaAge' \in 0 .. KeepaliveEvery
      PROVE  MovesOnly
  <2>1. pc[q] = "idle"
    BY <1>2 DEF Sends
  <2>2. CASE Usable(current)
    BY <1>2, <2>1, <2>2, TakesMoves DEF Sends
  <2>3. CASE ~ Usable(current)
    <3>1. Moves(q, "want") /\ held' = held
      BY <1>2, <2>3 DEF Sends
    <3>2. QED BY <1>2, <2>1, <3>1, OneMoveHolding DEF Pcs
  <2>4. QED BY <2>2, <2>3
<1>3. CASE LoopSends
  BY <1>1, <1>2, <1>3 DEF LoopSends, timers
<1>4. CASE KeepaliveFires
  <2>1. CASE current = None
    BY <1>1, <1>4, <2>1 DEF KeepaliveFires, actors, MovesOnly, Stays, KeyInv, Types
  <2>2. CASE current # None
    BY <1>1, <1>2, <1>4, <2>2 DEF KeepaliveFires
  <2>3. QED BY <2>1, <2>2
<1>5. CASE LockForSend(p)
  <2>1. pc[p] = "want" /\ HsFree /\ UNCHANGED <<sess, open, current, stage, world>> /\ kaAge' = kaAge
    BY <1>5 DEF LockForSend, timers
  <2>2. CASE Usable(current)
    BY <1>1, <1>5, <2>1, <2>2, TakesMoves DEF LockForSend, FoundUsable
  <2>3. CASE ~ Usable(current)
    <3>1. Moves(p, "handshake") /\ held' = held
      BY <1>5, <2>3 DEF LockForSend, FoundUsable
    <3>2. QED BY <1>1, <2>1, <2>3, <3>1, OneMoveHolding, UnusableDue DEF Pcs
  <2>4. QED BY <2>2, <2>3
<1>6. CASE Seal(p)
  <2>1. pc[p] = "have" /\ UNCHANGED <<sess, open, current, stage, world>> /\ kaAge' = kaAge
        /\ Moves(p, "idle") /\ held' = [held EXCEPT ![p] = None]
    BY <1>6 DEF Seal, timers
  <2>2. QED BY <1>1, <2>1, OneMove DEF Pcs
<1>7. QED BY <1>3, <1>4, <1>5, <1>6

(* The rekey loop waits and decides before it touches a session.             *)
LEMMA RekeyMoves ==
    ASSUME KeyInv, RekeyBegins \/ LockForRekey \/ RekeyEnds
    PROVE  MovesOnly
<1> USE ActorNames
<1>1. kaAge \in 0 .. KeepaliveEvery
  BY DEF KeyInv, Types
<1>2. CASE RekeyBegins
  <2> DEFINE to == IF stage \in {"closing", "returned"} THEN "ending" ELSE "want"
  <2>1. pc["rekey"] = "begun" /\ Moves("rekey", to) /\ held' = held /\ to \in {"ending", "want"}
        /\ UNCHANGED <<sess, open, current, stage, world>> /\ kaAge' = kaAge
    BY <1>2 DEF RekeyBegins, timers
  <2>2. held["rekey"] = current /\ current # None => ShouldRekey(current)
    BY <2>1 DEF KeyInv, HandshakeDue
  <2> HIDE DEF to
  <2>3. QED BY <1>1, <2>1, <2>2, OneMoveHolding DEF Pcs
<1>3. CASE LockForRekey
  <2> DEFINE to == IF AlreadyFresh THEN "ending" ELSE "handshake"
  <2>1. pc["rekey"] = "want" /\ HsFree /\ Moves("rekey", to) /\ held' = held
        /\ UNCHANGED <<sess, open, current, stage, world>> /\ kaAge' = kaAge
    BY <1>3 DEF LockForRekey, timers
  <2>2. to \in {"ending", "handshake"}
    OBVIOUS
  <2>3. ~ AlreadyFresh /\ current # None => ShouldRekey(current)
    BY <2>1, UnusableDue DEF AlreadyFresh, KeyInv, HandshakeDue
  <2>4. to = "handshake" /\ current # None => ShouldRekey(current)
    BY <2>3
  <2> HIDE DEF to
  <2>5. QED BY <1>1, <2>1, <2>2, <2>4, OneMoveHolding DEF Pcs
<1>4. CASE RekeyEnds
  <2>1. pc["rekey"] = "ending" /\ Moves("rekey", "idle") /\ held' = [held EXCEPT !["rekey"] = None]
        /\ UNCHANGED <<sess, open, current, stage, world>> /\ kaAge' = kaAge
    BY <1>4 DEF RekeyEnds, timers
  <2>2. QED BY <1>1, <2>1, OneMove DEF Pcs
<1>5. QED BY <1>2, <1>3, <1>4

(* The remaining goroutines leave sessions alone.                            *)
LEMMA OtherMoves ==
    ASSUME KeyInv, NEW a \in Actors,
           \/ HandshakeFails(a)
           \/ a \in Readers /\ (ReaderFinds(a) \/ ReaderOpens(a))
           \/ a \in Users /\ Exits(a)
    PROVE  MovesOnly
<1> USE ActorNames
<1>1. kaAge \in 0 .. KeepaliveEvery
  BY DEF KeyInv, Types
<1>2. CASE HandshakeFails(a)
  <2> DEFINE to == IF a = "rekey" THEN "ending" ELSE "idle"
  <2>1. pc[a] = "handshake" /\ Moves(a, to) /\ held' = held /\ to \in {"ending", "idle"}
        /\ UNCHANGED <<sess, open, current, stage, world>> /\ kaAge' = kaAge
    BY <1>2 DEF HandshakeFails, timers
  <2>2. a \notin Readers
    BY <2>1 DEF KeyInv, OneHandshake
  <2> HIDE DEF to
  <2>3. QED BY <1>1, <2>1, <2>2, OneMoveHolding DEF Pcs
<1>3. CASE a \in Readers /\ ReaderFinds(a)
  <2>1. PICK i \in open : /\ held' = [held EXCEPT ![a] = i]
                          /\ Moves(a, IF Outlived(sess[i]) THEN "late" ELSE "have")
    BY <1>3 DEF ReaderFinds
  <2>2. pc[a] = "idle" /\ UNCHANGED <<sess, open, current, stage, world>> /\ kaAge' = kaAge
    BY <1>3 DEF ReaderFinds, timers
  <2>3. i \in Session \cup {None}
    BY <2>1 DEF KeyInv, Types
  <2>4. CASE Outlived(sess[i])
    <3>1. Moves(a, "late")
      BY <2>1, <2>4
    <3>2. QED BY <1>1, <1>3, <2>1, <2>2, <2>3, <3>1, OneMove DEF Pcs
  <2>5. CASE ~ Outlived(sess[i])
    <3>1. Moves(a, "have")
      BY <2>1, <2>5
    <3>2. QED BY <1>1, <1>3, <2>1, <2>2, <2>3, <2>5, <3>1, OneMove DEF Pcs
  <2>6. QED BY <2>4, <2>5
<1>4. CASE a \in Readers /\ ReaderOpens(a)
  <2>1. pc[a] # "exited" /\ Moves(a, "idle") /\ held' = [held EXCEPT ![a] = None]
        /\ UNCHANGED <<sess, open, current, stage, world>> /\ kaAge' = kaAge
    BY <1>4 DEF ReaderOpens, timers
  <2>2. QED BY <1>1, <2>1, OneMove DEF Pcs
<1>5. CASE a \in Users /\ Exits(a)
  <2>1. pc[a] = "idle" /\ Moves(a, "exited") /\ held' = held
        /\ UNCHANGED <<sess, open, current, stage, world>> /\ kaAge' = kaAge
    BY <1>5 DEF Exits, timers
  <2>2. QED BY <1>1, <2>1, OneMoveHolding DEF Pcs
<1>6. QED BY <1>2, <1>3, <1>4, <1>5

----------------------------------------------------------------------------
(* What Retire leaves of a session.                                          *)
LEMMA RetireFields ==
    ASSUME NEW r \in SessionRec
    PROVE  /\ Retire(r) \in SessionRec /\ Retire(r).age = r.age
           /\ Retire(r).retired = IF r.retired = NotRetired THEN 0 ELSE r.retired
<1>1. QED BY DEF Retire, SessionRec, NotRetired

(* installSession: the new session takes a slot nobody refers to, and the     *)
(* previous one, which is due, is retired with its keys open.                 *)
LEMMA InstallKeeps == ASSUME KeyInv, NEW a \in Actors, HandshakeOk(a) PROVE KeyInv'
<1> USE ActorNames
<1>1. PICK i \in FreeSlots : Install(i) /\ held' = [held EXCEPT ![a] = IF a = "rekey" THEN @ ELSE i]
  BY DEF HandshakeOk
<1> DEFINE to == IF a = "rekey" THEN "ending" ELSE "have"
<1>2. pc[a] = "handshake" /\ pc' = [pc EXCEPT ![a] = to] /\ wait' = [wait EXCEPT ![a] = 0]
      /\ kaAge' = kaAge /\ stage' = stage /\ world' = world
  BY DEF HandshakeOk, Moves, timers
<1>3. world \in Worlds /\ sess \in [Session -> SessionRec] /\ open \subseteq Session
      /\ current \in open \cup {None} /\ pc \in [Actors -> Pcs]
      /\ held \in [Actors -> Session \cup {None}] /\ wait \in [Actors -> Nat]
  BY DEF KeyInv, Types
<1> USE WorldFacts, WorldKept, <1>3
<1>4. i \in Session /\ i \notin open /\ i # current /\ i # None /\ \A b \in Actors : held[b] # i
  BY DEF FreeSlots, None
<1>5. current' = i /\ open' = open \cup {i}
      /\ sess' = [j \in Session |-> IF j = i THEN Blank
                                    ELSE IF j = current THEN Retire(sess[j]) ELSE sess[j]]
  BY <1>1 DEF Install
<1>6. sess'[i] = Blank /\ Blank \in SessionRec
  BY <1>4, <1>5 DEF Blank, SessionRec, NotRetired
<1>7. ASSUME NEW j \in Session, j # i
      PROVE  /\ sess'[j] \in SessionRec /\ sess'[j].age = sess[j].age
             /\ sess'[j].retired = IF j = current /\ sess[j].retired = NotRetired THEN 0
                                   ELSE sess[j].retired
  BY <1>5, <1>7, RetireFields
<1>8. a \notin Readers
  BY <1>2 DEF KeyInv, OneHandshake
<1>9. to \in Pcs /\ to # "handshake" /\ pc'[a] = to /\ wait'[a] = 0
      /\ \A b \in Actors : b # a => pc'[b] = pc[b] /\ held'[b] = held[b] /\ wait'[b] = wait[b]
  BY <1>1, <1>2 DEF Pcs
<1>10. held'[a] = IF a = "rekey" THEN held[a] ELSE i
  BY <1>1
<1>11. current # None => sess[current].age >= RekeyAfter
  BY <1>2 DEF KeyInv, HandshakeDue, ShouldRekey
<1>12. Types'
  <2>1. sess' \in [Session -> SessionRec]
    <3>1. \A j \in Session : sess'[j] \in SessionRec
      BY <1>6, <1>7
    <3>2. QED BY <1>5, <3>1
  <2>2. pc' \in [Actors -> Pcs] /\ wait' \in [Actors -> Nat]
    BY <1>2, <1>9
  <2>3. held' \in [Actors -> Session \cup {None}]
    BY <1>1, <1>4
  <2>4. QED BY <1>2, <1>4, <1>5, <2>1, <2>2, <2>3 DEF Types, KeyInv
<1>13. \A b \in Actors : pc'[b] # "handshake"
  BY <1>2, <1>9 DEF KeyInv, OneHandshake
<1>14. OneHandshake'
  BY <1>8, <1>9, <1>13 DEF KeyInv, OneHandshake
<1>15. HandshakeDue'
  <2>1. held'["rekey"] # i
    BY <1>4, <1>9, <1>10
  <2>2. QED BY <1>5, <1>13, <2>1 DEF HandshakeDue
<1>16. RetiredLate'
  <2>1. sess'[i].retired = NotRetired /\ ~ (NotRetired >= 0)
    BY <1>6 DEF Blank, NotRetired
  <2>2. ASSUME NEW j \in open, sess'[j].retired >= 0, sess'[j].age <= PeerKeeps
        PROVE  sess'[j].retired + RekeyAfter <= sess'[j].age
    <3>1. j \in Session /\ j # i /\ sess[j] \in SessionRec
      BY <1>4
    <3>2. CASE j = current /\ sess[j].retired = NotRetired
      BY <1>7, <1>11, <3>1, <3>2 DEF None, SessionRec
    <3>3. CASE ~ (j = current /\ sess[j].retired = NotRetired)
      BY <1>7, <2>2, <3>1, <3>3 DEF KeyInv, RetiredLate
    <3>4. QED BY <3>2, <3>3
  <2>3. QED BY <1>2, <1>5, <2>1, <2>2 DEF RetiredLate
<1>17. Patient'
  BY <1>2, <1>9 DEF KeyInv, Patient, Patience
<1>18. SenderHolds'
  <2>1. SUFFICES ASSUME NEW p \in Senders, pc'[p] = "have"
                 PROVE  held'[p] \in open' /\ sess'[held'[p]].retired <= wait'[p]
    BY DEF SenderHolds
  <2>2. CASE p = a
    <3>1. held'[p] = i /\ wait'[p] = 0
      BY <1>9, <1>10, <2>2
    <3>2. QED BY <1>5, <1>6, <3>1 DEF Blank, NotRetired
  <2>3. CASE p # a
    <3>1. held'[p] = held[p] /\ wait'[p] = wait[p] /\ held[p] \in open
          /\ sess[held[p]].retired <= wait[p]
      BY <1>9, <2>1, <2>3 DEF KeyInv, SenderHolds
    <3>2. held[p] \in Session /\ held[p] # i /\ wait[p] \in Nat
      BY <1>4, <3>1
    <3>3. QED BY <1>5, <1>7, <3>1, <3>2
  <2>4. QED BY <2>2, <2>3
<1>19. ReaderHolds'
  <2>1. SUFFICES ASSUME NEW r \in Readers, pc'[r] = "have"
                 PROVE  held'[r] \in open' /\ Lately(sess'[held'[r]], wait'[r])
    BY <1>2 DEF ReaderHolds, Lately
  <2> DEFINE h == held[r]
  <2>2. held'[r] = h /\ wait'[r] = wait[r] /\ pc[r] = "have"
    BY <1>8, <1>9, <2>1
  <2>3. h \in open /\ Lately(sess[h], wait[r])
    BY <2>2 DEF KeyInv, ReaderHolds
  <2>4. h \in Session /\ h # i /\ wait[r] \in Nat /\ sess[h] \in SessionRec
    BY <1>4, <2>3
  <2> HIDE DEF h
  <2>5. CASE h = current /\ sess[h].retired = NotRetired
    BY <1>5, <1>7, <1>11, <2>2, <2>3, <2>4, <2>5 DEF None, SessionRec, Lately
  <2>6. CASE ~ (h = current /\ sess[h].retired = NotRetired)
    BY <1>5, <1>7, <2>2, <2>3, <2>4, <2>6 DEF Lately
  <2>7. QED BY <2>5, <2>6
<1>20. Stopped'
  BY <1>2, <1>9 DEF KeyInv, Stopped
<1>21. QED BY <1>12, <1>14, <1>15, <1>16, <1>17, <1>18, <1>19, <1>20 DEF KeyInv

(* The reaper closes no session that is current or that anybody holds: what    *)
(* a goroutine holds cannot have been retired for longer than Grace.          *)
LEMMA ReapKeeps == ASSUME KeyInv, Reap PROVE KeyInv'
<1> USE ActorNames
<1>1. /\ open' = {i \in open : i = current \/ ~ Reapable(sess[i])}
      /\ sess' = [i \in Session |-> IF i \in open' THEN sess[i] ELSE Blank]
      /\ current' = current /\ pc' = pc /\ held' = held /\ wait' = wait
      /\ kaAge' = kaAge /\ stage' = stage /\ world' = world
  BY DEF Reap, actors
<1>2. world \in Worlds /\ sess \in [Session -> SessionRec] /\ open \subseteq Session
      /\ current \in open \cup {None} /\ wait \in [Actors -> Nat]
  BY DEF KeyInv, Types
<1> USE WorldFacts, WorldKept, <1>1, <1>2
<1>3. open' \subseteq open /\ \A i \in open' : sess'[i] = sess[i]
  OBVIOUS
<1>4. current # None => current \in open' /\ sess'[current] = sess[current]
  OBVIOUS
<1>5. ASSUME NEW i \in open, sess[i].retired <= Grace PROVE i \in open'
  BY <1>5 DEF Reapable, SessionRec
<1>6. Types'
  <2>1. Blank \in SessionRec
    BY DEF Blank, SessionRec, NotRetired
  <2>2. sess' \in [Session -> SessionRec]
    BY <2>1
  <2>3. QED BY <1>3, <1>4, <2>2 DEF KeyInv, Types
<1>7. OneHandshake' /\ Stopped' /\ Patient'
  BY DEF KeyInv, OneHandshake, Stopped, Patient, Patience
<1>8. HandshakeDue' /\ RetiredLate'
  BY <1>3, <1>4 DEF KeyInv, HandshakeDue, RetiredLate, ShouldRekey
<1>9. SenderHolds'
  <2>1. SUFFICES ASSUME NEW p \in Senders, pc[p] = "have"
                 PROVE  held[p] \in open' /\ sess'[held[p]].retired <= wait[p]
    BY DEF SenderHolds
  <2>2. held[p] \in open /\ sess[held[p]].retired <= wait[p] /\ wait[p] <= MaxPause
    BY <2>1 DEF KeyInv, SenderHolds, Patient, Patience
  <2>3. sess[held[p]].retired <= Grace
    BY <2>2 DEF SessionRec
  <2>4. QED BY <1>3, <1>5, <2>2, <2>3
<1>10. ReaderHolds'
  <2>1. SUFFICES ASSUME NEW r \in Readers, pc[r] = "have"
                 PROVE  held[r] \in open' /\ Lately(sess'[held[r]], wait[r])
    BY DEF ReaderHolds, Lately
  <2>2. held[r] \in open /\ Lately(sess[held[r]], wait[r]) /\ wait[r] <= MaxPause
    BY <2>1 DEF KeyInv, ReaderHolds, Patient, Patience
  <2>3. sess[held[r]].retired <= Grace
    <3>1. sess[held[r]].retired \in Int /\ wait[r] \in Nat
      BY <2>2 DEF SessionRec
    <3>2. QED BY <2>2, <3>1 DEF Lately
  <2>4. QED BY <1>3, <1>5, <2>2, <2>3
<1>11. QED BY <1>6, <1>7, <1>8, <1>9, <1>10 DEF KeyInv

(* Runner.Close and Client.Close: when the table is emptied, everybody who     *)
(* could hold a session has returned.                                        *)
LEMMA CloseKeeps == ASSUME KeyInv, Stop \/ CloseBegins \/ CloseReturns PROVE KeyInv'
<1> USE ActorNames
<1>1. pc' = pc /\ held' = held /\ wait' = wait /\ kaAge' = kaAge /\ world' = world
  BY DEF Stop, CloseBegins, CloseReturns, actors, timers
<1>2. world \in Worlds
  BY DEF KeyInv, Types
<1> USE WorldFacts, WorldKept, <1>1, <1>2
<1>3. OneHandshake' /\ Patient'
  BY DEF KeyInv, OneHandshake, Patient, Patience
<1>4. CASE Stop \/ CloseBegins
  <2>1. sess' = sess /\ open' = open /\ current' = current
    BY <1>4 DEF Stop, CloseBegins
  <2>2. stage' \in {"stopping", "closing"} /\ (stage' = "closing" => pc["loop"] = "exited")
    BY <1>4 DEF Stop, CloseBegins
  <2>3. Types' /\ Stopped'
    BY <2>1, <2>2 DEF KeyInv, Types, Stopped
  <2>4. HandshakeDue' /\ RetiredLate' /\ SenderHolds' /\ ReaderHolds'
    BY <2>1 DEF KeyInv, HandshakeDue, RetiredLate, SenderHolds, ReaderHolds, Lately, ShouldRekey
  <2>5. QED BY <1>3, <2>3, <2>4 DEF KeyInv
<1>5. CASE CloseReturns
  <2>1. open' = {} /\ current' = None /\ sess' = [i \in Session |-> Blank]
        /\ stage = "closing" /\ stage' = "returned" /\ WorkersDone
    BY <1>5 DEF CloseReturns
  <2>2. pc["loop"] = "exited" /\ \A a \in Readers \cup {"keepalive"} : pc[a] = "exited"
    BY <2>1 DEF KeyInv, Stopped, WorkersDone
  <2>3. \A a \in Users : pc[a] = "exited"
    BY <2>2 DEF Users, Senders
  <2>4. Types'
    BY <2>1 DEF KeyInv, Types, Blank, SessionRec, NotRetired
  <2>5. Stopped' /\ SenderHolds' /\ ReaderHolds'
    BY <2>1, <2>2, <2>3 DEF Stopped, SenderHolds, ReaderHolds, Users
  <2>6. HandshakeDue' /\ RetiredLate'
    BY <2>1 DEF HandshakeDue, RetiredLate
  <2>7. QED BY <1>3, <2>4, <2>5, <2>6 DEF KeyInv
<1>6. QED BY <1>4, <1>5

(* What a tick leaves of a session.                                          *)
LEMMA OlderFields ==
    ASSUME NEW s \in SessionRec, world \in Worlds
    PROVE  /\ Older(s) \in SessionRec
           /\ s.age <= Older(s).age /\ Older(s).age <= s.age + 1
           /\ s.age <= PeerKeeps \/ s.age <= RejectAfter => Older(s).age = s.age + 1
           /\ Older(s).retired <= s.retired + 1
           /\ s.retired = NotRetired => Older(s).retired = NotRetired
           /\ s.retired < 0 => Older(s).retired = s.retired
<1>1. AgeCap \in Nat /\ AgeCap > PeerKeeps /\ AgeCap > RejectAfter
  BY WorldFacts DEF AgeCap, MaxOf
<1>2. QED BY <1>1, WorldFacts DEF Older, SessionRec, NotRetired

(* Time passes for a session and for who holds it alike.                     *)
LEMMA TickKeeps == ASSUME KeyInv, Tick PROVE KeyInv'
<1> USE ActorNames
<1>1. /\ \A a \in Actors : Blocked(a) \/ wait[a] < Patience(a)
      /\ sess' = [i \in Session |-> IF i \in open THEN Older(sess[i]) ELSE sess[i]]
      /\ wait' = [a \in Actors |-> IF Blocked(a) THEN 0 ELSE wait[a] + 1]
      /\ kaAge' = IF kaAge < KeepaliveEvery THEN kaAge + 1 ELSE kaAge
      /\ open' = open /\ current' = current /\ pc' = pc /\ held' = held
      /\ stage' = stage /\ world' = world
  BY DEF Tick
<1>2. world \in Worlds /\ sess \in [Session -> SessionRec] /\ open \subseteq Session
      /\ current \in open \cup {None} /\ wait \in [Actors -> Nat] /\ kaAge \in 0 .. KeepaliveEvery
  BY DEF KeyInv, Types
<1> USE WorldFacts, WorldKept, <1>2
<1>3. ASSUME NEW i \in open
      PROVE  /\ sess[i] \in SessionRec /\ sess'[i] = Older(sess[i]) /\ sess'[i] \in SessionRec
             /\ sess[i].age <= sess'[i].age /\ sess'[i].age <= sess[i].age + 1
             /\ sess[i].age <= PeerKeeps \/ sess[i].age <= RejectAfter
                  => sess'[i].age = sess[i].age + 1
             /\ sess'[i].retired <= sess[i].retired + 1
             /\ sess[i].retired = NotRetired => sess'[i].retired = NotRetired
             /\ sess[i].retired < 0 => sess'[i].retired = sess[i].retired
  <2>1. sess[i] \in SessionRec /\ sess'[i] = Older(sess[i])
    BY <1>1
  <2>2. QED BY <2>1, OlderFields
<1>4. ASSUME NEW a \in Actors, pc[a] = "have"
      PROVE  wait'[a] = wait[a] + 1 /\ wait[a] \in Nat
  BY <1>1, <1>4 DEF Blocked
<1>5. Types'
  <2>1. sess' \in [Session -> SessionRec]
    BY <1>1, <1>3
  <2>2. wait' \in [Actors -> Nat] /\ kaAge' \in 0 .. KeepaliveEvery
    BY <1>1
  <2>3. QED BY <1>1, <2>1, <2>2 DEF KeyInv, Types
<1>6. OneHandshake' /\ Stopped'
  BY <1>1 DEF KeyInv, OneHandshake, Stopped
<1>7. Patient'
  <2>1. SUFFICES ASSUME NEW a \in Actors, pc[a] \notin {"idle", "exited"}
                 PROVE  wait'[a] <= Patience(a)
    BY <1>1 DEF Patient, Patience
  <2>2. CASE Blocked(a)
    BY <1>1, <2>2 DEF Patience
  <2>3. CASE ~ Blocked(a)
    BY <1>1, <2>3 DEF Patience
  <2>4. QED BY <2>2, <2>3
<1>8. HandshakeDue'
  <2>1. ASSUME current # None, ShouldRekey(current) PROVE ShouldRekey(current)'
    <3>1. current \in open
      BY <2>1
    <3>2. sess[current].age \in Nat /\ sess'[current].age \in Nat
          /\ sess[current].age <= sess'[current].age
      BY <1>3, <3>1 DEF SessionRec
    <3>3. sess[current].age >= RekeyAfter
      BY <2>1 DEF ShouldRekey
    <3>4. sess'[current].age >= RekeyAfter
      BY <3>2, <3>3
    <3>5. QED BY <1>1, <3>4 DEF ShouldRekey
  <2>2. QED BY <1>1, <2>1 DEF KeyInv, HandshakeDue
<1>9. RetiredLate'
  <2>1. current # None => sess'[current].retired = NotRetired
    BY <1>3 DEF KeyInv, RetiredLate
  <2>2. ASSUME NEW i \in open, sess'[i].retired >= 0, sess'[i].age <= PeerKeeps
        PROVE  sess'[i].retired + RekeyAfter <= sess'[i].age
    <3>1. sess[i].age \in Nat /\ sess[i].retired \in Int /\ sess'[i].age \in Nat
          /\ sess'[i].retired \in Int
      BY <1>3 DEF SessionRec
    <3>2. sess[i].age <= PeerKeeps /\ sess[i].retired >= 0 /\ sess'[i].age = sess[i].age + 1
      BY <1>3, <2>2, <3>1
    <3>3. sess[i].retired + RekeyAfter <= sess[i].age
      BY <3>2 DEF KeyInv, RetiredLate
    <3>4. QED BY <1>3, <3>1, <3>2, <3>3
  <2>3. QED BY <1>1, <2>1, <2>2 DEF RetiredLate
<1>10. SenderHolds'
  <2>1. SUFFICES ASSUME NEW p \in Senders, pc[p] = "have"
                 PROVE  held[p] \in open /\ sess'[held[p]].retired <= wait'[p]
    BY <1>1 DEF SenderHolds
  <2>2. held[p] \in open /\ sess[held[p]].retired <= wait[p]
    BY <2>1 DEF KeyInv, SenderHolds
  <2>3. QED BY <1>3, <1>4, <2>1, <2>2 DEF SessionRec
<1>11. ReaderHolds'
  <2>1. SUFFICES ASSUME NEW r \in Readers, pc[r] = "have"
                 PROVE  held[r] \in open /\ Lately(sess'[held[r]], wait'[r])
    BY <1>1 DEF ReaderHolds, Lately
  <2> DEFINE h == held[r]
  <2>2. h \in open /\ Lately(sess[h], wait[r])
    BY <2>1 DEF KeyInv, ReaderHolds
  <2> HIDE DEF h
  <2>3. wait'[r] = wait[r] + 1 /\ wait[r] \in Nat
    BY <1>4, <2>1
  <2>4. sess[h].retired \in Int /\ sess'[h].retired \in Int
    BY <1>3, <2>2 DEF SessionRec
  <2>5. Lately(sess'[h], wait'[r])
    BY <1>3, <2>2, <2>3, <2>4 DEF Lately
  <2>6. QED BY <2>2, <2>5 DEF h
<1>12. QED BY <1>5, <1>6, <1>7, <1>8, <1>9, <1>10, <1>11 DEF KeyInv

(* Every step moves goroutines, installs a session, reaps, closes or lets      *)
(* time pass.                                                               *)
LEMMA StepKinds ==
    ASSUME KeyInv, [Next]_vars
    PROVE  \/ MovesOnly
           \/ \E a \in Actors : HandshakeOk(a)
           \/ Reap \/ Stop \/ CloseBegins \/ CloseReturns \/ Tick
<1> USE ActorNames
<1>1. CASE LoopSends \/ KeepaliveFires \/ \E p \in Senders : SenderStep(p)
  BY <1>1, SenderMoves, OtherMoves DEF SenderStep
<1>2. CASE RekeyStep
  BY <1>2, RekeyMoves, OtherMoves DEF RekeyStep
<1>3. CASE (\E r \in Readers : ReaderFinds(r) \/ ReaderOpens(r)) \/ \E a \in Users : Exits(a)
  BY <1>3, OtherMoves DEF Users, Actors
<1>4. CASE UNCHANGED vars
  BY <1>4 DEF vars, actors, timers, MovesOnly, Stays, KeyInv, Types
<1>5. QED BY <1>1, <1>2, <1>3, <1>4 DEF Next

(* Every step keeps the keys open while they are held.                       *)
LEMMA KeyStep == KeyInv /\ [Next]_vars => KeyInv'
<1>1. QED BY StepKinds, MovesKeepKeys, InstallKeeps, ReapKeeps, CloseKeeps, TickKeeps

(* So it is in every behaviour.                                              *)
THEOREM KeyInvariant == Spec => []KeyInv
<1>1. QED BY KeyInit, KeyStep, PTL DEF Spec

(* No goroutine encrypts or decrypts with closed keys, whatever rekeys, reaps  *)
(* and Close do between its looking a session up and its using it, unless it   *)
(* is a reader that looked up a retired session the peer no longer sends with. *)
THEOREM KeysStayOpen == Spec => []KeysOpenWhileHeld
<1>1. KeyInv => KeysOpenWhileHeld
  BY DEF KeyInv, SenderHolds, ReaderHolds, KeysOpenWhileHeld, Users
<1>2. QED BY <1>1, KeyInvariant, PTL

(* A session is replaced only when it is due, however senders and the          *)
(* background rekey meet at hsMu.                                            *)
THEOREM ReplacedOnlyWhenDue == Spec => FreshNeverReplaced
<1> DEFINE DueOrKept ==
      current # None /\ current' \notin {None, current}
        => ShouldRekey(current) \/ Expired(sess[current])
<1>1. KeyInv /\ [Next]_vars => DueOrKept
  <2>1. SUFFICES ASSUME KeyInv, [Next]_vars, current # None, current' \notin {None, current}
                 PROVE  ShouldRekey(current)
    OBVIOUS
  <2>2. PICK a \in Actors : HandshakeOk(a)
    BY <2>1, StepKinds DEF MovesOnly, Reap, Stop, CloseBegins, CloseReturns, Tick
  <2>3. QED BY <2>1, <2>2 DEF HandshakeOk, KeyInv, HandshakeDue
<1>2. KeyInv /\ [Next]_vars => [DueOrKept]_vars
  BY <1>1
<1>3. QED BY <1>2, KeyInvariant, PTL DEF Spec, FreshNeverReplaced

----------------------------------------------------------------------------
(* In a world where the peer answers, a rekey has time to end.               *)
LEMMA SteadyWorld ==
    ASSUME world \in Worlds, Reliable
    PROVE  /\ MaxPause <= KeepaliveEvery /\ MaxPause < RekeyAfter
           /\ RekeyAfter + KeepaliveEvery + MaxPause + MaxPause + HsTime <= RejectAfter
<1>1. QED BY KeepaliveAssumption DEF Reliable, MaxPause, KeepaliveEvery, RekeyAfter, HsTime, RejectAfter

(* So the current session never expires, and a sender that asks gets it.      *)
LEMMA CurrentUsable ==
    ASSUME KeyInv, SteadyInv, Serving, current # None
    PROVE  Usable(current)
<1>1. world \in Worlds /\ Reliable /\ current \in Session /\ sess[current].age \in Nat
      /\ kaAge \in 0 .. KeepaliveEvery /\ wait["rekey"] \in Nat /\ pc["rekey"] \in Pcs
  BY ActorNames DEF KeyInv, Types, SessionRec, Serving
<1>2. wait["rekey"] <= HsTime \/ pc["rekey"] # "handshake"
  BY ActorNames DEF KeyInv, Patient, Patience
<1>3. wait["rekey"] <= MaxPause \/ pc["rekey"] \notin {"begun", "want"}
  BY ActorNames DEF KeyInv, Patient, Patience
<1>4. sess[current].age < RejectAfter
  BY <1>1, <1>2, <1>3, WorldFacts, SteadyWorld DEF SteadyInv, AgeBound, RekeySteady, Pcs
<1>5. QED BY <1>1, <1>4, WorldFacts DEF Usable, Expired

(* A step that leaves the current session, the rekey and the ticker alone.    *)
LEMMA SteadyQuiet ==
    ASSUME KeyInv, SteadyInv, Serving, world' = world, current' = current, kaAge' = kaAge,
           current # None => sess'[current].age = sess[current].age,
           Stays("rekey"), pc'["keepalive"] \in {"idle", "have"},
           pc'["keepalive"] = "have" => Stays("keepalive"),
           current # None => \A p \in Senders : pc'[p] \notin {"want", "handshake"}
    PROVE  SteadyInv'
<1>1. UNCHANGED <<RekeyAfter, KeepaliveEvery, MaxPause, Reliable>>
  BY WorldKept
<1>2. KeepaliveSteady'
  BY DEF SteadyInv, KeepaliveSteady, Stays
<1>3. RekeySteady'
  BY DEF SteadyInv, RekeySteady, Stays
<1>4. AgeBound'
  BY <1>1 DEF SteadyInv, AgeBound, Stays
<1>5. NeverStalls'
  BY DEF NeverStalls
<1>6. QED BY <1>2, <1>3, <1>4, <1>5 DEF SteadyInv

(* The first session is fresh.                                               *)
LEMMA SteadyInit == Init => SteadyInv
<1> SUFFICES ASSUME Init PROVE SteadyInv
  OBVIOUS
<1>1. current = None /\ \A a \in Actors : pc[a] = "idle"
  BY DEF Init
<1>2. QED BY <1>1, ActorNames DEF SteadyInv, KeepaliveSteady, RekeySteady, AgeBound, NeverStalls

(* A sender takes the current session, and may start the rekey.              *)
LEMMA SteadyTakes ==
    ASSUME KeyInv, SteadyInv, Serving, current # None, NEW p \in Senders, TakesCurrent(p),
           UNCHANGED <<sess, current, world>>, pc[p] = "idle",
           \/ p = "loop" /\ kaAge' = kaAge
           \/ p = "keepalive" /\ kaAge' = 0
    PROVE  SteadyInv'
<1> USE ActorNames
<1>1. pc \in [Actors -> Pcs] /\ held \in [Actors -> Session \cup {None}] /\ wait \in [Actors -> Nat]
      /\ world \in Worlds /\ sess[current].age \in Nat /\ kaAge \in 0 .. KeepaliveEvery
  BY DEF KeyInv, Types, SessionRec
<1>2. Reliable /\ UNCHANGED <<RekeyAfter, KeepaliveEvery, MaxPause, Reliable>>
      /\ RekeyAfter \in Nat \ {0} /\ KeepaliveEvery \in Nat /\ MaxPause \in Nat
  BY <1>1, WorldFacts, WorldKept DEF Serving
<1>3. CASE StartsRekey
  <2>1. /\ pc' = [pc EXCEPT ![p] = "have", !["rekey"] = "begun"]
        /\ held' = [held EXCEPT ![p] = current, !["rekey"] = current]
        /\ wait' = [wait EXCEPT ![p] = 0, !["rekey"] = 0]
    BY <1>3 DEF TakesCurrent
  <2>2. pc'["rekey"] = "begun" /\ held'["rekey"] = current /\ wait'["rekey"] = 0 /\ pc'[p] = "have"
        /\ wait'[p] = 0 /\ \A q \in Senders : q # p => Stays(q)
    BY <1>1, <2>1 DEF Stays
  <2>3. sess[current].age < RekeyAfter + KeepaliveEvery
    BY <1>1, <1>2, <1>3 DEF SteadyInv, AgeBound, StartsRekey
  <2>4. AgeBound'
    BY <1>1, <1>2, <2>2, <2>3 DEF AgeBound
  <2>5. KeepaliveSteady' /\ RekeySteady'
    BY <1>2, <2>2 DEF SteadyInv, KeepaliveSteady, RekeySteady, Stays, Serving
  <2>6. NeverStalls'
    BY <2>2 DEF SteadyInv, NeverStalls, Stays, Serving
  <2>7. QED BY <2>4, <2>5, <2>6 DEF SteadyInv
<1>4. CASE ~ StartsRekey
  <2>1. pc' = [pc EXCEPT ![p] = "have"] /\ held' = [held EXCEPT ![p] = current]
        /\ wait' = [wait EXCEPT ![p] = 0]
    BY <1>4 DEF TakesCurrent, Moves
  <2>2. Stays("rekey") /\ pc'[p] = "have" /\ wait'[p] = 0 /\ \A q \in Senders : q # p => Stays(q)
    BY <1>1, <2>1 DEF Stays
  <2>3. NeverStalls'
    BY <2>2 DEF SteadyInv, NeverStalls, Stays, Serving
  <2>4. KeepaliveSteady' /\ RekeySteady'
    BY <1>2, <2>2 DEF SteadyInv, KeepaliveSteady, RekeySteady, Stays, Serving
  <2>5. pc["rekey"] = "idle" => sess[current].age < RekeyAfter
    BY <1>1, <1>2, <1>4 DEF StartsRekey, ShouldRekey
  <2>6. pc["rekey"] = "ending" => sess[current].age < RekeyAfter
    <3>1. SUFFICES ASSUME pc["rekey"] = "ending" PROVE sess[current].age < RekeyAfter
      OBVIOUS
    <3>2. sess[current].age <= wait["rekey"]
      BY <3>1 DEF SteadyInv, AgeBound
    <3>3. wait["rekey"] <= MaxPause /\ wait["rekey"] \in Nat
      BY <1>1, <3>1 DEF KeyInv, Patient, Patience
    <3>4. QED BY <1>1, <1>2, <3>2, <3>3, SteadyWorld
  <2>7. AgeBound'
    BY <1>1, <1>2, <2>2, <2>5, <2>6 DEF SteadyInv, AgeBound, Stays, Serving
  <2>8. QED BY <2>3, <2>4, <2>7 DEF SteadyInv
<1>5. QED BY <1>3, <1>4

(* Senders find the session as fresh as before.                              *)
LEMMA SteadySenders ==
    ASSUME KeyInv, SteadyInv, Serving, NEW p \in Senders,
           \/ LoopSends \/ KeepaliveFires \/ LockForSend(p) \/ Seal(p) \/ HandshakeFails(p)
    PROVE  SteadyInv'
<1> USE ActorNames
<1>1. pc \in [Actors -> Pcs] /\ held \in [Actors -> Session \cup {None}] /\ wait \in [Actors -> Nat]
      /\ pc["keepalive"] \in {"idle", "have"}
      /\ (current # None => \A q \in Senders : pc[q] \notin {"want", "handshake"})
  BY DEF KeyInv, Types, SteadyInv, KeepaliveSteady, NeverStalls, Serving
<1>2. p \in {"loop", "keepalive"}
  BY DEF Senders
<1>3. ASSUME NEW q \in Senders, NEW to \in Pcs, NEW h, Moves(q, to),
             held' = [held EXCEPT ![q] = h] \/ held' = held,
             UNCHANGED <<sess, current, world, kaAge>>,
             to \in {"want", "handshake"} => current = None /\ q = "loop",
             q = "keepalive" => to = "idle"
      PROVE  SteadyInv'
  <2>1. Stays("rekey") /\ \A b \in Senders : b # q => Stays(b)
    BY <1>1, <1>3 DEF Moves, Stays
  <2>2. pc'[q] = to
    BY <1>1, <1>3 DEF Moves
  <2>3. QED BY <1>1, <1>3, <2>1, <2>2, SteadyQuiet DEF Stays
<1>4. CASE LoopSends
  <2>1. Sends("loop") /\ UNCHANGED <<sess, current, world, kaAge>>
    BY <1>4 DEF LoopSends, timers
  <2>2. CASE Usable(current)
    BY <2>1, <2>2, SteadyTakes DEF Sends, Usable
  <2>3. CASE ~ Usable(current)
    BY <1>3, <2>1, <2>3, CurrentUsable DEF Sends, Pcs
  <2>4. QED BY <2>2, <2>3
<1>5. CASE KeepaliveFires
  <2>1. kaAge' = 0 /\ pc["keepalive"] = "idle" /\ UNCHANGED <<sess, current, stage, world>>
    BY <1>5 DEF KeepaliveFires
  <2>2. CASE current = None
    <3>1. pc' = pc /\ held' = held /\ wait' = wait
      BY <1>5, <2>2 DEF KeepaliveFires, actors
    <3>2. QED BY <2>1, <2>2, <3>1, WorldKept DEF SteadyInv, KeepaliveSteady, RekeySteady, AgeBound,
         NeverStalls, Serving
  <2>3. CASE current # None
    <3>1. TakesCurrent("keepalive")
      BY <1>5, <2>3, CurrentUsable DEF KeepaliveFires, Sends
    <3>2. QED BY <2>1, <2>3, <3>1, SteadyTakes
  <2>4. QED BY <2>2, <2>3
<1>6. CASE LockForSend(p)
  <2>1. pc[p] = "want" /\ UNCHANGED <<sess, current, world, kaAge>>
    BY <1>6 DEF LockForSend, timers
  <2>2. p = "loop" /\ current = None
    BY <1>1, <1>2, <2>1
  <2>3. Moves(p, "handshake") /\ held' = held
    BY <1>6, <2>2 DEF LockForSend, FoundUsable, Usable
  <2>4. QED BY <1>3, <2>1, <2>2, <2>3 DEF Pcs
<1>7. CASE Seal(p)
  BY <1>3, <1>7 DEF Seal, timers, Pcs
<1>8. CASE HandshakeFails(p)
  <2>1. Moves(p, "idle") /\ held' = held /\ UNCHANGED <<sess, current, world, kaAge>>
    BY <1>8 DEF HandshakeFails, timers
  <2>2. QED BY <1>3, <2>1 DEF Pcs
<1>9. QED BY <1>4, <1>5, <1>6, <1>7, <1>8

(* The rekey loop replaces the session before it is too old.                 *)
LEMMA SteadyRekey ==
    ASSUME KeyInv, SteadyInv, Serving,
           RekeyBegins \/ LockForRekey \/ RekeyEnds \/ HandshakeFails("rekey")
    PROVE  SteadyInv'
<1> USE ActorNames
<1>1. pc \in [Actors -> Pcs] /\ held \in [Actors -> Session \cup {None}] /\ wait \in [Actors -> Nat]
      /\ world \in Worlds /\ kaAge \in 0 .. KeepaliveEvery
      /\ (current # None => current \in Session /\ sess[current].age \in Nat)
  BY DEF KeyInv, Types, SessionRec
<1>2. UNCHANGED <<sess, current, world, kaAge>>
  BY DEF RekeyBegins, LockForRekey, RekeyEnds, HandshakeFails, timers
<1>3. Reliable /\ UNCHANGED <<RekeyAfter, KeepaliveEvery, MaxPause, Reliable>>
      /\ RekeyAfter \in Nat \ {0} /\ KeepaliveEvery \in Nat /\ MaxPause \in Nat
  BY <1>1, <1>2, WorldFacts, WorldKept DEF Serving
<1>4. \A q \in Senders : Stays(q)
  BY <1>1 DEF RekeyBegins, LockForRekey, RekeyEnds, HandshakeFails, Moves, Stays
<1>5. KeepaliveSteady' /\ NeverStalls'
  BY <1>2, <1>4 DEF SteadyInv, KeepaliveSteady, NeverStalls, Stays, Serving
<1>6. pc["rekey"] # "idle" => current # None
  BY DEF SteadyInv, RekeySteady
<1>7. pc["rekey"] \in {"begun", "want"} => wait["rekey"] <= MaxPause
  BY DEF KeyInv, Patient, Patience
<1>8. CASE RekeyBegins
  <2>1. pc["rekey"] = "begun" /\ pc'["rekey"] = "want" /\ wait'["rekey"] = 0 /\ held' = held
    BY <1>1, <1>8 DEF RekeyBegins, Moves, Serving
  <2>2. RekeySteady'
    BY <1>2, <1>6, <2>1 DEF SteadyInv, RekeySteady
  <2>3. AgeBound'
    BY <1>1, <1>2, <1>3, <1>6, <1>7, <2>1 DEF SteadyInv, AgeBound
  <2>4. QED BY <1>5, <2>2, <2>3 DEF SteadyInv
<1>9. CASE LockForRekey
  <2>1. pc["rekey"] = "want" /\ held["rekey"] = current
    BY <1>9 DEF LockForRekey, SteadyInv, RekeySteady
  <2>2. pc'["rekey"] = "handshake" /\ wait'["rekey"] = 0 /\ held' = held
    BY <1>1, <1>9, <2>1 DEF LockForRekey, Moves, AlreadyFresh
  <2>3. RekeySteady'
    BY <1>2, <1>6, <2>1, <2>2 DEF SteadyInv, RekeySteady
  <2>4. AgeBound'
    BY <1>1, <1>2, <1>3, <1>6, <1>7, <2>1, <2>2 DEF SteadyInv, AgeBound
  <2>5. QED BY <1>5, <2>3, <2>4 DEF SteadyInv
<1>10. CASE RekeyEnds
  <2>1. pc["rekey"] = "ending" /\ pc'["rekey"] = "idle"
    BY <1>1, <1>10 DEF RekeyEnds, Moves
  <2>2. RekeySteady'
    BY <1>2, <2>1 DEF RekeySteady
  <2>3. AgeBound'
    BY <1>2, <1>3, <1>6, <2>1 DEF SteadyInv, AgeBound
  <2>4. QED BY <1>5, <2>2, <2>3 DEF SteadyInv
<1>11. CASE HandshakeFails("rekey")
  BY <1>3, <1>11 DEF HandshakeFails, Serving
<1>12. QED BY <1>8, <1>9, <1>10, <1>11

(* A handshake ends: the loop's first one, or the rekey's.                    *)
LEMMA SteadyInstall ==
    ASSUME KeyInv, SteadyInv, Serving, NEW a \in Actors, HandshakeOk(a)
    PROVE  SteadyInv'
<1> USE ActorNames
<1>1. pc \in [Actors -> Pcs] /\ held \in [Actors -> Session \cup {None}] /\ wait \in [Actors -> Nat]
      /\ world \in Worlds /\ kaAge \in 0 .. KeepaliveEvery
  BY DEF KeyInv, Types
<1>2. PICK i \in FreeSlots : Install(i) /\ held' = [held EXCEPT ![a] = IF a = "rekey" THEN @ ELSE i]
  BY DEF HandshakeOk
<1>3. pc[a] = "handshake" /\ Moves(a, IF a = "rekey" THEN "ending" ELSE "have")
      /\ UNCHANGED <<kaAge, stage, world>>
  BY DEF HandshakeOk, timers
<1>4. Reliable /\ UNCHANGED <<RekeyAfter, KeepaliveEvery, MaxPause, Reliable>>
      /\ RekeyAfter \in Nat \ {0} /\ KeepaliveEvery \in Nat
  BY <1>1, <1>3, WorldFacts, WorldKept DEF Serving
<1>5. i \in Session /\ i # None
  BY <1>1, WorldFacts DEF FreeSlots, None
<1>6. current' = i /\ sess'[i].age = 0
  BY <1>2, <1>5 DEF Install, Blank
<1>7. a \in {"loop", "rekey"}
  BY <1>3 DEF KeyInv, OneHandshake, SteadyInv, KeepaliveSteady, Actors, Users, Senders
<1>8. CASE a = "loop"
  <2>1. current = None /\ pc["rekey"] = "idle"
    BY <1>3, <1>8 DEF SteadyInv, NeverStalls, RekeySteady, Serving
  <2>2. Stays("rekey") /\ Stays("keepalive") /\ pc'["loop"] = "have"
    BY <1>1, <1>2, <1>3, <1>8 DEF Moves, Stays
  <2>3. KeepaliveSteady' /\ NeverStalls'
    BY <1>3, <2>2 DEF SteadyInv, KeepaliveSteady, NeverStalls, Stays, Serving, Senders
  <2>4. RekeySteady'
    BY <1>5, <1>6, <2>1, <2>2 DEF RekeySteady, Stays
  <2>5. AgeBound'
    BY <1>1, <1>3, <1>4, <1>6, <2>1, <2>2 DEF AgeBound, Stays
  <2>6. QED BY <2>3, <2>4, <2>5 DEF SteadyInv
<1>9. CASE a = "rekey"
  <2>1. current # None
    BY <1>3, <1>9 DEF SteadyInv, RekeySteady
  <2>2. pc'["rekey"] = "ending" /\ wait'["rekey"] = 0 /\ \A p \in Senders : Stays(p)
    BY <1>1, <1>2, <1>3, <1>9 DEF Moves, Stays
  <2>3. KeepaliveSteady' /\ NeverStalls'
    BY <1>3, <2>1, <2>2 DEF SteadyInv, KeepaliveSteady, NeverStalls, Stays, Serving
  <2>4. RekeySteady'
    BY <1>5, <1>6, <2>2 DEF RekeySteady
  <2>5. AgeBound'
    BY <1>1, <1>3, <1>4, <1>6, <2>2 DEF AgeBound
  <2>6. QED BY <2>3, <2>4, <2>5 DEF SteadyInv
<1>10. QED BY <1>7, <1>8, <1>9

(* Readers, the reaper and Close leave the session senders use alone.        *)
LEMMA SteadyOthers ==
    ASSUME KeyInv, SteadyInv, Serving,
           \/ \E r \in Readers : ReaderFinds(r) \/ ReaderOpens(r)
           \/ \E a \in Users : Exits(a)
           \/ Reap \/ Stop \/ CloseBegins \/ CloseReturns \/ UNCHANGED vars
    PROVE  SteadyInv'
<1> USE ActorNames
<1>1. pc \in [Actors -> Pcs] /\ held \in [Actors -> Session \cup {None}] /\ wait \in [Actors -> Nat]
      /\ pc["keepalive"] \in {"idle", "have"} /\ sess \in [Session -> SessionRec]
      /\ (current # None => \A q \in Senders : pc[q] \notin {"want", "handshake"})
  BY DEF KeyInv, Types, SteadyInv, KeepaliveSteady, NeverStalls, Serving
<1>2. ASSUME NEW r \in Readers, ReaderFinds(r) \/ ReaderOpens(r) PROVE SteadyInv'
  <2>1. UNCHANGED <<sess, current, kaAge, world>>
    BY <1>2 DEF ReaderFinds, ReaderOpens, timers
  <2>2. \A a \in Actors : a # r => Stays(a)
    BY <1>1, <1>2 DEF ReaderFinds, ReaderOpens, Moves, Stays
  <2>3. QED BY <1>1, <2>1, <2>2, SteadyQuiet DEF Stays
<1>3. ASSUME NEW a \in Users, Exits(a) PROVE SteadyInv'
  <2>1. UNCHANGED <<sess, current, kaAge, world>> /\ a # "keepalive" /\ a \in Actors /\ a # "rekey"
    BY <1>3 DEF Exits, MayExit, timers, Serving, Users
  <2>2. pc'[a] = "exited" /\ \A b \in Actors : b # a => Stays(b)
    BY <1>1, <1>3, <2>1 DEF Exits, Moves, Stays
  <2>3. QED BY <1>1, <2>1, <2>2, SteadyQuiet DEF Stays
<1>4. CASE Reap
  <2>1. UNCHANGED <<pc, held, wait, current, kaAge, world>>
        /\ (current # None => sess'[current] = sess[current])
    BY <1>4 DEF Reap, actors, KeyInv, Types
  <2>2. QED BY <1>1, <2>1, SteadyQuiet DEF Stays
<1>5. CASE Stop
  BY <1>1, <1>5, SteadyQuiet DEF Stop, actors, timers, Stays
<1>6. CASE CloseBegins \/ CloseReturns
  <2>1. stage' \in {"closing", "returned"}
    BY <1>6 DEF CloseBegins, CloseReturns
  <2>2. QED BY <2>1 DEF SteadyInv, KeepaliveSteady, RekeySteady, AgeBound, NeverStalls, Serving
<1>7. CASE UNCHANGED vars
  BY <1>1, <1>7, SteadyQuiet DEF vars, actors, timers, Stays
<1>8. QED BY <1>2, <1>3, <1>4, <1>5, <1>6, <1>7

(* Time passes: the ticker and the rekey's clock run along with the age of     *)
(* the session.                                                             *)
LEMMA SteadyTick == ASSUME KeyInv, SteadyInv, Serving, Tick PROVE SteadyInv'
<1> USE ActorNames
<1>1. /\ \A a \in Actors : Blocked(a) \/ wait[a] < Patience(a)
      /\ kaAge < KeepaliveEvery \/ pc["keepalive"] # "idle"
      /\ sess' = [i \in Session |-> IF i \in open THEN Older(sess[i]) ELSE sess[i]]
      /\ wait' = [a \in Actors |-> IF Blocked(a) THEN 0 ELSE wait[a] + 1]
      /\ kaAge' = IF kaAge < KeepaliveEvery THEN kaAge + 1 ELSE kaAge
      /\ current' = current /\ pc' = pc /\ held' = held /\ stage' = stage /\ world' = world
  BY DEF Tick
<1>2. world \in Worlds /\ wait \in [Actors -> Nat] /\ kaAge \in 0 .. KeepaliveEvery
      /\ sess \in [Session -> SessionRec] /\ open \subseteq Session /\ current \in open \cup {None}
  BY DEF KeyInv, Types
<1>3. Reliable /\ UNCHANGED <<RekeyAfter, KeepaliveEvery, MaxPause, Reliable>>
      /\ RekeyAfter \in Nat \ {0} /\ KeepaliveEvery \in Nat /\ MaxPause \in Nat
      /\ MaxPause <= KeepaliveEvery
  BY <1>1, <1>2, WorldFacts, WorldKept, SteadyWorld DEF Serving
<1>4. pc["keepalive"] = "have" => wait["keepalive"] < MaxPause /\ ~ Blocked("keepalive")
  BY <1>1 DEF Blocked, Patience
<1>5. kaAge < KeepaliveEvery
  BY <1>1, <1>2, <1>3, <1>4 DEF SteadyInv, KeepaliveSteady
<1>6. kaAge' = kaAge + 1
  BY <1>1, <1>5
<1>7. KeepaliveSteady'
  BY <1>1, <1>2, <1>4, <1>6 DEF SteadyInv, KeepaliveSteady, Serving
<1>8. RekeySteady' /\ NeverStalls'
  BY <1>1, <1>3 DEF SteadyInv, RekeySteady, NeverStalls, Serving
<1>9. AgeBound'
  <2>1. SUFFICES ASSUME current # None PROVE AgeBound'
    BY <1>1 DEF AgeBound
  <2>2. current \in open /\ sess[current] \in SessionRec /\ sess'[current] = Older(sess[current])
    BY <1>1, <1>2, <2>1
  <2>3. sess'[current].age \in Nat /\ sess[current].age \in Nat
        /\ sess'[current].age <= sess[current].age + 1
    BY <1>2, <2>2, OlderFields DEF SessionRec
  <2>4. pc["rekey"] = "want" => HsFree
    BY <2>1 DEF HsFree, KeyInv, OneHandshake, SteadyInv, NeverStalls, Serving, Actors, Users
  <2>5. pc["rekey"] \in {"ending", "begun", "want", "handshake"} => wait'["rekey"] = wait["rekey"] + 1
    BY <1>1, <2>4 DEF Blocked
  <2>6. wait["rekey"] \in Nat
    BY <1>2
  <2>7. AgeBound
    BY DEF SteadyInv
  <2>8. QED BY <1>1, <1>2, <1>3, <1>6, <2>1, <2>3, <2>5, <2>6, <2>7 DEF AgeBound, Serving
<1>10. QED BY <1>7, <1>8, <1>9 DEF SteadyInv

(* Every step keeps a sender supplied.                                       *)
LEMMA SteadyStep == KeyInv /\ SteadyInv /\ [Next]_vars => SteadyInv'
<1> SUFFICES ASSUME KeyInv, SteadyInv, [Next]_vars PROVE SteadyInv'
  OBVIOUS
<1>1. CASE ~ Serving
  <2>1. world' = world
    BY StepKinds DEF MovesOnly, HandshakeOk, Reap, Stop, CloseBegins, CloseReturns, Tick
  <2>2. stage' = stage \/ stage' \in {"closing", "returned"} \/ (stage = "running" /\ stage' = "stopping")
    BY StepKinds DEF MovesOnly, HandshakeOk, Reap, Stop, CloseBegins, CloseReturns, Tick
  <2>3. ~ Serving'
    BY <1>1, <2>1, <2>2, WorldKept DEF Serving
  <2>4. QED BY <2>3 DEF SteadyInv, KeepaliveSteady, RekeySteady, AgeBound, NeverStalls, Serving
<1>2. CASE Serving
  <2>1. CASE LoopSends \/ KeepaliveFires \/ \E p \in Senders : SenderStep(p)
    BY <1>2, <2>1, SteadySenders, SteadyInstall, ActorNames DEF SenderStep
  <2>2. CASE RekeyStep
    BY <1>2, <2>2, SteadyRekey, SteadyInstall, ActorNames DEF RekeyStep
  <2>3. CASE Tick
    BY <1>2, <2>3, SteadyTick
  <2>4. QED BY <1>2, <2>1, <2>2, <2>3, SteadyOthers DEF Next
<1>3. QED BY <1>1, <1>2

(* With keepalives on and a peer that answers, no packet waits for a           *)
(* handshake once there is a session, until Close.                           *)
THEOREM SendersNeverStall == Spec => []NeverStalls
<1>1. KeyInv /\ SteadyInv /\ [Next]_vars => (KeyInv /\ SteadyInv)'
  BY KeyStep, SteadyStep
<1>2. Init => KeyInv /\ SteadyInv
  BY KeyInit, SteadyInit
<1>3. KeyInv /\ SteadyInv => NeverStalls
  BY DEF SteadyInv
<1>4. QED BY <1>1, <1>2, <1>3, PTL DEF Spec

----------------------------------------------------------------------------
(* The size of the table.  A session shows how long it has been retired only   *)
(* up to the grace period, so the invariant speaks of the true times, f: they  *)
(* are RekeyAfter apart because a session is replaced only when it is due, and *)
(* the reaper leaves none above Grace + ReapEvery.                            *)
RetiredFor(f) ==
    /\ \A i \in open \ {current} :
         /\ sess[i].retired = IF f[i] <= Grace THEN f[i] ELSE Grace + 1
         /\ f[i] <= Grace + reapAge
         /\ current # None => sess[current].age <= f[i]
    /\ \A i, j \in open \ {current} : i # j => f[i] + RekeyAfter <= f[j] \/ f[j] + RekeyAfter <= f[i]

(* After Close only a rekey that was under way can install a session.         *)
LeftBehind ==
    stage = "returned" =>
       /\ open \subseteq {current}
       /\ pc["rekey"] \in {"begun", "want", "handshake"} => open = {}

TableInv ==
    /\ reapAge \in 0 .. ReapEvery
    /\ \E f \in [open \ {current} -> Nat] : RetiredFor(f)
    /\ LeftBehind

(* Numbers that far apart are in different multiples of k.                    *)
LEMMA Apart ==
    ASSUME NEW k \in Nat \ {0}, NEW a \in Nat, NEW b \in Nat
    PROVE  /\ a \div k \in Nat
           /\ a <= b => a \div k <= b \div k
           /\ a + k <= b => a \div k # b \div k
<1>1. a = (k * (a \div k)) + (a % k) /\ (a % k) \in 0 .. k - 1 /\ a \div k \in Nat
  OBVIOUS
<1>2. b = (k * (b \div k)) + (b % k) /\ (b % k) \in 0 .. k - 1 /\ b \div k \in Nat
  OBVIOUS
<1>3. ASSUME NEW p \in Nat, NEW q \in Nat, NEW r \in 0 .. k - 1, NEW s \in 0 .. k - 1, p > q
      PROVE  (k * p) + r > (k * q) + s
  <2>1. PICK d \in Nat : p = q + 1 + d
    <3>1. p - q - 1 \in Nat /\ p = q + 1 + (p - q - 1)
      BY <1>3
    <3>2. QED BY <3>1
  <2>2. k * p = (k * q) + k + (k * d)
    BY <2>1
  <2>3. k * d >= 0 /\ k * d \in Int /\ k * q \in Int
    OBVIOUS
  <2>4. QED BY <2>2, <2>3
<1>4. a <= b => a \div k <= b \div k
  BY <1>1, <1>2, <1>3
<1>5. a + k <= b => a \div k # b \div k
  <2>1. ASSUME NEW q \in Nat, NEW r \in 0 .. k - 1, NEW s \in 0 .. k - 1
        PROVE  ~ ((k * q) + r + k <= (k * q) + s)
    <3>1. k * q \in Int
      OBVIOUS
    <3>2. QED BY <3>1
  <2>2. QED BY <1>1, <1>2, <2>1
<1>6. QED BY <1>1, <1>4, <1>5

(* Retirement ages that are apart and bounded leave room for few sessions.   *)
LEMMA TableSmall == ASSUME KeyInv, TableInv PROVE TableBounded
<1>1. world \in Worlds /\ open \subseteq Session /\ current \in open \cup {None}
  BY DEF KeyInv, Types
<1>2. world.Slots \in Nat /\ ReapEvery \in Nat /\ Grace \in Nat /\ RekeyAfter \in Nat \ {0}
  BY <1>1, SessionsAssumption DEF ReapEvery, Grace, RekeyAfter
<1>3. IsFiniteSet(open)
  <2>1. IsFiniteSet(Session)
    BY <1>2, FS_Interval DEF Session
  <2>2. QED BY <1>1, <2>1, FS_Subset
<1>4. CASE stage = "returned"
  <2>1. open \in SUBSET {current}
    BY <1>4 DEF TableInv, LeftBehind
  <2>2. Cardinality(open) <= Cardinality({current}) /\ Cardinality({current}) = 1
    BY <2>1, FS_Subset, FS_Singleton
  <2>3. QED BY <1>4, <2>2 DEF TableBounded
<1>5. CASE stage # "returned"
  <2> DEFINE N == (Grace + ReapEvery) \div RekeyAfter
             Old == open \ {current}
  <2>1. PICK f \in [Old -> Nat] : RetiredFor(f)
    BY DEF TableInv
  <2> DEFINE g == [i \in Old |-> f[i] \div RekeyAfter]
  <2>2. N \in Nat
    BY <1>2, Apart
  <2>3. ASSUME NEW i \in Old PROVE f[i] \div RekeyAfter \in 0 .. N
    <3>1. f[i] \in Nat /\ f[i] <= Grace + ReapEvery /\ Grace + ReapEvery \in Nat
      BY <1>2, <2>1 DEF RetiredFor, TableInv
    <3>2. QED BY <1>2, <2>2, <3>1, Apart
  <2>4. g \in [Old -> 0 .. N]
    BY <2>3
  <2>5. ASSUME NEW i \in Old, NEW j \in Old, i # j PROVE g[i] # g[j]
    <3>1. f[i] \in Nat /\ f[j] \in Nat /\ (f[i] + RekeyAfter <= f[j] \/ f[j] + RekeyAfter <= f[i])
      BY <2>1, <2>5 DEF RetiredFor
    <3>2. f[i] \div RekeyAfter # f[j] \div RekeyAfter
      BY <1>2, <3>1, Apart
    <3>3. QED BY <3>2
  <2>6. IsFiniteSet(Old)
        /\ Cardinality(Old) = IF current \in open THEN Cardinality(open) - 1 ELSE Cardinality(open)
    BY <1>3, FS_RemoveElement
  <2>7. IsFiniteSet(0 .. N) /\ Cardinality(0 .. N) = N + 1
    BY <2>2, FS_Interval
  <2>8. Cardinality(Old) \in Nat /\ Cardinality(open) \in Nat
    BY <1>3, <2>6, FS_CardinalityType
  <2> HIDE DEF g, Old, N
  <2>9. ~ (N + 1 < Cardinality(Old))
    BY <2>4, <2>5, <2>6, <2>7, FS_PigeonHole
  <2>10. Cardinality(open) <= 2 + N
    BY <2>2, <2>6, <2>8, <2>9
  <2>11. QED BY <1>5, <2>10 DEF TableBounded, N
<1>6. QED BY <1>4, <1>5

(* The table begins with one session.                                        *)
LEMMA TableInit == Init => TableInv
<1> SUFFICES ASSUME Init PROVE TableInv
  OBVIOUS
<1>1. open = {} /\ reapAge = 0 /\ stage = "running" /\ world \in Worlds
  BY DEF Init
<1>2. ReapEvery \in Nat
  BY <1>1, SessionsAssumption DEF ReapEvery
<1>3. PICK f : f = [i \in open \ {current} |-> 0]
  OBVIOUS
<1>4. f \in [open \ {current} -> Nat] /\ RetiredFor(f)
  BY <1>1, <1>3 DEF RetiredFor
<1>5. LeftBehind
  BY <1>1 DEF LeftBehind
<1>6. \E g \in [open \ {current} -> Nat] : RetiredFor(g)
  BY <1>4
<1>7. reapAge \in 0 .. ReapEvery
  BY <1>1, <1>2
<1>8. QED BY <1>5, <1>6, <1>7, Zenon DEF TableInv

(* Steps that leave the table and its clocks alone.                          *)
LEMMA TableSame ==
    ASSUME TableInv, UNCHANGED <<sess, open, current, reapAge, world>>, LeftBehind'
    PROVE  TableInv'
<1>1. Grace' = Grace /\ RekeyAfter' = RekeyAfter /\ ReapEvery' = ReapEvery
  BY DEF Grace, RekeyAfter, ReapEvery
<1>2. ASSUME NEW f, RetiredFor(f) PROVE RetiredFor(f)'
  BY <1>1, <1>2 DEF RetiredFor
<1>3. PICK f \in [open \ {current} -> Nat] : RetiredFor(f)
  BY DEF TableInv
<1>4. RetiredFor(f)'
  BY <1>2, <1>3
<1>5. \E h \in [open' \ {current'} -> Nat] : RetiredFor(h)'
  BY <1>3, <1>4
<1>6. QED BY <1>1, <1>5 DEF TableInv

(* Most steps do; and once Close has returned no sender is left to start a     *)
(* rekey.                                                                   *)
LEMMA TableQuiet ==
    ASSUME KeyInv, TableInv,
           \/ LoopSends \/ KeepaliveFires
           \/ \E p \in Senders : LockForSend(p) \/ Seal(p) \/ HandshakeFails(p)
           \/ RekeyBegins \/ LockForRekey \/ RekeyEnds \/ HandshakeFails("rekey")
           \/ \E r \in Readers : ReaderFinds(r) \/ ReaderOpens(r)
           \/ \E a \in Users : Exits(a)
           \/ Stop \/ CloseBegins \/ UNCHANGED vars
    PROVE  TableInv'
<1> USE ActorNames
<1>1. UNCHANGED <<sess, open, current, reapAge, world>>
  BY DEF LoopSends, KeepaliveFires, LockForSend, Seal, HandshakeFails, RekeyBegins, LockForRekey,
     RekeyEnds, ReaderFinds, ReaderOpens, Exits, Stop, CloseBegins, vars, timers
<1>2. stage' = "returned" => stage = "returned"
  BY DEF LoopSends, KeepaliveFires, LockForSend, Seal, HandshakeFails, RekeyBegins, LockForRekey,
     RekeyEnds, ReaderFinds, ReaderOpens, Exits, Stop, CloseBegins, vars
<1>3. ASSUME stage = "returned", pc'["rekey"] \in {"begun", "want", "handshake"}
      PROVE  pc["rekey"] \in {"begun", "want", "handshake"}
  <2>1. pc["loop"] = "exited" /\ pc["keepalive"] = "exited" /\ pc \in [Actors -> Pcs]
    BY <1>3 DEF KeyInv, Stopped, Types
  <2>2. CASE LoopSends \/ KeepaliveFires
                \/ \E p \in Senders : LockForSend(p) \/ Seal(p) \/ HandshakeFails(p)
    BY <1>3, <2>1, <2>2 DEF LoopSends, KeepaliveFires, LockForSend, Seal, HandshakeFails, Senders
  <2>3. CASE RekeyBegins \/ LockForRekey \/ RekeyEnds \/ HandshakeFails("rekey")
    BY <1>3, <2>1, <2>3 DEF RekeyBegins, LockForRekey, RekeyEnds, HandshakeFails, Moves
  <2>4. ASSUME NEW r \in Readers, ReaderFinds(r) \/ ReaderOpens(r)
        PROVE  pc'["rekey"] = pc["rekey"]
    BY <2>1, <2>4 DEF ReaderFinds, ReaderOpens, Moves
  <2>5. ASSUME NEW a \in Users, Exits(a) PROVE FALSE
    BY <1>3, <2>5 DEF Exits, MayExit
  <2>6. CASE Stop \/ CloseBegins \/ UNCHANGED vars
    BY <1>3, <2>6 DEF Stop, CloseBegins, vars, actors
  <2>7. QED BY <1>3, <2>2, <2>3, <2>4, <2>5, <2>6
<1>4. LeftBehind'
  BY <1>1, <1>2, <1>3 DEF TableInv, LeftBehind
<1>5. QED BY <1>1, <1>4, TableSame

(* The session that is replaced was due, so those retired before it were       *)
(* retired RekeyAfter ago.                                                   *)
LEMMA TableInstall ==
    ASSUME KeyInv, TableInv, NEW a \in Actors, HandshakeOk(a)
    PROVE  TableInv'
<1> USE ActorNames
<1>1. PICK i \in FreeSlots : Install(i)
  BY DEF HandshakeOk
<1>2. pc[a] = "handshake" /\ Moves(a, IF a = "rekey" THEN "ending" ELSE "have")
      /\ UNCHANGED <<reapAge, stage, world>>
  BY DEF HandshakeOk, timers
<1>3. world \in Worlds /\ sess \in [Session -> SessionRec] /\ open \subseteq Session
      /\ current \in open \cup {None} /\ pc \in [Actors -> Pcs]
  BY DEF KeyInv, Types
<1>4. Grace \in Nat /\ RekeyAfter \in Nat \ {0} /\ ReapEvery' = ReapEvery
      /\ Grace' = Grace /\ RekeyAfter' = RekeyAfter /\ reapAge \in Nat /\ None \notin Session
  BY <1>2, <1>3, WorldFacts, WorldKept DEF ReapEvery, TableInv, None
<1>5. i \in Session /\ i \notin open /\ i # current
  BY DEF FreeSlots
<1>6. current' = i /\ open' = open \cup {i}
      /\ \A j \in Session : sess'[j] = IF j = i THEN Blank
                                       ELSE IF j = current THEN Retire(sess[j]) ELSE sess[j]
  BY <1>1 DEF Install
<1>7. PICK f \in [open \ {current} -> Nat] : RetiredFor(f)
  BY DEF TableInv
<1>a. PICK h : h = [j \in open' \ {current'} |-> IF j = current THEN 0 ELSE f[j]]
  OBVIOUS
<1>8. open' \ {current'} = open /\ sess'[i].age = 0
  BY <1>5, <1>6 DEF Blank
<1>9. h \in [open' \ {current'} -> Nat]
  BY <1>7, <1>8, <1>a
<1>10. current # None => /\ RekeyAfter <= sess[current].age /\ sess[current].age \in Nat
                         /\ sess'[current].retired = 0 /\ current \in open
  <2>1. SUFFICES ASSUME current # None PROVE /\ RekeyAfter <= sess[current].age
                                             /\ sess[current].age \in Nat
                                             /\ sess'[current].retired = 0 /\ current \in open
    OBVIOUS
  <2>2. current \in open /\ sess[current] \in SessionRec /\ sess[current].retired = NotRetired
    BY <1>3, <2>1 DEF KeyInv, RetiredLate
  <2>3. ShouldRekey(current)
    BY <1>2, <2>1 DEF KeyInv, HandshakeDue
  <2>4. sess'[current] = Retire(sess[current])
    BY <1>3, <1>5, <1>6, <2>2
  <2>5. QED BY <1>4, <2>2, <2>3, <2>4, RetireFields DEF ShouldRekey, SessionRec
<1>11. \A j \in open \ {current} : sess'[j] = sess[j] /\ h[j] = f[j] /\ f[j] \in Nat
  BY <1>3, <1>5, <1>6, <1>7, <1>8, <1>a
<1>12. current \in open => h[current] = 0 /\ current # None
  BY <1>3, <1>4, <1>8, <1>a
<1>13. ASSUME NEW j \in open
       PROVE  /\ sess'[j].retired = IF h[j] <= Grace THEN h[j] ELSE Grace + 1
              /\ h[j] <= Grace + reapAge /\ 0 <= h[j]
  <2>1. CASE j = current
    BY <1>4, <1>10, <1>12, <2>1
  <2>2. CASE j # current
    BY <1>4, <1>7, <1>11, <2>2 DEF RetiredFor
  <2>3. QED BY <2>1, <2>2
<1>14. ASSUME NEW j \in open, NEW k \in open, j # k
       PROVE  h[j] + RekeyAfter <= h[k] \/ h[k] + RekeyAfter <= h[j]
  <2>1. CASE j # current /\ k # current
    BY <1>7, <1>11, <1>14, <2>1 DEF RetiredFor
  <2>2. ASSUME current \in open, NEW l \in open \ {current} PROVE h[current] + RekeyAfter <= h[l]
    <3>1. sess[current].age <= f[l]
      BY <1>7, <1>12, <2>2 DEF RetiredFor
    <3>2. QED BY <1>4, <1>10, <1>11, <1>12, <2>2, <3>1
  <2>3. QED BY <1>14, <2>1, <2>2
<1>15. RetiredFor(h)'
  BY <1>2, <1>4, <1>6, <1>8, <1>13, <1>14 DEF RetiredFor
<1>16. \E g \in [open' \ {current'} -> Nat] : RetiredFor(g)'
  BY <1>9, <1>15
<1>17. LeftBehind'
  <2>1. SUFFICES ASSUME stage = "returned"
                 PROVE  open' \subseteq {current'} /\ pc'["rekey"] = "ending"
    BY <1>2 DEF LeftBehind
  <2>2. a = "rekey"
    BY <1>2, <2>1 DEF KeyInv, Stopped, OneHandshake, Actors, Users, Senders
  <2>3. open = {} /\ pc'["rekey"] = "ending"
    BY <1>2, <1>3, <2>1, <2>2 DEF TableInv, LeftBehind, Moves
  <2>4. QED BY <1>6, <2>3
<1>18. QED BY <1>2, <1>4, <1>16, <1>17 DEF TableInv

(* The reaper leaves those of the grace period.                              *)
LEMMA TableReap == ASSUME KeyInv, TableInv, Reap PROVE TableInv'
<1>1. world \in Worlds /\ open \subseteq Session /\ current \in open \cup {None}
  BY DEF KeyInv, Types
<1>2. /\ reapAge' = 0 /\ open' = {i \in open : i = current \/ ~ Reapable(sess[i])}
      /\ sess' = [i \in Session |-> IF i \in open' THEN sess[i] ELSE Blank]
      /\ UNCHANGED <<current, pc, stage, world>> /\ stage # "returned"
  BY DEF Reap, actors
<1>3. Grace \in Nat /\ RekeyAfter \in Nat \ {0} /\ ReapEvery' = ReapEvery /\ ReapEvery \in Nat
      /\ Grace' = Grace /\ RekeyAfter' = RekeyAfter /\ Session' = Session
  BY <1>1, <1>2, WorldFacts, WorldKept, SessionsAssumption DEF ReapEvery
<1>4. PICK f \in [open \ {current} -> Nat] : RetiredFor(f)
  BY DEF TableInv
<1> DEFINE kept == open' \ {current'}
<1>a. PICK h : h = [j \in kept |-> f[j]]
  OBVIOUS
<1>5. kept \subseteq open \ {current} /\ \A j \in kept : ~ Reapable(sess[j]) /\ sess'[j] = sess[j]
  BY <1>1, <1>2
<1>6. current # None => sess'[current] = sess[current]
  BY <1>1, <1>2
<1>7. h \in [kept -> Nat] /\ \A j \in kept : h[j] = f[j] /\ f[j] \in Nat
  BY <1>4, <1>5, <1>a
<1>8. ASSUME NEW j \in kept
      PROVE  /\ sess'[j].retired = IF h[j] <= Grace THEN h[j] ELSE Grace + 1
             /\ h[j] <= Grace
             /\ current # None => sess[current].age <= h[j]
  BY <1>3, <1>4, <1>5, <1>7 DEF RetiredFor, Reapable
<1>9. ASSUME NEW j \in kept, NEW k \in kept, j # k
      PROVE  h[j] + RekeyAfter <= h[k] \/ h[k] + RekeyAfter <= h[j]
  BY <1>4, <1>5, <1>7, <1>9 DEF RetiredFor
<1>10. RetiredFor(h)'
  BY <1>2, <1>3, <1>6, <1>7, <1>8, <1>9 DEF RetiredFor
<1>11. \E g \in [kept -> Nat] : RetiredFor(g)'
  BY <1>7, <1>10
<1>12. QED BY <1>2, <1>3, <1>11 DEF TableInv, LeftBehind

(* Time passes for all of them alike, and for the reaper.                    *)
LEMMA TableTick == ASSUME KeyInv, TableInv, Tick PROVE TableInv'
<1>1. world \in Worlds /\ open \subseteq Session /\ current \in open \cup {None}
      /\ sess \in [Session -> SessionRec]
  BY DEF KeyInv, Types
<1>2. /\ reapAge < ReapEvery \/ stage = "returned"
      /\ sess' = [i \in Session |-> IF i \in open THEN Older(sess[i]) ELSE sess[i]]
      /\ reapAge' = IF reapAge < ReapEvery THEN reapAge + 1 ELSE reapAge
      /\ UNCHANGED <<open, current, pc, stage, world>>
  BY DEF Tick
<1>3. Grace \in Nat /\ RekeyAfter \in Nat \ {0} /\ ReapEvery' = ReapEvery /\ ReapEvery \in Nat
      /\ Grace' = Grace /\ RekeyAfter' = RekeyAfter /\ reapAge \in 0 .. ReapEvery
  BY <1>1, <1>2, WorldFacts, WorldKept, SessionsAssumption DEF ReapEvery, TableInv
<1>4. PICK f \in [open \ {current} -> Nat] : RetiredFor(f)
  BY DEF TableInv
<1>a. PICK h : h = [j \in open \ {current} |-> f[j] + 1]
  OBVIOUS
<1>5. h \in [open \ {current} -> Nat] /\ \A j \in open \ {current} : h[j] = f[j] + 1 /\ f[j] \in Nat
  BY <1>4, <1>a
<1>6. ASSUME NEW j \in open \ {current} PROVE reapAge' = reapAge + 1
  <2>1. stage # "returned"
    BY DEF TableInv, LeftBehind
  <2>2. QED BY <1>2, <1>3, <2>1
<1>7. ASSUME NEW j \in open \ {current}
      PROVE  /\ sess'[j].retired = IF h[j] <= Grace THEN h[j] ELSE Grace + 1
             /\ h[j] <= Grace + reapAge'
             /\ current # None => sess'[current].age <= h[j]
  <2>1. sess[j].retired = (IF f[j] <= Grace THEN f[j] ELSE Grace + 1) /\ f[j] <= Grace + reapAge
        /\ (current # None => sess[current].age <= f[j])
    BY <1>4 DEF RetiredFor
  <2>2. sess'[j].retired = IF sess[j].retired \in 0 .. Grace THEN sess[j].retired + 1 ELSE sess[j].retired
    BY <1>1, <1>2 DEF Older
  <2>3. current # None => sess[current].age \in Nat /\ sess'[current].age \in Nat
                          /\ sess'[current].age <= sess[current].age + 1
    BY <1>1, <1>2, OlderFields DEF SessionRec
  <2>4. QED BY <1>3, <1>5, <1>6, <2>1, <2>2, <2>3
<1>8. ASSUME NEW j \in open \ {current}, NEW k \in open \ {current}, j # k
      PROVE  h[j] + RekeyAfter <= h[k] \/ h[k] + RekeyAfter <= h[j]
  <2>1. f[j] + RekeyAfter <= f[k] \/ f[k] + RekeyAfter <= f[j]
    BY <1>4, <1>8 DEF RetiredFor
  <2>2. QED BY <1>3, <1>5, <2>1
<1>9. RetiredFor(h)'
  BY <1>2, <1>3, <1>7, <1>8 DEF RetiredFor
<1>10. \E g \in [open' \ {current'} -> Nat] : RetiredFor(g)'
  BY <1>2, <1>5, <1>9
<1>11. reapAge' \in 0 .. ReapEvery /\ LeftBehind'
  BY <1>2, <1>3 DEF TableInv, LeftBehind
<1>12. QED BY <1>3, <1>10, <1>11 DEF TableInv

(* Close empties the table.                                                  *)
LEMMA TableClose == ASSUME KeyInv, TableInv, CloseReturns PROVE TableInv'
<1>1. open' = {} /\ UNCHANGED <<reapAge, world>>
  BY DEF CloseReturns, timers
<1>2. ReapEvery' = ReapEvery
  BY <1>1 DEF ReapEvery
<1>3. PICK g : g = [j \in {} |-> 0]
  OBVIOUS
<1>4. g \in [open' \ {current'} -> Nat] /\ RetiredFor(g)'
  BY <1>1, <1>3 DEF RetiredFor
<1>5. QED BY <1>1, <1>2, <1>4 DEF TableInv, LeftBehind

(* Every step keeps retirement ages apart and bounded.                       *)
LEMMA TableStep == KeyInv /\ TableInv /\ [Next]_vars => TableInv'
<1> SUFFICES ASSUME KeyInv, TableInv, [Next]_vars PROVE TableInv'
  OBVIOUS
<1>1. QED BY TableQuiet, TableInstall, TableReap, TableTick, TableClose, ActorNames
          DEF Next, SenderStep, RekeyStep

(* The table of a connection that is up for days holds the sessions of the     *)
(* last Grace + ReapEvery and the current one, and at most one after Close.    *)
THEOREM TableStaysSmall == Spec => []TableBounded
<1>1. KeyInv /\ TableInv /\ [Next]_vars => (KeyInv /\ TableInv)'
  BY KeyStep, TableStep
<1>2. Init => KeyInv /\ TableInv
  BY KeyInit, TableInit
<1>3. KeyInv /\ TableInv => TableBounded
  BY TableSmall
<1>4. QED BY <1>1, <1>2, <1>3, PTL DEF Spec
=============================================================================
