-------------------------- MODULE FlowIndex_proofs --------------------------
(***************************************************************************)
(* The two maps of live sockets never disagree, and no wake-up of a waiter    *)
(* is lost, for every number of sockets, addresses, 5-tuples and snapshots.   *)
(* The second needs the first: deleting a socket must not leave an answer     *)
(* that was not there before, and that the bucket of a port holds at most one  *)
(* entry of a socket is what SocketsAgree says.                               *)
(***************************************************************************)
EXTENDS FlowIndex, SequenceTheorems, TLAPS

Owners == {OwnerOf[e] : e \in Endpoints} \cup {Nobody}
Entry == [p : Owners, seen : Nat]
SystemSocket == [state : 0 .. 3, bind : BindAddrs, key : Keys, flow : 0 .. 2]
Snap == [pc : 0 .. 3, taken : Nat, clean : BOOLEAN, exact : [Keys -> Entry],
         locals : [LocalKeys -> Entry]]
FlowEvent == [kind : {"established", "deleted"}, id : Endpoints]
Queues == [Keys -> Seq(FlowEvent)]

Types ==
    /\ world \in Worlds /\ now \in Nat /\ flowQ \in Queues
    /\ os \in [Endpoints -> SystemSocket]
    /\ m \in [Keys -> Entry] /\ snapshotExact \in [Keys -> Entry] /\ locals \in [LocalKeys -> Entry]
    /\ sockets \in [Endpoints -> [key : LocalKeys, p : Owners, seen : Nat]]
    /\ socketLocal \in [LocalKeys -> SUBSET [id : Endpoints, p : Owners, seen : Nat]]
    /\ snap \in Snap
    /\ waiting \in [Waiters -> Keys \cup {NoKey}]

(* Signals are left out of the model only where nobody waits.               *)
WaitersKnown == \A w \in Waiters : waiting[w] # NoKey => world.waits # {}

IInv == Types /\ WaitersKnown /\ SocketsAgree /\ WakeUpNotLost

----------------------------------------------------------------------------
(* An index that has heard nothing agrees with itself, and nobody waits.     *)
LEMMA InitInv == Init => IInv
<1> SUFFICES ASSUME Init PROVE IInv
  OBVIOUS
<1>1. world \in Worlds /\ world.binds \subseteq BindAddrs
  BY IndexAssumption DEF Init
<1>2. Unused \in SystemSocket
  BY IndexAssumption DEF Unused, SystemSocket
<1>3. os \in [Endpoints -> SystemSocket]
  <2>1. PICK older \in SUBSET Older :
          \E o \in [older -> [state : {1, 2}, bind : world.binds, key : Keys, flow : {0, 1}]] :
             os = [e \in Endpoints |-> IF e \in older THEN o[e] ELSE Unused]
    BY DEF Init
  <2>2. PICK o \in [older -> [state : {1, 2}, bind : world.binds, key : Keys, flow : {0, 1}]] :
             os = [e \in Endpoints |-> IF e \in older THEN o[e] ELSE Unused]
    BY <2>1
  <2>3. \A e \in older : o[e] \in SystemSocket
    BY <1>1, <2>2 DEF SystemSocket
  <2>4. QED BY <1>2, <2>2, <2>3
<1>4. NoEntry \in Entry /\ NoSocket \in [key : LocalKeys, p : Owners, seen : Nat]
  BY DEF NoEntry, NoSocket, Entry, Owners, LocalKeys
<1>5. m = [k \in Keys |-> NoEntry] /\ snapshotExact = m /\ locals = [a \in LocalKeys |-> NoEntry]
      /\ sockets = [e \in Endpoints |-> NoSocket] /\ socketLocal = [a \in LocalKeys |-> {}]
      /\ now = 0 /\ snap = EmptySnap /\ waiting = [w \in Waiters |-> NoKey]
  BY DEF Init
<1>6. snap \in Snap
  BY <1>4, <1>5 DEF Snap, EmptySnap
<1>7. Types
  <2>1. flowQ \in Queues
    BY DEF Init, Queues
  <2>2. QED BY <1>1, <1>3, <1>4, <1>5, <1>6, <2>1 DEF Types
<1>8. SocketsAgree
  BY <1>5 DEF SocketsAgree, NoSocket
<1>9. QED BY <1>5, <1>7, <1>8 DEF IInv, WaitersKnown, WakeUpNotLost

(* Steps that leave the index alone answer every lookup as before.            *)
LEMMA SameIndex ==
    ASSUME IInv, Types', UNCHANGED <<world, m, snapshotExact, locals, sockets, socketLocal>>,
           \A w \in Waiters : waiting'[w] # NoKey => world.waits # {},
           \A w \in Waiters : waiting'[w] # NoKey /\ Lookup(waiting'[w]) # {}
                                => notify' \/ signalling' # {} \/ w \in stolen'
    PROVE  IInv'
<1>1. SocketsAgree'
  BY DEF IInv, SocketsAgree
<1>2. ASSUME NEW k PROVE Lookup(k)' = Lookup(k)
  BY DEF Lookup, newest
<1>3. WakeUpNotLost'
  BY <1>2 DEF WakeUpNotLost
<1>4. WaitersKnown'
  BY DEF WaitersKnown
<1>5. QED BY <1>1, <1>3, <1>4 DEF IInv

(* And so do steps that leave the waiters alone too.                         *)
LEMMA SameAnswers ==
    ASSUME IInv, os' \in [Endpoints -> SystemSocket], snap' \in Snap, now' \in Nat, flowQ' \in Queues,
           UNCHANGED <<world, m, snapshotExact, locals, sockets, socketLocal, notify, signalling,
                       waiting, stolen>>
    PROVE  IInv'
<1>1. Types'
  BY DEF IInv, Types
<1>2. QED BY <1>1, SameIndex DEF IInv, WaitersKnown, WakeUpNotLost

(* A record of the five parts of the temporary index.                        *)
LEMMA SnapMade ==
    ASSUME NEW a \in 0 .. 3, NEW b \in Nat, NEW c \in BOOLEAN, NEW x \in [Keys -> Entry],
           NEW y \in [LocalKeys -> Entry]
    PROVE  [pc |-> a, taken |-> b, clean |-> c, exact |-> x, locals |-> y] \in Snap
  BY Zenon DEF Snap

(* What the system does with its sockets leaves the index alone.             *)
LEMMA SystemSteps ==
    ASSUME IInv, NEW e \in Endpoints,
           \/ SocketBinds(e) \/ SocketConnects(e) \/ FlowEstablished(e) \/ FlowIdle(e)
           \/ SocketCloses(e)
    PROVE  IInv'
<1>1. os \in [Endpoints -> SystemSocket] /\ snap \in Snap /\ now \in Nat /\ world \in Worlds
  BY DEF IInv, Types
<1>2. world.binds \subseteq BindAddrs
  BY <1>1, IndexAssumption
<1>3. SystemStep
  BY DEF SocketBinds, SocketConnects, FlowEstablished, FlowIdle, SocketCloses
<1>4. snap' \in Snap
  BY <1>1, <1>3 DEF SystemStep, Snap
<1>5. UNCHANGED <<world, now, m, snapshotExact, locals, sockets, socketLocal, notify, signalling,
                  waiting, stolen>>
  BY <1>3 DEF SystemStep, index, calls
<1>6. os' \in [Endpoints -> SystemSocket]
  <2>1. CASE SocketBinds(e)
    BY <1>1, <1>2, <2>1 DEF SocketBinds, SystemSocket
  <2>2. CASE SocketConnects(e)
    BY <1>1, <2>2 DEF SocketConnects, SystemSocket
  <2>3. CASE FlowEstablished(e)
    BY <1>1, <2>3 DEF FlowEstablished, SystemSocket
  <2>4. CASE FlowIdle(e)
    BY <1>1, <2>4 DEF FlowIdle, SystemSocket
  <2>5. CASE SocketCloses(e)
    <3> DEFINE closed == [os EXCEPT ![e].state = 3]
    <3>1. closed \in [Endpoints -> SystemSocket]
      BY <1>1 DEF SystemSocket
    <3>2. os' = [closed EXCEPT ![e].flow = 2]
      BY <2>5 DEF SocketCloses
    <3> HIDE DEF closed
    <3>3. QED BY <3>1, <3>2 DEF SystemSocket
  <2>6. QED BY <2>1, <2>2, <2>3, <2>4, <2>5
<1>7. flowQ' \in Queues
  <2>1. flowQ \in Queues /\ os[e].key \in Keys
    BY <1>1 DEF IInv, Types, SystemSocket
  <2>2. ASSUME NEW kind \in {"established", "deleted"}, Told(e, kind) PROVE flowQ' \in Queues
    <3>1. [kind |-> kind, id |-> e] \in FlowEvent
      BY DEF FlowEvent
    <3>2. Append(flowQ[os[e].key], [kind |-> kind, id |-> e])
            \in Seq(FlowEvent)
      BY <2>1, <3>1 DEF Queues
    <3>3. QED BY <2>1, <2>2, <3>2 DEF Told, Queues
  <2>3. flowQ' = flowQ \/ Told(e, "established") \/ Told(e, "deleted")
    BY DEF SocketBinds, SocketConnects, FlowEstablished, FlowIdle, SocketCloses
  <2>4. QED BY <2>1, <2>2, <2>3
<1>8. QED BY <1>1, <1>4, <1>5, <1>6, <1>7, SameAnswers

(* A snapshot is read into an index of its own; time passes.                 *)
LEMMA SnapshotSteps ==
    ASSUME IInv, SnapshotExisting \/ SnapshotTableFails \/ Tick \/ \E six \in BOOLEAN : SnapshotTable(six)
    PROVE  IInv'
<1>1. os \in [Endpoints -> SystemSocket] /\ snap \in Snap /\ now \in Nat /\ flowQ \in Queues
  BY DEF IInv, Types
<1>2. EmptySnap \in Snap
  BY DEF EmptySnap, Snap, NoEntry, Entry, Owners
<1> DEFINE Made(a, b, c, x, y) == [pc |-> a, taken |-> b, clean |-> c, exact |-> x, locals |-> y]
<1>a. snap.pc \in 0 .. 3 /\ snap.taken \in Nat /\ snap.exact \in [Keys -> Entry]
      /\ snap.locals \in [LocalKeys -> Entry]
  BY <1>1 DEF Snap
<1>b. snap.clean \in BOOLEAN
  BY <1>1, Zenon DEF Snap
<1>3. UNCHANGED <<world, os, flowQ, m, snapshotExact, locals, sockets, socketLocal, notify,
                  signalling, waiting, stolen>>
  BY DEF SnapshotExisting, SnapshotTableFails, Tick, SnapshotTable, index, events, calls
<1>4. CASE SnapshotExisting
  <2>1. snap' = Made(1, snap.taken + 1, TRUE, EmptySnap.exact, EmptySnap.locals) /\ now' = now
    BY <1>4 DEF SnapshotExisting, EmptySnap
  <2>a. EmptySnap.exact \in [Keys -> Entry] /\ EmptySnap.locals \in [LocalKeys -> Entry]
    BY <1>2 DEF Snap
  <2>b. snap.taken + 1 \in Nat /\ 1 \in 0 .. 3
    BY <1>a
  <2>c. snap' \in Snap
    BY <2>1, <2>a, <2>b, SnapMade, Zenon
  <2>2. QED BY <1>1, <1>3, <2>1, <2>c, SameAnswers
<1>5. CASE SnapshotTableFails
  <2>1. snap' = Made(snap.pc + 1, snap.taken, FALSE, snap.exact, snap.locals) /\ now' = now
    BY <1>1, <1>5 DEF SnapshotTableFails, Snap
  <2>a. snap.pc + 1 \in 0 .. 3
    BY <1>5 DEF SnapshotTableFails
  <2>b. snap' \in Snap
    BY <1>a, <2>1, <2>a, SnapMade, Zenon
  <2>2. QED BY <1>1, <1>3, <2>1, <2>b, SameAnswers
<1>6. CASE Tick
  BY <1>1, <1>3, <1>6, SameAnswers DEF Tick
<1>7. ASSUME NEW six \in BOOLEAN, SnapshotTable(six) PROVE IInv'
  <2>1. snap.pc \in {1, 2} /\ now' = now
    BY <1>7 DEF SnapshotTable
  <2>a. snap.pc + 1 \in 0 .. 3
    BY <2>1
  <2>2. ASSUME NEW e \in Endpoints PROVE [p |-> OwnerOf[e], seen |-> now] \in Entry
    BY <1>1 DEF Entry, Owners
  <2>3. CASE world.proto = "tcp"
    <3> DEFINE rows == [k \in Keys |-> IF TCPRows(k, six) = {} THEN snap.exact[k]
                 ELSE [p |-> OwnerOf[CHOOSE e \in TCPRows(k, six) : TRUE], seen |-> now]]
    <3>1. snap' = [snap EXCEPT !.pc = @ + 1, !.exact = rows]
      BY <1>7, <2>3 DEF SnapshotTable
    <3>2. ASSUME NEW k \in Keys, TCPRows(k, six) # {}
          PROVE  (CHOOSE e \in TCPRows(k, six) : TRUE) \in Endpoints
      BY <3>2 DEF TCPRows
    <3>3. rows \in [Keys -> Entry]
      BY <1>1, <2>2, <3>2 DEF Snap
    <3> HIDE DEF rows
    <3>a. snap' = Made(snap.pc + 1, snap.taken, snap.clean, rows, snap.locals)
      BY <1>1, <3>1 DEF Snap
    <3>4. snap' \in Snap
      BY <1>a, <1>b, <2>a, <3>3, <3>a, SnapMade, Zenon
    <3>5. QED BY <1>1, <1>3, <2>1, <3>4, SameAnswers
  <2>4. CASE world.proto # "tcp"
    <3>1. PICK pick \in [LocalKeys -> Endpoints] :
            snap' = [snap EXCEPT !.pc = @ + 1,
                      !.locals = [a \in LocalKeys |-> IF UDPRows(a, six) = {} THEN @[a]
                                    ELSE [p |-> OwnerOf[pick[a]], seen |-> now]]]
      BY <1>7, <2>4 DEF SnapshotTable
    <3> DEFINE rows == [a \in LocalKeys |-> IF UDPRows(a, six) = {} THEN snap.locals[a]
                          ELSE [p |-> OwnerOf[pick[a]], seen |-> now]]
    <3>2. snap' = [snap EXCEPT !.pc = @ + 1, !.locals = rows]
      BY <3>1
    <3>3. rows \in [LocalKeys -> Entry]
      BY <1>1, <2>2 DEF Snap
    <3> HIDE DEF rows
    <3>a. snap' = Made(snap.pc + 1, snap.taken, snap.clean, snap.exact, rows)
      BY <1>1, <3>2 DEF Snap
    <3>4. snap' \in Snap
      BY <1>a, <1>b, <2>a, <3>3, <3>a, SnapMade, Zenon
    <3>5. QED BY <1>1, <1>3, <2>1, <3>4, SameAnswers
  <2>5. QED BY <2>3, <2>4
<1>8. QED BY <1>4, <1>5, <1>6, <1>7

(* WaitLookup, its wake-ups and its deadline.                                *)
LEMMA WaiterSteps ==
    ASSUME IInv, NEW w \in Waiters,
           (\E k \in Keys : WaitLookup(w, k)) \/ Woken(w) \/ Deadline(w)
    PROVE  IInv'
<1>1. UNCHANGED <<world, os, flowQ, now, m, snapshotExact, locals, sockets, socketLocal, snap,
                  signalling>>
  BY DEF WaitLookup, Woken, Deadline, index, events
<1>2. waiting \in [Waiters -> Keys \cup {NoKey}]
  BY DEF IInv, Types
<1>3. ASSUME NEW k \in Keys, WaitLookup(w, k) PROVE IInv'
  <2>1. waiting' = [waiting EXCEPT ![w] = k] /\ Lookup(k) = {} /\ world.waits # {}
        /\ stolen' = stolen \ {w} /\ notify' = notify
    BY <1>3 DEF WaitLookup
  <2>2. Types'
    BY <1>1, <1>2, <2>1 DEF IInv, Types
  <2>3. ASSUME NEW v \in Waiters, waiting'[v] # NoKey, Lookup(waiting'[v]) # {}
        PROVE  notify' \/ signalling' # {} \/ v \in stolen'
    <3>1. v # w /\ waiting'[v] = waiting[v]
      BY <1>2, <2>1, <2>3
    <3>2. QED BY <1>1, <2>1, <2>3, <3>1 DEF IInv, WakeUpNotLost
  <2>4. QED BY <1>1, <2>1, <2>2, <2>3, SameIndex
<1>4. CASE Woken(w)
  <2>1. waiting' = [waiting EXCEPT ![w] = IF Lookup(@) # {} THEN NoKey ELSE @]
        /\ stolen' = {v \in Waiters \ {w} : waiting[v] # NoKey}
    BY <1>4 DEF Woken
  <2>2. waiting'[w] \in {waiting[w], NoKey} /\ (waiting'[w] # NoKey => Lookup(waiting'[w]) = {})
        /\ \A v \in Waiters : v # w => waiting'[v] = waiting[v]
    BY <1>2, <2>1
  <2>3. Types'
    BY <1>1, <1>2, <2>1 DEF IInv, Types
  <2>4. QED BY <1>1, <2>1, <2>2, <2>3, SameIndex DEF IInv, WaitersKnown
<1>5. CASE Deadline(w)
  <2>1. waiting' = [waiting EXCEPT ![w] = NoKey] /\ stolen' = stolen \ {w} /\ notify' = notify
    BY <1>5 DEF Deadline
  <2>2. waiting'[w] = NoKey /\ \A v \in Waiters : v # w => waiting'[v] = waiting[v]
    BY <1>2, <2>1
  <2>3. Types'
    BY <1>1, <1>2, <2>1 DEF IInv, Types
  <2>4. QED BY <1>1, <2>1, <2>2, <2>3, SameIndex DEF IInv, WaitersKnown, WakeUpNotLost
<1>6. QED BY <1>3, <1>4, <1>5

(* signal() puts the token every waiter counts on into the channel.          *)
LEMMA SignalStep == ASSUME IInv, NEW l, signal(l) PROVE IInv'
<1>1. UNCHANGED <<world, os, flowQ, now, m, snapshotExact, locals, sockets, socketLocal, snap,
                  waiting, stolen>>
  BY DEF signal, index, events, calls
<1>2. notify'
  BY DEF signal
<1>3. Types'
  BY <1>1 DEF IInv, Types
<1>4. QED BY <1>1, <1>2, <1>3, SameIndex DEF IInv, WaitersKnown

(* AddSocket replaces whatever was known of the socket, in both maps.         *)
LEMMA AddKeepsAgreement ==
    ASSUME IInv, NEW e \in Endpoints, NEW a \in BindAddrs \cup {k.local : k \in Keys},
           AddSocket(e, a, OwnerOf[e])
    PROVE  /\ SocketsAgree'
           /\ sockets' \in [Endpoints -> [key : LocalKeys, p : Owners, seen : Nat]]
           /\ socketLocal' \in [LocalKeys -> SUBSET [id : Endpoints, p : Owners, seen : Nat]]
<1> DEFINE lk == normalizeLocal(a)
           added == [id |-> e, p |-> OwnerOf[e], seen |-> now]
<1>1. lk \in LocalKeys
  BY DEF normalizeLocal, LocalKeys
<1>2. sockets \in [Endpoints -> [key : LocalKeys, p : Owners, seen : Nat]]
      /\ socketLocal \in [LocalKeys -> SUBSET [id : Endpoints, p : Owners, seen : Nat]]
      /\ now \in Nat
  BY DEF IInv, Types
<1>3. OwnerOf[e] \in Owners /\ OwnerOf[e] # Nobody
  BY IndexAssumption DEF Owners, Nobody
<1>4. sockets' = [sockets EXCEPT ![e] = [key |-> lk, p |-> OwnerOf[e], seen |-> now]]
      /\ socketLocal' = [WithoutSocket(e) EXCEPT ![lk] = @ \cup {added}]
  BY DEF AddSocket
<1> HIDE DEF lk
<1>5. [key |-> lk, p |-> OwnerOf[e], seen |-> now] \in [key : LocalKeys, p : Owners, seen : Nat]
      /\ added \in [id : Endpoints, p : Owners, seen : Nat]
  BY <1>1, <1>2, <1>3
<1>6. sockets' \in [Endpoints -> [key : LocalKeys, p : Owners, seen : Nat]]
  BY <1>2, <1>4, <1>5
<1>7. \A l \in LocalKeys : socketLocal'[l] = {b \in socketLocal[l] : b.id # e}
                                               \cup (IF l = lk THEN {added} ELSE {})
  BY <1>1, <1>2, <1>4 DEF WithoutSocket
<1>8. socketLocal' \in [LocalKeys -> SUBSET [id : Endpoints, p : Owners, seen : Nat]]
  <2>1. socketLocal' = [l \in LocalKeys |-> socketLocal'[l]]
    BY <1>4 DEF WithoutSocket
  <2>2. ASSUME NEW l \in LocalKeys
        PROVE  socketLocal'[l] \subseteq [id : Endpoints, p : Owners, seen : Nat]
    BY <1>2, <1>5, <1>7
  <2>3. QED BY <2>1, <2>2
<1>9. ASSUME NEW id \in Endpoints, NEW l \in LocalKeys
      PROVE  {b \in socketLocal'[l] : b.id = id} =
                IF sockets'[id].p # Nobody /\ sockets'[id].key = l
                THEN {[id |-> id, p |-> sockets'[id].p, seen |-> sockets'[id].seen]} ELSE {}
  <2>1. CASE id = e
    <3>1. {b \in socketLocal'[l] : b.id = id} = IF l = lk THEN {added} ELSE {}
      BY <1>7, <2>1
    <3>2. sockets'[id].p = OwnerOf[e] /\ sockets'[id].key = lk /\ sockets'[id].seen = now
      BY <1>2, <1>4, <2>1
    <3>3. QED BY <1>3, <2>1, <3>1, <3>2
  <2>2. CASE id # e
    <3>1. {b \in socketLocal'[l] : b.id = id} = {b \in socketLocal[l] : b.id = id}
      BY <1>7, <2>2
    <3>2. sockets'[id] = sockets[id]
      BY <1>2, <1>4, <2>2
    <3>3. QED BY <3>1, <3>2 DEF IInv, SocketsAgree
  <2>3. QED BY <2>1, <2>2
<1>10. SocketsAgree'
  BY <1>9 DEF SocketsAgree
<1>11. QED BY <1>6, <1>8, <1>10

(* A loop that has changed the index is about to signal it.                   *)
LEMMA ToldOrAlone ==
    ASSUME IInv, NEW l, Updated(l), UNCHANGED <<world, waiting>>
    PROVE  WakeUpNotLost' /\ WaitersKnown'
<1>1. CASE world.waits = {}
  BY <1>1 DEF IInv, WaitersKnown, WakeUpNotLost
<1>2. CASE world.waits # {}
  BY <1>2 DEF IInv, WaitersKnown, WakeUpNotLost, Updated
<1>3. QED BY <1>1, <1>2

(* BIND or CONNECT: both maps change together, and a signal follows.         *)
LEMMA AddStep == ASSUME IInv, NEW e \in Endpoints, socketLoopAdds(e) PROVE IInv'
<1>1. AddSocket(e, EventAddr(e), OwnerOf[e]) /\ Updated("socket")
      /\ UNCHANGED <<world, os, flowQ, now, m, snapshotExact, locals, snap, waiting>>
  BY DEF socketLoopAdds, calls
<1>2. EventAddr(e) \in BindAddrs \cup {k.local : k \in Keys}
  <2>1. os[e] \in SystemSocket
    BY DEF IInv, Types
  <2>2. os[e].bind \in BindAddrs /\ os[e].key \in Keys
    BY <2>1 DEF SystemSocket
  <2>3. QED BY <2>2 DEF EventAddr
<1>3. SocketsAgree' /\ sockets' \in [Endpoints -> [key : LocalKeys, p : Owners, seen : Nat]]
      /\ socketLocal' \in [LocalKeys -> SUBSET [id : Endpoints, p : Owners, seen : Nat]]
  BY <1>1, <1>2, AddKeepsAgreement
<1>4. Types'
  BY <1>1, <1>3 DEF IInv, Types
<1>5. QED BY <1>1, <1>3, <1>4, ToldOrAlone DEF IInv

(* A bucket that loses entries and still answers did answer before.           *)
LEMMA SmallerBucket ==
    ASSUME NEW B, NEW C \in SUBSET B, newest(C) # {}, NEW e, C = {b \in B : b.id # e},
           \A b \in B : b.seen \in Nat, \A b, c \in B : b.id = e /\ c.id = e => b = c
    PROVE  newest(B) # {}
<1>1. PICK c \in C : \A d \in C : d.seen <= c.seen
  BY DEF newest
<1>2. CASE \A b \in B : b.id = e => b.seen <= c.seen
  <2>1. c \in B /\ \A d \in B : d.seen <= c.seen
    BY <1>1, <1>2
  <2>2. c.p \in newest(B)
    BY <2>1, Zenon DEF newest
  <2>3. QED BY <2>2
<1>3. CASE ~ \A b \in B : b.id = e => b.seen <= c.seen
  <2>1. PICK b \in B : b.id = e /\ ~(b.seen <= c.seen)
    BY <1>3
  <2>2. \A d \in B : d.seen <= b.seen
    BY <1>1, <2>1
  <2>3. b.p \in newest(B)
    BY <2>1, <2>2, Zenon DEF newest
  <2>4. QED BY <2>3
<1>4. QED BY <1>2, <1>3

(* Entries that go, here or in the maps, take answers away and never add one. *)
LEMMA FewerAnswers ==
    ASSUME NEW k, Lookup(k)' # {},
           Known(m'[k]) # {} => Known(m[k]) # {},
           newest(socketLocal'[k.local]) # {} => newest(socketLocal[k.local]) # {},
           newest(socketLocal'[Any]) # {} => newest(socketLocal[Any]) # {},
           Known(snapshotExact'[k]) # {} => Known(snapshotExact[k]) # {},
           Known(locals'[k.local]) # {} => Known(locals[k.local]) # {},
           Known(locals'[Any]) # {} => Known(locals[Any]) # {}
    PROVE  Lookup(k) # {}
<1>1. SUFFICES ASSUME Lookup(k) = {} PROVE Lookup(k)' = {}
  OBVIOUS
<1>2. /\ Known(m[k]) = {} /\ newest(socketLocal[k.local]) = {} /\ newest(socketLocal[Any]) = {}
      /\ Known(snapshotExact[k]) = {} /\ Known(locals[k.local]) = {} /\ Known(locals[Any]) = {}
  BY <1>1 DEF Lookup, FirstOf
<1>3. /\ Known(m'[k]) = {} /\ newest(socketLocal'[k.local]) = {} /\ newest(socketLocal'[Any]) = {}
      /\ Known(snapshotExact'[k]) = {} /\ Known(locals'[k.local]) = {} /\ Known(locals'[Any]) = {}
  BY <1>2
<1>4. QED BY <1>3 DEF Lookup, FirstOf

(* So no waiter can gain an answer that nobody signals.                       *)
LEMMA NoNewAnswers ==
    ASSUME IInv, Types', SocketsAgree', UNCHANGED <<world, notify, signalling, waiting, stolen>>,
           \A k \in Keys : Lookup(k)' # {} => Lookup(k) # {}
    PROVE  IInv'
<1>1. \A w \in Waiters : waiting[w] # NoKey => waiting[w] \in Keys
  BY DEF IInv, Types
<1>2. WakeUpNotLost'
  BY <1>1 DEF IInv, WakeUpNotLost
<1>3. QED BY <1>2 DEF IInv, WaitersKnown

(* CLOSE: both maps lose the socket, and no waiter gains an answer.          *)
LEMMA DeleteStep == ASSUME IInv, NEW e \in Endpoints, socketLoopDeletes(e) PROVE IInv'
<1>1. sockets' = [sockets EXCEPT ![e] = NoSocket] /\ socketLocal' = WithoutSocket(e)
      /\ UNCHANGED <<world, os, flowQ, now, m, snapshotExact, locals, notify, signalling, snap,
                     waiting, stolen>>
  BY DEF socketLoopDeletes, DeleteSocket, calls
<1>2. sockets \in [Endpoints -> [key : LocalKeys, p : Owners, seen : Nat]]
      /\ socketLocal \in [LocalKeys -> SUBSET [id : Endpoints, p : Owners, seen : Nat]]
  BY DEF IInv, Types
<1>3. NoSocket \in [key : LocalKeys, p : Owners, seen : Nat] /\ NoSocket.p = Nobody
  BY DEF NoSocket, Owners, LocalKeys
<1>4. \A l \in LocalKeys : socketLocal'[l] = {b \in socketLocal[l] : b.id # e}
  BY <1>1 DEF WithoutSocket
<1>5. Types'
  <2>1. sockets' \in [Endpoints -> [key : LocalKeys, p : Owners, seen : Nat]]
    BY <1>1, <1>2, <1>3
  <2>2. socketLocal' \in [LocalKeys -> SUBSET [id : Endpoints, p : Owners, seen : Nat]]
    BY <1>1, <1>2 DEF WithoutSocket
  <2>3. QED BY <1>1, <2>1, <2>2 DEF IInv, Types
<1>6. SocketsAgree'
  <2>1. ASSUME NEW id \in Endpoints, NEW l \in LocalKeys
        PROVE  {b \in socketLocal'[l] : b.id = id} =
                  IF sockets'[id].p # Nobody /\ sockets'[id].key = l
                  THEN {[id |-> id, p |-> sockets'[id].p, seen |-> sockets'[id].seen]} ELSE {}
    <3>1. CASE id = e
      <4>1. {b \in socketLocal'[l] : b.id = id} = {} /\ sockets'[id] = NoSocket
        BY <1>1, <1>2, <1>4, <3>1
      <4>2. QED BY <1>3, <4>1
    <3>2. CASE id # e
      <4>1. {b \in socketLocal'[l] : b.id = id} = {b \in socketLocal[l] : b.id = id}
            /\ sockets'[id] = sockets[id]
        BY <1>1, <1>2, <1>4, <3>2
      <4>2. QED BY <4>1 DEF IInv, SocketsAgree
    <3>3. QED BY <3>1, <3>2
  <2>2. QED BY <2>1 DEF SocketsAgree
<1>7. ASSUME NEW l \in LocalKeys, newest(socketLocal'[l]) # {}
      PROVE  newest(socketLocal[l]) # {}
  <2>1. socketLocal[l] \subseteq [id : Endpoints, p : Owners, seen : Nat]
    BY <1>2
  <2>2. \A b \in socketLocal[l] : b.seen \in Nat
    BY <2>1
  <2>3. \A b, c \in socketLocal[l] : b.id = e /\ c.id = e => b = c
    <3>1. {b \in socketLocal[l] : b.id = e} \in
              {{}, {[id |-> e, p |-> sockets[e].p, seen |-> sockets[e].seen]}}
      BY DEF IInv, SocketsAgree
    <3>2. QED BY <3>1
  <2>4. socketLocal'[l] \in SUBSET socketLocal[l]
    BY <1>4
  <2>5. QED BY <1>4, <1>7, <2>2, <2>3, <2>4, SmallerBucket
<1>8. ASSUME NEW k \in Keys, Lookup(k)' # {} PROVE Lookup(k) # {}
  <2>1. k.local \in LocalKeys /\ Any \in LocalKeys
    BY DEF LocalKeys
  <2>2. QED BY <1>1, <1>7, <1>8, <2>1, FewerAnswers
<1>9. QED BY <1>1, <1>5, <1>6, <1>8, NoNewAnswers

(* A step that leaves both socket maps alone leaves them in agreement.       *)
LEMMA SameSockets ==
    ASSUME IInv, UNCHANGED <<sockets, socketLocal>> PROVE SocketsAgree'
  BY DEF IInv, SocketsAgree

(* ESTABLISHED is signalled; DELETED only takes an answer away.              *)
LEMMA FlowStep == ASSUME IInv, NEW k \in Keys, flowLoop(k) PROVE IInv'
<1> DEFINE ev == Head(flowQ[k])
<1>1. UNCHANGED <<world, os, now, snapshotExact, locals, sockets, socketLocal, notify, snap, waiting,
                  stolen>>
  BY DEF flowLoop, calls
<1>2. m \in [Keys -> Entry] /\ now \in Nat
  BY DEF IInv, Types
<1>a. flowQ \in Queues /\ flowQ[k] # <<>> /\ flowQ' = [flowQ EXCEPT ![k] = Tail(@)]
  BY DEF IInv, Types, flowLoop
<1>b. ev \in FlowEvent
      /\ Tail(flowQ[k]) \in Seq(FlowEvent)
  BY <1>a DEF Queues
<1>c. flowQ' \in Queues
  BY <1>a, <1>b DEF Queues
<1>3. CASE m' = [m EXCEPT ![k] = [p |-> OwnerOf[ev.id], seen |-> now]] /\ Updated("flow")
  <2>1. [p |-> OwnerOf[ev.id], seen |-> now] \in Entry
    BY <1>2, <1>b DEF Entry, Owners, FlowEvent
  <2>2. Types'
    BY <1>1, <1>2, <1>c, <1>3, <2>1 DEF IInv, Types
  <2>3. QED BY <1>1, <1>3, <2>2, SameSockets, ToldOrAlone DEF IInv
<1>4. CASE m' = [m EXCEPT ![k] = NoEntry] /\ UNCHANGED signalling
  <2>1. NoEntry \in Entry /\ Known(NoEntry) = {}
    BY DEF NoEntry, Entry, Owners, Known
  <2>2. Types'
    BY <1>1, <1>2, <1>c, <1>4, <2>1 DEF IInv, Types
  <2>3. ASSUME NEW j \in Keys, Lookup(j)' # {} PROVE Lookup(j) # {}
    <3>1. Known(m'[j]) # {} => Known(m[j]) # {}
      BY <1>2, <1>4, <2>1
    <3>2. QED BY <1>1, <2>3, <3>1, FewerAnswers
  <2>4. QED BY <1>1, <1>4, <2>2, <2>3, SameSockets, NoNewAnswers
<1>5. QED BY <1>3, <1>4 DEF flowLoop

(* Sweep only takes answers away.                                            *)
LEMMA SweepStep == ASSUME IInv, Sweep PROVE IInv'
<1>1. UNCHANGED <<world, os, flowQ, now, sockets, socketLocal, notify, signalling, snap, waiting,
                  stolen>>
      /\ m' = Swept(m) /\ snapshotExact' = Swept(snapshotExact) /\ locals' = Swept(locals)
  BY DEF Sweep, events, calls
<1>2. NoEntry \in Entry /\ Known(NoEntry) = {}
  BY DEF NoEntry, Entry, Owners, Known
<1>3. m \in [Keys -> Entry] /\ snapshotExact \in [Keys -> Entry] /\ locals \in [LocalKeys -> Entry]
  BY DEF IInv, Types
<1>4. ASSUME NEW S, NEW f \in [S -> Entry]
      PROVE  Swept(f) \in [S -> Entry] /\ \A s \in S : Swept(f)[s] \in {f[s], NoEntry}
  <2>1. Swept(f) = [s \in S |-> IF Old(f[s]) THEN NoEntry ELSE f[s]]
    BY DEF Swept
  <2>2. QED BY <1>2, <2>1
<1>5. Types'
  BY <1>1, <1>3, <1>4 DEF IInv, Types
<1>6. ASSUME NEW k \in Keys, Lookup(k)' # {} PROVE Lookup(k) # {}
  <2>1. k.local \in LocalKeys /\ Any \in LocalKeys
    BY DEF LocalKeys
  <2>2. m'[k] \in {m[k], NoEntry} /\ snapshotExact'[k] \in {snapshotExact[k], NoEntry}
        /\ locals'[k.local] \in {locals[k.local], NoEntry} /\ locals'[Any] \in {locals[Any], NoEntry}
    BY <1>1, <1>3, <1>4, <2>1
  <2>3. QED BY <1>1, <1>2, <1>6, <2>2, FewerAnswers
<1>7. QED BY <1>1, <1>5, <1>6, SameSockets, NoNewAnswers

(* A new snapshot may bring answers, and is signalled.                       *)
LEMMA SwapStep == ASSUME IInv, SnapshotSwap PROVE IInv'
<1>1. UNCHANGED <<world, os, flowQ, now, m, sockets, socketLocal, waiting>> /\ Updated("snapshot")
      /\ snapshotExact' = snap.exact /\ locals' = snap.locals
      /\ snap' = [EmptySnap EXCEPT !.taken = snap.taken]
  BY DEF SnapshotSwap, events, calls
<1>2. snap \in Snap
  BY DEF IInv, Types
<1>3. snap.exact \in [Keys -> Entry] /\ snap.locals \in [LocalKeys -> Entry] /\ snap.taken \in Nat
  BY <1>2 DEF Snap
<1>4. EmptySnap \in Snap
  BY DEF EmptySnap, Snap, NoEntry, Entry, Owners
<1>5. snap' \in Snap
  BY <1>1, <1>3, <1>4 DEF Snap
<1>6. Types'
  BY <1>1, <1>3, <1>5 DEF IInv, Types
<1>7. QED BY <1>1, <1>6, SameSockets, ToldOrAlone DEF IInv

(* Every step of every loop keeps the invariant.                             *)
LEMMA StepInv == IInv /\ [Next]_vars => IInv'
<1> SUFFICES ASSUME IInv, [Next]_vars PROVE IInv'
  OBVIOUS
<1>1. CASE UNCHANGED vars
  <2>1. UNCHANGED <<world, os, flowQ, now, m, snapshotExact, locals, sockets, socketLocal, notify,
                    signalling, snap, waiting, stolen>>
    BY <1>1 DEF vars, index, events, calls
  <2>2. QED BY <2>1, SameAnswers DEF IInv, Types
<1>2. QED BY <1>1, SystemSteps, AddStep, DeleteStep, FlowStep, WaiterSteps, SignalStep, SweepStep,
             SnapshotSteps, SwapStep DEF Next

(* The maps agree and no wake-up is lost in every behaviour.                 *)
THEOREM InductiveInvariant == Spec => []IInv
  BY InitInv, StepInv, PTL DEF Spec

(* The two maps of live sockets describe the same sockets, whatever order     *)
(* BIND, CONNECT and CLOSE of different sockets are told in.                  *)
THEOREM MapsAgree == Spec => []SocketsAgree
<1>1. IInv => SocketsAgree
  BY DEF IInv
<1>2. QED BY <1>1, InductiveInvariant, PTL

(* No waiter sleeps on an answer that nobody will signal, except the one      *)
(* whose token another waiter took.                                          *)
THEOREM WakeUpsArrive == Spec => []WakeUpNotLost
<1>1. IInv => WakeUpNotLost
  BY DEF IInv
<1>2. QED BY <1>1, InductiveInvariant, PTL

----------------------------------------------------------------------------
(* Which process owns a packet: what the maps say of the system's sockets,    *)
(* event by event.                                                           *)
SocketShape ==
    \A e \in Endpoints :
       /\ os[e].state = 0 => os[e].flow = 0
       /\ os[e].state # 0 => CanUse(os[e].bind, os[e].key)
       /\ os[e].flow = 1 => IsOpen(e)

(* socketLoop's view of a socket is the socket as of the last event it heard.  *)
HeardTruth ==
    /\ handled \in [Endpoints -> 0 .. 3]
    /\ \A e \in Endpoints :
       /\ handled[e] <= os[e].state
       /\ Heard(e) => /\ handled[e] \in {1, 2} /\ sockets[e].p = OwnerOf[e]
                      /\ sockets[e].key = normalizeLocal(IF handled[e] = 2 THEN os[e].key.local
                                                         ELSE os[e].bind)

(* With nothing left to read, an exact entry is of a socket that has the flow; *)
(* and a queue that ends in ESTABLISHED is about such a socket.               *)
HasFlow(e, k) == os[e].key = k /\ os[e].flow = 1
LastTold(q) == q[Len(q)]
FlowTruth ==
    \A k \in Keys :
       /\ flowQ[k] = <<>> /\ m[k].p # Nobody
             => \E e \in Endpoints : HasFlow(e, k) /\ m[k].p = OwnerOf[e]
       /\ flowQ[k] # <<>> /\ LastTold(flowQ[k]).kind = "established"
             => HasFlow(LastTold(flowQ[k]).id, k)

(* A snapshot during which no socket changed names open sockets only, and all  *)
(* UDP sockets of the tables it has read.                                    *)
OfOpen(p) == p = Nobody \/ \E e \in Endpoints : IsOpen(e) /\ p = OwnerOf[e]
Sound(x, y) == (\A k \in Keys : OfOpen(x[k].p)) /\ (\A a \in LocalKeys : OfOpen(y[a].p))
Read(e, at) == IF os[e].bind \in Is6 THEN at = 3 ELSE at \in {2, 3}
Complete(y, at) ==
    world.proto # "tcp" =>
       \A e \in Endpoints : IsOpen(e) /\ Read(e, at) => y[normalizeLocal(LocalAddr(e))].p # Nobody
SnapTruth == snap.clean => Sound(snap.exact, snap.locals) /\ Complete(snap.locals, snap.pc)
FreshTruth == fresh => Sound(snapshotExact, locals) /\ Complete(locals, 3)

TruthInv == SocketShape /\ HeardTruth /\ FlowTruth /\ SnapTruth /\ FreshTruth

(* Before any event: sockets older than the driver handles, and empty maps.   *)
LEMMA TruthInit == Init => TruthInv
<1> SUFFICES ASSUME Init PROVE TruthInv
  OBVIOUS
<1>1. IInv
  BY InitInv
<1>2. PICK older \in SUBSET Older :
          \E o \in [older -> [state : {1, 2}, bind : world.binds, key : Keys, flow : {0, 1}]] :
             /\ \A e \in older : CanUse(o[e].bind, o[e].key)
             /\ os = [e \in Endpoints |-> IF e \in older THEN o[e] ELSE Unused]
  BY DEF Init
<1>3. PICK o \in [older -> [state : {1, 2}, bind : world.binds, key : Keys, flow : {0, 1}]] :
             /\ \A e \in older : CanUse(o[e].bind, o[e].key)
             /\ os = [e \in Endpoints |-> IF e \in older THEN o[e] ELSE Unused]
  BY <1>2
<1>4. ASSUME NEW e \in Endpoints
      PROVE  /\ os[e].state \in {0, 1, 2} /\ (os[e].state = 0 => os[e].flow = 0)
             /\ os[e].state # 0 => CanUse(os[e].bind, os[e].key)
  <2>1. CASE e \in older
    <3>1. os[e] = o[e] /\ o[e].state \in {1, 2}
      BY <1>3, <2>1
    <3>2. QED BY <1>3, <2>1, <3>1
  <2>2. CASE e \notin older
    <3>1. os[e] = Unused
      BY <1>3, <2>2
    <3>2. QED BY <3>1 DEF Unused
  <2>3. QED BY <2>1, <2>2
<1>5. SocketShape
  BY <1>4 DEF SocketShape, IsOpen
<1>6. HeardTruth
  <2>1. handled = [e \in Endpoints |-> os[e].state] /\ sockets = [e \in Endpoints |-> NoSocket]
    BY DEF Init
  <2>2. QED BY <1>4, <2>1 DEF HeardTruth, Heard, NoSocket
<1>7. FlowTruth
  <2>1. flowQ = [k \in Keys |-> <<>>] /\ m = [k \in Keys |-> NoEntry]
    BY DEF Init
  <2>2. QED BY <2>1 DEF FlowTruth, NoEntry
<1>8. SnapTruth /\ FreshTruth
  <2>1. ~snap.clean /\ ~fresh
    BY DEF Init, EmptySnap
  <2>2. QED BY <2>1 DEF SnapTruth, FreshTruth
<1>9. QED BY <1>5, <1>6, <1>7, <1>8 DEF TruthInv

(* Steps of the waiters, of the clock and of signal() say nothing of sockets.  *)
LEMMA SameTruth ==
    ASSUME TruthInv, UNCHANGED <<world, os, handled, sockets, flowQ, m, snap, fresh, snapshotExact,
                                 locals>>
    PROVE  TruthInv'
<1>1. SocketShape' /\ HeardTruth'
  BY DEF TruthInv, SocketShape, HeardTruth, IsOpen, Heard
<1>2. FlowTruth'
  BY DEF TruthInv, FlowTruth, HasFlow
<1>3. SnapTruth' /\ FreshTruth'
  BY DEF TruthInv, SnapTruth, FreshTruth, Sound, Complete, OfOpen, IsOpen, Read, LocalAddr
<1>4. QED BY <1>1, <1>2, <1>3 DEF TruthInv

(* A step that leaves the system's sockets and the snapshots alone.            *)
LEMMA SameSnapshots ==
    ASSUME TruthInv, UNCHANGED <<world, os, snap, fresh, snapshotExact, locals>>
    PROVE  SocketShape' /\ SnapTruth' /\ FreshTruth'
<1>1. SocketShape'
  BY DEF TruthInv, SocketShape, IsOpen
<1>2. SnapTruth' /\ FreshTruth'
  BY DEF TruthInv, SnapTruth, FreshTruth, Sound, Complete, OfOpen, IsOpen, Read, LocalAddr
<1>3. QED BY <1>1, <1>2

(* The last event of a queue: the one just told, or the one already there.     *)
LEMMA LastToldOrKept ==
    ASSUME NEW q \in Seq(FlowEvent), NEW ev \in FlowEvent
    PROVE  /\ Append(q, ev) # <<>> /\ LastTold(Append(q, ev)) = ev
           /\ q # <<>> => Head(q) \in FlowEvent /\ Tail(q) \in Seq(FlowEvent)
           /\ q # <<>> /\ Tail(q) # <<>> => LastTold(Tail(q)) = LastTold(q)
           /\ q # <<>> /\ Tail(q) = <<>> => Head(q) = LastTold(q)
<1>1. Append(q, ev) # <<>> /\ LastTold(Append(q, ev)) = ev
  BY DEF LastTold
<1>2. ASSUME q # <<>> PROVE Head(q) \in FlowEvent /\ Tail(q) \in Seq(FlowEvent)
  BY <1>2
<1>3. ASSUME q # <<>>, Tail(q) # <<>> PROVE LastTold(Tail(q)) = LastTold(q)
  <2>1. Len(q) \in Nat /\ Len(q) # 0 /\ Len(Tail(q)) = Len(q) - 1
    BY <1>3
  <2>2. Len(Tail(q)) # 0
    BY <1>2, <1>3, EmptySeq
  <2>3. Len(q) - 1 \in 1 .. Len(q) - 1
    BY <2>1, <2>2
  <2>4. Tail(q)[Len(q) - 1] = q[(Len(q) - 1) + 1]
    <3>1. \A i \in 1 .. Len(Tail(q)) : Tail(q)[i] = q[i + 1]
      BY <1>3, HeadTailProperties, Zenon
    <3>2. Len(q) - 1 \in 1 .. Len(Tail(q))
      BY <2>1, <2>3
    <3>3. QED BY <3>1, <3>2
  <2>5. (Len(q) - 1) + 1 = Len(q)
    <3>1. \A n \in Nat : (n - 1) + 1 = n
      OBVIOUS
    <3>2. QED BY <2>1, <3>1, Zenon
  <2>6. Tail(q)[Len(Tail(q))] = Tail(q)[Len(q) - 1] /\ q[(Len(q) - 1) + 1] = q[Len(q)]
    BY <2>1, <2>5, Zenon
  <2>7. QED BY <2>4, <2>6, Zenon DEF LastTold
<1>4. ASSUME q # <<>>, Tail(q) = <<>> PROVE Head(q) = LastTold(q)
  <2>1. Len(q) \in Nat /\ Len(q) # 0 /\ Len(Tail(q)) = Len(q) - 1
    BY <1>4
  <2>2. Len(q) = 1
    <3>1. Len(<<>>) = 0
      BY EmptySeq, Zenon
    <3>2. Len(Tail(q)) = 0
      BY <1>4, <3>1, Zenon
    <3>3. \A n \in Nat : n - 1 = 0 => n = 1
      OBVIOUS
    <3>4. QED BY <2>1, <3>2, <3>3, Zenon
  <2>3. Head(q) = q[1]
    BY <1>4
  <2>4. QED BY <2>2, <2>3, Zenon DEF LastTold
<1>5. QED BY <1>1, <1>2, <1>3, <1>4

(* Every change of a socket marks the snapshots stale; a flow's end is told    *)
(* behind whatever was told of it before.                                     *)
LEMMA SystemTruth ==
    ASSUME IInv, TruthInv, NEW e \in Endpoints,
           \/ SocketBinds(e) \/ SocketConnects(e) \/ FlowEstablished(e) \/ FlowIdle(e)
           \/ SocketCloses(e)
    PROVE  TruthInv'
<1>1. os \in [Endpoints -> SystemSocket] /\ snap \in Snap /\ flowQ \in Queues
      /\ os' \in [Endpoints -> SystemSocket] /\ IInv'
  <2>1. IInv'
    BY SystemSteps
  <2>2. QED BY <2>1 DEF IInv, Types
<1>2. SystemStep
  BY DEF SocketBinds, SocketConnects, FlowEstablished, FlowIdle, SocketCloses
<1>3. UNCHANGED <<world, handled, m, sockets>>
  BY <1>2 DEF SystemStep, index
<1>4. ~fresh' /\ ~snap'.clean
  <2>1. ~fresh'
    BY <1>2 DEF SystemStep
  <2>2. snap'.clean = FALSE
    BY <1>1, <1>2 DEF SystemStep, Snap
  <2>3. QED BY <2>1, <2>2
<1>5. SnapTruth' /\ FreshTruth'
  BY <1>4 DEF SnapTruth, FreshTruth
<1>6. \A f \in Endpoints : f # e => os'[f] = os[f]
  BY <1>1 DEF SocketBinds, SocketConnects, FlowEstablished, FlowIdle, SocketCloses
<1>7. os[e].state \in 0 .. 3 /\ os[e].flow \in 0 .. 2 /\ os[e].key \in Keys
  BY <1>1 DEF SystemSocket
<1>8. /\ SocketBinds(e) => os[e].state = 0 /\ os'[e].state = 1 /\ os'[e].flow = 0
                            /\ CanUse(os'[e].bind, os'[e].key)
      /\ ~SocketBinds(e) => os'[e].bind = os[e].bind /\ os'[e].key = os[e].key /\ os[e].state # 0
      /\ SocketConnects(e) => os[e].state = 1 /\ os'[e].state = 2 /\ os'[e].flow = os[e].flow
      /\ FlowEstablished(e) => os[e].flow = 0 /\ os'[e].flow = 1 /\ os'[e].state = os[e].state
                                /\ IsOpen(e)
      /\ FlowIdle(e) => os[e].flow = 1 /\ os'[e].flow = 2 /\ os'[e].state = os[e].state
      /\ SocketCloses(e) => IsOpen(e) /\ os'[e].state = 3 /\ os'[e].flow = 2
  <2>1. CASE SocketBinds(e)
    <3>1. PICK a \in world.binds, k \in Keys : CanUse(a, k)
            /\ os' = [os EXCEPT ![e] = [state |-> 1, bind |-> a, key |-> k, flow |-> 0]]
      BY <2>1 DEF SocketBinds
    <3>2. os'[e] = [state |-> 1, bind |-> a, key |-> k, flow |-> 0] /\ os[e].state = 0
      BY <1>1, <2>1, <3>1 DEF SocketBinds
    <3>3. ~SocketConnects(e) /\ ~FlowEstablished(e) /\ ~SocketCloses(e) /\ ~FlowIdle(e)
      <4>1. os[e].flow = 0
        BY <3>2 DEF TruthInv, SocketShape
      <4>2. QED BY <3>2, <4>1 DEF SocketConnects, FlowEstablished, SocketCloses, FlowIdle, IsOpen
    <3>4. QED BY <2>1, <3>1, <3>2, <3>3
  <2>2. CASE SocketConnects(e)
    <3>1. os'[e] = [os[e] EXCEPT !.state = 2] /\ os[e].state = 1
      BY <1>1, <2>2 DEF SocketConnects
    <3>2. os'[e].state = 2 /\ os'[e].flow = os[e].flow /\ os'[e].bind = os[e].bind
          /\ os'[e].key = os[e].key
      BY <1>1, <3>1 DEF SystemSocket
    <3>3. ~SocketBinds(e) /\ ~FlowIdle(e) /\ ~SocketCloses(e) /\ ~FlowEstablished(e)
      <4>1. ASSUME FlowEstablished(e) \/ FlowIdle(e) PROVE os'[e].flow # os[e].flow
        BY <1>1, <4>1 DEF FlowEstablished, FlowIdle, SystemSocket
      <4>2. ASSUME SocketCloses(e) PROVE os'[e].state = 3
        BY <1>1, <4>2 DEF SocketCloses, SystemSocket
      <4>3. QED BY <3>1, <3>2, <4>1, <4>2 DEF SocketBinds
    <3>4. QED BY <3>1, <3>2, <3>3
  <2>3. CASE FlowEstablished(e)
    <3>1. os'[e] = [os[e] EXCEPT !.flow = 1] /\ os[e].flow = 0 /\ IsOpen(e)
      BY <1>1, <2>3 DEF FlowEstablished, IsOpen
    <3>2. os'[e].flow = 1 /\ os'[e].state = os[e].state /\ os'[e].bind = os[e].bind
          /\ os'[e].key = os[e].key
      BY <1>1, <3>1 DEF SystemSocket
    <3>3. ~SocketBinds(e) /\ ~FlowIdle(e) /\ ~SocketCloses(e) /\ ~SocketConnects(e)
      <4>1. ASSUME SocketCloses(e) \/ SocketConnects(e) PROVE os'[e].state # os[e].state
        BY <1>1, <1>7, <4>1 DEF SocketCloses, SocketConnects, SystemSocket, IsOpen
      <4>2. QED BY <3>1, <3>2, <4>1 DEF SocketBinds, FlowIdle, IsOpen
    <3>4. os[e].state # 0
      BY <3>1 DEF IsOpen
    <3>5. QED BY <3>1, <3>2, <3>3, <3>4
  <2>4. CASE FlowIdle(e)
    <3>1. os'[e] = [os[e] EXCEPT !.flow = 2] /\ os[e].flow = 1
      BY <1>1, <2>4 DEF FlowIdle
    <3>2. os'[e].flow = 2 /\ os'[e].state = os[e].state /\ os'[e].bind = os[e].bind
          /\ os'[e].key = os[e].key /\ os[e].state # 0
      BY <1>1, <3>1 DEF SystemSocket, TruthInv, SocketShape
    <3>3. ~SocketBinds(e) /\ ~FlowEstablished(e) /\ ~SocketCloses(e) /\ ~SocketConnects(e)
      <4>1. ASSUME SocketCloses(e) \/ SocketConnects(e) PROVE os'[e].state # os[e].state
        BY <1>1, <1>7, <4>1 DEF SocketCloses, SocketConnects, SystemSocket, IsOpen
      <4>2. QED BY <3>1, <3>2, <4>1 DEF SocketBinds, FlowEstablished
    <3>4. QED BY <3>1, <3>2, <3>3
  <2>5. CASE SocketCloses(e)
    <3>1. os' = [os EXCEPT ![e].state = 3, ![e].flow = 2] /\ IsOpen(e)
      BY <2>5 DEF SocketCloses
    <3>2. os'[e].flow = 2 /\ os'[e].state = 3 /\ os'[e].bind = os[e].bind
          /\ os'[e].key = os[e].key /\ os[e].state # 0
      BY <1>1, <3>1 DEF SystemSocket, IsOpen
    <3>3. ~SocketBinds(e) /\ ~FlowEstablished(e) /\ ~FlowIdle(e) /\ ~SocketConnects(e)
      <4>1. ASSUME FlowEstablished(e) \/ FlowIdle(e) \/ SocketConnects(e)
            PROVE  os'[e].state = os[e].state \/ os'[e].state = 2
        BY <1>1, <1>7, <4>1 DEF FlowEstablished, FlowIdle, SocketConnects, SystemSocket
      <4>2. QED BY <3>1, <3>2, <4>1 DEF SocketBinds, IsOpen
    <3>4. QED BY <3>1, <3>2, <3>3
  <2>6. QED BY <2>1, <2>2, <2>3, <2>4, <2>5
<1>9. SocketShape'
  <2>1. ASSUME NEW f \in Endpoints, f # e
        PROVE  /\ os'[f].state = 0 => os'[f].flow = 0
               /\ os'[f].state # 0 => CanUse(os'[f].bind, os'[f].key)
               /\ os'[f].flow = 1 => os'[f].state \in {1, 2}
    BY <1>6, <2>1 DEF TruthInv, SocketShape, IsOpen
  <2>2. /\ os'[e].state = 0 => os'[e].flow = 0
        /\ os'[e].state # 0 => CanUse(os'[e].bind, os'[e].key)
        /\ os'[e].flow = 1 => os'[e].state \in {1, 2}
    BY <1>7, <1>8 DEF TruthInv, SocketShape, IsOpen
  <2>3. QED BY <2>1, <2>2 DEF SocketShape, IsOpen
<1>10. HeardTruth'
  <2>1. handled' = handled /\ handled \in [Endpoints -> 0 .. 3]
    BY <1>3 DEF TruthInv, HeardTruth
  <2>2. ASSUME NEW f \in Endpoints
        PROVE  /\ handled[f] <= os'[f].state
               /\ sockets[f].p # Nobody =>
                     /\ handled[f] \in {1, 2} /\ sockets[f].p = OwnerOf[f]
                     /\ sockets[f].key = normalizeLocal(IF handled[f] = 2 THEN os'[f].key.local
                                                        ELSE os'[f].bind)
    <3>1. /\ handled[f] <= os[f].state /\ handled[f] \in 0 .. 3
          /\ sockets[f].p # Nobody =>
                     /\ handled[f] \in {1, 2} /\ sockets[f].p = OwnerOf[f]
                     /\ sockets[f].key = normalizeLocal(IF handled[f] = 2 THEN os[f].key.local
                                                        ELSE os[f].bind)
      BY DEF TruthInv, HeardTruth, Heard
    <3>2. CASE f # e
      BY <1>6, <3>1, <3>2
    <3>3. CASE f = e
      <4>1. os[e].state <= os'[e].state
        BY <1>7, <1>8 DEF IsOpen
      <4>2. handled[f] <= os'[f].state
        <5>1. os'[e].state \in Int
          BY <1>1 DEF SystemSocket
        <5>2. QED BY <1>7, <3>1, <3>3, <4>1, <5>1
      <4>3. sockets[f].p # Nobody => ~SocketBinds(e)
        BY <1>8, <3>1, <3>3
      <4>4. QED BY <1>8, <3>1, <3>3, <4>2, <4>3
    <3>4. QED BY <3>2, <3>3
  <2>3. QED BY <1>3, <2>1, <2>2 DEF HeardTruth, Heard
<1>11. FlowTruth'
  <2> DEFINE j == os[e].key
  <2>1. ASSUME NEW k \in Keys
        PROVE  /\ flowQ'[k] = <<>> /\ m[k].p # Nobody
                     => \E f \in Endpoints : os'[f].key = k /\ os'[f].flow = 1 /\ m[k].p = OwnerOf[f]
               /\ flowQ'[k] # <<>> /\ LastTold(flowQ'[k]).kind = "established"
                     => os'[LastTold(flowQ'[k]).id].key = k /\ os'[LastTold(flowQ'[k]).id].flow = 1
    <3>1. flowQ[k] \in Seq(FlowEvent) /\ flowQ[k] = flowQ[k]
      BY <1>1 DEF Queues
    <3>2. flowQ[k] # <<>> => LastTold(flowQ[k]).id \in Endpoints
      <4>1. flowQ[k] # <<>> => flowQ[k][Len(flowQ[k])] \in FlowEvent
        BY <3>1
      <4>2. QED BY <4>1 DEF FlowEvent, LastTold
    <3>3. CASE flowQ'[k] = flowQ[k] /\ (os[e].flow = 1 /\ os[e].key = k => os'[e] = os[e] \/ (os'[e].key = k /\ os'[e].flow = 1))
      <4>1. ASSUME NEW f \in Endpoints, HasFlow(f, k)
            PROVE  os'[f].key = k /\ os'[f].flow = 1
        BY <1>6, <3>3, <4>1 DEF HasFlow
      <4>2. QED BY <3>2, <3>3, <4>1 DEF TruthInv, FlowTruth
    <3>4. ASSUME NEW kind \in {"established", "deleted"}, Told(e, kind), k = os[e].key,
                 kind = "established" => os'[e].key = k /\ os'[e].flow = 1
          PROVE  /\ flowQ'[k] # <<>>
                 /\ LastTold(flowQ'[k]).kind = "established"
                     => os'[LastTold(flowQ'[k]).id].key = k /\ os'[LastTold(flowQ'[k]).id].flow = 1
      <4>1. [kind |-> kind, id |-> e] \in FlowEvent
        BY DEF FlowEvent
      <4>2. flowQ'[k] = Append(flowQ[k], [kind |-> kind, id |-> e])
        BY <1>1, <3>4 DEF Told, Queues
      <4>3. flowQ'[k] # <<>> /\ LastTold(flowQ'[k]) = [kind |-> kind, id |-> e]
        BY <3>1, <4>1, <4>2, LastToldOrKept
      <4>4. QED BY <3>4, <4>3
    <3>5. ASSUME NEW kind, Told(e, kind), k # os[e].key
          PROVE  flowQ'[k] = flowQ[k]
      BY <1>1, <3>5 DEF Told, Queues
    <3>6. CASE SocketBinds(e) \/ SocketConnects(e)
      <4>1. flowQ' = flowQ
        BY <3>6 DEF SocketBinds, SocketConnects
      <4>2. os[e].state = 0 => os[e].flow = 0
        BY DEF TruthInv, SocketShape
      <4>3. SocketBinds(e) \/ (~SocketBinds(e) /\ SocketConnects(e))
        BY <3>6
      <4>4. os[e].flow = 1 /\ os[e].key = k => os'[e].key = k /\ os'[e].flow = 1
        BY <1>8, <4>2, <4>3
      <4>5. QED BY <3>3, <4>1, <4>4
    <3>7. CASE FlowEstablished(e)
      <4>1. Told(e, "established") /\ os[e].flow = 0 /\ os'[e].flow = 1
        BY <1>8, <3>7 DEF FlowEstablished
      <4>2. os'[e].key = os[e].key
        BY <1>1, <3>7 DEF FlowEstablished, SystemSocket
      <4>3. CASE k = os[e].key
        BY <3>4, <4>1, <4>2, <4>3
      <4>4. CASE k # os[e].key
        BY <3>3, <3>5, <4>1, <4>4
      <4>5. QED BY <4>3, <4>4
    <3>8. CASE FlowIdle(e)
      <4>1. Told(e, "deleted")
        BY <3>8 DEF FlowIdle
      <4>3. CASE k = os[e].key
        BY <3>4, <4>1, <4>3
      <4>4. CASE k # os[e].key
        BY <3>3, <3>5, <4>1, <4>4
      <4>5. QED BY <4>3, <4>4
    <3>9. CASE SocketCloses(e)
      <4>1. CASE os[e].flow = 1
        <5>1. Told(e, "deleted")
          BY <3>9, <4>1 DEF SocketCloses
        <5>2. CASE k = os[e].key
          BY <3>4, <5>1, <5>2
        <5>3. CASE k # os[e].key
          BY <3>3, <3>5, <5>1, <5>3
        <5>4. QED BY <5>2, <5>3
      <4>2. CASE os[e].flow # 1
        <5>1. flowQ' = flowQ
          BY <3>9, <4>2 DEF SocketCloses
        <5>2. QED BY <3>3, <4>2, <5>1
      <4>3. QED BY <4>1, <4>2
    <3>10. QED BY <3>6, <3>7, <3>8, <3>9
  <2>2. QED BY <1>3, <2>1 DEF FlowTruth, HasFlow
<1>12. QED BY <1>5, <1>9, <1>10, <1>11 DEF TruthInv

(* BIND and CONNECT put the socket under the address the event carries; a      *)
(* CLOSE forgets it.                                                          *)
LEMMA LoopTruth ==
    ASSUME IInv, TruthInv, NEW e \in Endpoints, socketLoopAdds(e) \/ socketLoopDeletes(e)
    PROVE  TruthInv'
<1>1. UNCHANGED <<world, os, flowQ, m, snap, fresh, snapshotExact, locals>>
  BY DEF socketLoopAdds, socketLoopDeletes
<1>2. os \in [Endpoints -> SystemSocket]
      /\ sockets \in [Endpoints -> [key : LocalKeys, p : Owners, seen : Nat]]
  BY DEF IInv, Types
<1>3. handled \in [Endpoints -> 0 .. 3] /\ os[e].state \in 0 .. 3 /\ handled[e] < os[e].state
  BY <1>2 DEF TruthInv, HeardTruth, SystemSocket, socketLoopAdds, socketLoopDeletes
<1>4. SocketShape' /\ SnapTruth' /\ FreshTruth'
  BY <1>1, SameSnapshots
<1>5. FlowTruth'
  BY <1>1 DEF TruthInv, FlowTruth, HasFlow
<1> DEFINE Good(h, s, f) ==
             /\ h[f] <= os[f].state
             /\ s[f].p # Nobody => /\ h[f] \in {1, 2} /\ s[f].p = OwnerOf[f]
                                   /\ s[f].key = normalizeLocal(IF h[f] = 2 THEN os[f].key.local
                                                                ELSE os[f].bind)
<1>6. \A f \in Endpoints : Good(handled, sockets, f)
  BY DEF TruthInv, HeardTruth, Heard
<1>7. ASSUME socketLoopAdds(e)
      PROVE  handled' \in [Endpoints -> 0 .. 3] /\ \A f \in Endpoints : Good(handled', sockets', f)
  <2>1. handled' = [handled EXCEPT ![e] = @ + 1] /\ ~Closing(e)
        /\ sockets' = [sockets EXCEPT ![e] = [key |-> normalizeLocal(EventAddr(e)), p |-> OwnerOf[e],
                                              seen |-> now]]
    BY <1>7 DEF socketLoopAdds, AddSocket
  <2>2. handled[e] \in {0, 1} /\ (handled[e] = 1 => os[e].state = 2)
    BY <1>3, <2>1 DEF Closing
  <2>3. handled' \in [Endpoints -> 0 .. 3] /\ handled'[e] = handled[e] + 1
        /\ handled'[e] \in {1, 2} /\ handled'[e] <= os[e].state
    BY <1>3, <2>1, <2>2
  <2>4. sockets'[e].p = OwnerOf[e] /\ sockets'[e].key = normalizeLocal(EventAddr(e))
    BY <1>2, <2>1
  <2>5. EventAddr(e) = IF handled'[e] = 2 THEN os[e].key.local ELSE os[e].bind
    BY <2>2, <2>3 DEF EventAddr
  <2>6. Good(handled', sockets', e)
    BY <2>3, <2>4, <2>5
  <2>7. \A f \in Endpoints : f # e => handled'[f] = handled[f] /\ sockets'[f] = sockets[f]
    BY <1>2, <1>3, <2>1
  <2>8. QED BY <1>6, <2>3, <2>6, <2>7
<1>8. ASSUME socketLoopDeletes(e)
      PROVE  handled' \in [Endpoints -> 0 .. 3] /\ \A f \in Endpoints : Good(handled', sockets', f)
  <2>1. handled' = [handled EXCEPT ![e] = 3] /\ Closing(e)
        /\ sockets' = [sockets EXCEPT ![e] = NoSocket]
    BY <1>8 DEF socketLoopDeletes, DeleteSocket
  <2>2. handled' \in [Endpoints -> 0 .. 3] /\ handled'[e] = 3 /\ os[e].state = 3
    BY <1>3, <2>1 DEF Closing
  <2>3. sockets'[e].p = Nobody
    BY <1>2, <2>1 DEF NoSocket
  <2>4. \A f \in Endpoints : f # e => handled'[f] = handled[f] /\ sockets'[f] = sockets[f]
    BY <1>2, <1>3, <2>1
  <2>5. QED BY <1>6, <2>2, <2>3, <2>4
<1>9. HeardTruth'
  BY <1>1, <1>7, <1>8 DEF HeardTruth, Heard
<1>10. QED BY <1>4, <1>5, <1>9 DEF TruthInv

(* flowLoop takes the events of a 5-tuple in order: only the last one counts.  *)
LEMMA FlowLoopTruth ==
    ASSUME IInv, TruthInv, NEW k \in Keys, flowLoop(k)
    PROVE  TruthInv'
<1>1. UNCHANGED <<world, os, handled, sockets, snap, fresh, snapshotExact, locals>>
  BY DEF flowLoop
<1>2. flowQ \in Queues /\ m \in [Keys -> Entry] /\ flowQ[k] # <<>>
      /\ flowQ' = [flowQ EXCEPT ![k] = Tail(@)]
  BY DEF IInv, Types, flowLoop
<1>3. flowQ[k] \in Seq(FlowEvent)
  BY <1>2 DEF Queues
<1>4. SocketShape' /\ SnapTruth' /\ FreshTruth'
  BY <1>1, SameSnapshots
<1>5. HeardTruth'
  BY <1>1 DEF TruthInv, HeardTruth, Heard
<1>6. Head(flowQ[k]) \in FlowEvent
      /\ (Tail(flowQ[k]) # <<>> => LastTold(Tail(flowQ[k])) = LastTold(flowQ[k]))
      /\ (Tail(flowQ[k]) = <<>> => Head(flowQ[k]) = LastTold(flowQ[k]))
  BY <1>2, <1>3, LastToldOrKept, HeadTailProperties
<1>7. flowQ'[k] = Tail(flowQ[k]) /\ \A j \in Keys : j # k => flowQ'[j] = flowQ[j]
  BY <1>2 DEF Queues
<1>8. \A j \in Keys : j # k => m'[j] = m[j]
  BY <1>2 DEF flowLoop
<1>9. Head(flowQ[k]).id \in Endpoints
  BY <1>6 DEF FlowEvent
<1>10. m'[k].p = Nobody \/ (Head(flowQ[k]).kind = "established" /\ m'[k].p = OwnerOf[Head(flowQ[k]).id])
  BY <1>2 DEF flowLoop, NoEntry
<1>11. ASSUME NEW j \in Keys
       PROVE  /\ flowQ'[j] = <<>> /\ m'[j].p # Nobody
                    => \E e \in Endpoints : HasFlow(e, j) /\ m'[j].p = OwnerOf[e]
              /\ flowQ'[j] # <<>> /\ LastTold(flowQ'[j]).kind = "established"
                    => HasFlow(LastTold(flowQ'[j]).id, j)
  <2>1. CASE j # k
    BY <1>7, <1>8, <2>1 DEF TruthInv, FlowTruth
  <2>2. CASE j = k
    <3>1. LastTold(flowQ[k]).kind = "established" => HasFlow(LastTold(flowQ[k]).id, k)
      BY <1>2 DEF TruthInv, FlowTruth
    <3>2. QED BY <1>6, <1>7, <1>9, <1>10, <2>2, <3>1
  <2>3. QED BY <2>1, <2>2
<1>12. FlowTruth'
  BY <1>1, <1>11 DEF FlowTruth, HasFlow
<1>13. QED BY <1>4, <1>5, <1>12 DEF TruthInv

(* Sweep only takes entries away; a snapshot it has thinned out is not fresh.  *)
LEMMA SweepTruth ==
    ASSUME IInv, TruthInv, Sweep
    PROVE  TruthInv'
<1>1. UNCHANGED <<world, os, handled, flowQ, sockets, snap>> /\ m' = Swept(m)
      /\ (fresh' => fresh /\ snapshotExact' = snapshotExact /\ locals' = locals)
  BY DEF Sweep, events
<1>2. m \in [Keys -> Entry]
  BY DEF IInv, Types
<1>3. \A k \in Keys : m'[k].p # Nobody => m'[k] = m[k]
  <2>1. Swept(m) = [k \in Keys |-> IF Old(m[k]) THEN NoEntry ELSE m[k]]
    BY <1>2 DEF Swept
  <2>2. QED BY <1>1, <2>1 DEF NoEntry
<1>4. FlowTruth'
  BY <1>1, <1>3 DEF TruthInv, FlowTruth, HasFlow
<1>5. SocketShape' /\ HeardTruth'
  BY <1>1 DEF TruthInv, SocketShape, HeardTruth, IsOpen, Heard
<1>6. SnapTruth'
  BY <1>1 DEF TruthInv, SnapTruth, Sound, Complete, OfOpen, IsOpen, Read, LocalAddr
<1>7. FreshTruth'
  BY <1>1 DEF TruthInv, FreshTruth, Sound, Complete, OfOpen, IsOpen, Read, LocalAddr
<1>8. QED BY <1>4, <1>5, <1>6, <1>7 DEF TruthInv

(* The address a socket is filed under.                                       *)
LEMMA FiledUnder ==
    ASSUME IInv, SocketShape, NEW e \in Endpoints, IsOpen(e)
    PROVE  /\ normalizeLocal(LocalAddr(e)) \in LocalKeys
           /\ normalizeLocal(LocalAddr(e)) \in {os[e].key.local, Any}
           /\ os[e].key \in Keys
<1>1. os[e] \in SystemSocket /\ CanUse(os[e].bind, os[e].key)
  BY DEF IInv, Types, SocketShape, IsOpen
<1>2. os[e].bind \in BindAddrs /\ os[e].key \in Keys /\ os[e].key.local \notin Unspecified
  BY <1>1, IndexAssumption DEF SystemSocket
<1>3. LocalAddr(e) \in BindAddrs \cup {k.local : k \in Keys}
  BY <1>2 DEF LocalAddr
<1>4. normalizeLocal(LocalAddr(e)) \in LocalKeys
  BY <1>3 DEF normalizeLocal, LocalKeys
<1>5. normalizeLocal(LocalAddr(e)) \in {os[e].key.local, Any}
  BY <1>1, <1>2 DEF normalizeLocal, LocalAddr, CanUse
<1>6. QED BY <1>2, <1>4, <1>5

(* A clean snapshot stays sound, and after a table it has all of its sockets.  *)
LEMMA TableTruth ==
    ASSUME IInv, TruthInv, NEW six \in BOOLEAN, SnapshotTable(six)
    PROVE  SnapTruth'
<1>1. UNCHANGED <<world, os>> /\ snap.pc = (IF six THEN 2 ELSE 1)
  BY DEF SnapshotTable
<1>2. snap \in Snap
  BY DEF IInv, Types
<1>3. SUFFICES ASSUME snap.clean
               PROVE  snap'.clean = snap.clean => Sound(snap'.exact, snap'.locals)
                                                  /\ Complete(snap'.locals, snap'.pc)
  <2>1. snap'.clean = snap.clean
    BY <1>2 DEF SnapshotTable, Snap
  <2>2. QED BY <1>1, <2>1 DEF SnapTruth, Sound, Complete, OfOpen, IsOpen, Read, LocalAddr
<1>4. Sound(snap.exact, snap.locals) /\ Complete(snap.locals, snap.pc)
  BY <1>3 DEF TruthInv, SnapTruth
<1>5. CASE world.proto = "tcp"
  <2> DEFINE rows == [k \in Keys |-> IF TCPRows(k, six) = {} THEN snap.exact[k]
               ELSE [p |-> OwnerOf[CHOOSE e \in TCPRows(k, six) : TRUE], seen |-> now]]
  <2>1. snap' = [snap EXCEPT !.pc = @ + 1, !.exact = rows]
    BY <1>5 DEF SnapshotTable
  <2>2. ASSUME NEW k \in Keys PROVE OfOpen(rows[k].p)
    <3>1. CASE TCPRows(k, six) = {}
      BY <1>4, <3>1 DEF Sound
    <3>2. CASE TCPRows(k, six) # {}
      <4>1. PICK e : e = CHOOSE f \in TCPRows(k, six) : TRUE
        OBVIOUS
      <4>2. e \in TCPRows(k, six)
        BY <3>2, <4>1
      <4>3. rows[k].p = OwnerOf[e]
        BY <3>2, <4>1
      <4>4. QED BY <4>2, <4>3 DEF OfOpen, TCPRows, InTable
    <3>3. QED BY <3>1, <3>2
  <2> HIDE DEF rows
  <2>3. snap'.exact = rows /\ snap'.locals = snap.locals
    BY <1>2, <2>1 DEF Snap
  <2>4. QED BY <1>4, <1>5, <2>2, <2>3 DEF Sound, Complete
<1>6. CASE world.proto # "tcp"
  <2>1. PICK pick \in [LocalKeys -> Endpoints] :
          /\ \A a \in LocalKeys : UDPRows(a, six) # {} => pick[a] \in UDPRows(a, six)
          /\ snap' = [snap EXCEPT !.pc = @ + 1,
                    !.locals = [a \in LocalKeys |-> IF UDPRows(a, six) = {} THEN @[a]
                                  ELSE [p |-> OwnerOf[pick[a]], seen |-> now]]]
    BY <1>6 DEF SnapshotTable
  <2> DEFINE rows == [a \in LocalKeys |-> IF UDPRows(a, six) = {} THEN snap.locals[a]
                        ELSE [p |-> OwnerOf[pick[a]], seen |-> now]]
  <2>2. snap' = [snap EXCEPT !.pc = @ + 1, !.locals = rows]
    BY <2>1
  <2>3. ASSUME NEW a \in LocalKeys
        PROVE  /\ OfOpen(rows[a].p)
               /\ UDPRows(a, six) # {} => rows[a].p # Nobody
               /\ snap.locals[a].p # Nobody => rows[a].p # Nobody
    <3>1. CASE UDPRows(a, six) = {}
      BY <1>4, <3>1 DEF Sound
    <3>2. CASE UDPRows(a, six) # {}
      <4>1. pick[a] \in UDPRows(a, six) /\ rows[a].p = OwnerOf[pick[a]]
        BY <2>1, <3>2
      <4>2. pick[a] \in Endpoints /\ IsOpen(pick[a])
        BY <4>1 DEF UDPRows, InTable
      <4>3. OwnerOf[pick[a]] # Nobody
        BY <4>2, IndexAssumption DEF Nobody
      <4>4. QED BY <4>1, <4>2, <4>3 DEF OfOpen
    <3>3. QED BY <3>1, <3>2
  <2> HIDE DEF rows
  <2>4. snap'.exact = snap.exact /\ snap'.locals = rows /\ snap'.pc = snap.pc + 1
    BY <1>2, <2>2 DEF Snap
  <2>5. Sound(snap'.exact, snap'.locals)
    BY <1>4, <2>3, <2>4 DEF Sound
  <2>6. ASSUME NEW e \in Endpoints, IsOpen(e), Read(e, snap'.pc)
        PROVE  rows[normalizeLocal(LocalAddr(e))].p # Nobody
    <3>1. normalizeLocal(LocalAddr(e)) \in LocalKeys
      BY <2>6, FiledUnder DEF TruthInv
    <3>2. Read(e, snap.pc) \/ (os[e].bind \in Is6) = six
      BY <1>1, <2>4, <2>6 DEF Read
    <3>3. CASE Read(e, snap.pc)
      BY <1>4, <1>6, <2>3, <2>6, <3>1, <3>3 DEF Complete
    <3>4. CASE (os[e].bind \in Is6) = six
      <4>1. e \in UDPRows(normalizeLocal(LocalAddr(e)), six)
        BY <1>6, <2>6, <3>4 DEF UDPRows, InTable
      <4>2. QED BY <2>3, <3>1, <4>1
    <3>5. QED BY <3>2, <3>3, <3>4
  <2>7. QED BY <2>4, <2>5, <2>6 DEF Complete
<1>7. QED BY <1>5, <1>6

(* The snapshot: begun empty, filled table by table, then put in place.        *)
LEMMA SnapshotTruth ==
    ASSUME IInv, TruthInv,
           \/ SnapshotExisting \/ SnapshotTableFails \/ SnapshotSwap
           \/ \E six \in BOOLEAN : SnapshotTable(six)
    PROVE  TruthInv'
<1>1. UNCHANGED <<world, os, handled, flowQ, m, sockets>>
  BY DEF SnapshotExisting, SnapshotTableFails, SnapshotSwap, SnapshotTable, events, index
<1>2. SocketShape' /\ HeardTruth'
  BY <1>1 DEF TruthInv, SocketShape, HeardTruth, IsOpen, Heard
<1>3. FlowTruth'
  BY <1>1 DEF TruthInv, FlowTruth, HasFlow
<1>4. snap \in Snap /\ EmptySnap \in Snap
  BY DEF IInv, Types, EmptySnap, Snap, NoEntry, Entry, Owners
<1>5. CASE ~SnapshotSwap
  <2>1. UNCHANGED <<fresh, snapshotExact, locals>>
    BY <1>5 DEF SnapshotExisting, SnapshotTableFails, SnapshotTable, index
  <2>2. FreshTruth'
    BY <1>1, <2>1 DEF TruthInv, FreshTruth, Sound, Complete, OfOpen, IsOpen, Read, LocalAddr
  <2>3. CASE SnapshotExisting
    <3>1. snap'.exact = EmptySnap.exact /\ snap'.locals = EmptySnap.locals /\ snap'.pc = 1
      BY <1>4, <2>3 DEF SnapshotExisting, Snap
    <3>2. (\A k \in Keys : snap'.exact[k].p = Nobody) /\ (\A a \in LocalKeys : snap'.locals[a].p = Nobody)
      BY <3>1 DEF EmptySnap, NoEntry
    <3>3. SnapTruth'
      BY <3>1, <3>2 DEF SnapTruth, Sound, OfOpen, Complete, Read
    <3>4. QED BY <1>2, <1>3, <2>2, <3>3 DEF TruthInv
  <2>4. CASE SnapshotTableFails
    <3>1. ~snap'.clean
      <4>1. snap'.clean = FALSE
        BY <1>4, <2>4 DEF SnapshotTableFails, Snap
      <4>2. QED BY <4>1
    <3>2. QED BY <1>2, <1>3, <2>2, <3>1 DEF TruthInv, SnapTruth
  <2>5. CASE \E six \in BOOLEAN : SnapshotTable(six)
    <3>1. SnapTruth'
      BY <2>5, TableTruth
    <3>2. QED BY <1>2, <1>3, <2>2, <3>1 DEF TruthInv
  <2>6. QED BY <1>5, <2>3, <2>4, <2>5
<1>6. CASE SnapshotSwap
  <2>1. snap.pc = 3 /\ snapshotExact' = snap.exact /\ locals' = snap.locals /\ fresh' = snap.clean
        /\ snap' = [EmptySnap EXCEPT !.taken = snap.taken]
    BY <1>6 DEF SnapshotSwap
  <2>2. ~snap'.clean
    <3>1. snap'.clean = FALSE
      BY <2>1 DEF EmptySnap
    <3>2. QED BY <3>1
  <2>3. FreshTruth'
    BY <1>1, <2>1 DEF TruthInv, SnapTruth, FreshTruth, Sound, Complete, OfOpen, IsOpen, Read, LocalAddr
  <2>4. QED BY <1>2, <1>3, <2>2, <2>3 DEF TruthInv, SnapTruth
<1>7. QED BY <1>5, <1>6

(* Every step keeps what the maps say of the sockets.                          *)
LEMMA TruthStep == IInv /\ TruthInv /\ [Next]_vars => TruthInv'
<1> SUFFICES ASSUME IInv, TruthInv, [Next]_vars PROVE TruthInv'
  OBVIOUS
<1>1. ASSUME UNCHANGED vars \/ Tick \/ (\E l \in {"socket", "flow", "snapshot"} : signal(l))
             \/ (\E w \in Waiters : Woken(w) \/ Deadline(w) \/ \E k \in Keys : WaitLookup(w, k))
      PROVE  TruthInv'
  <2>1. UNCHANGED <<world, os, handled, sockets, flowQ, m, snap, fresh, snapshotExact, locals>>
    BY <1>1 DEF vars, index, events, Tick, signal, Woken, Deadline, WaitLookup
  <2>2. QED BY <2>1, SameTruth
<1>2. QED BY <1>1, SystemTruth, LoopTruth, FlowLoopTruth, SweepTruth, SnapshotTruth DEF Next

(* A bucket whose entries are all of one owner answers with that owner.        *)
LEMMA OneOwner ==
    ASSUME NEW B, NEW p, \A b \in B : b.p = p
    PROVE  newest(B) \subseteq {p}
  BY DEF newest

(* With all events handled, the socket buckets an open socket without rivals   *)
(* is looked for in hold nobody else; if it was heard of, they hold it.        *)
LEMMA OwnBuckets ==
    ASSUME IInv, TruthInv, Quiet, NEW e \in Endpoints, IsOpen(e), \A f \in Endpoints : ~Rival(e, f)
    PROVE  LET k == os[e].key
               own == {OwnerOf[e]}
               found == FirstOf(newest(socketLocal[k.local]), newest(socketLocal[Any]))
           IN  IF Heard(e) THEN found = own ELSE found = {}
<1> DEFINE k == os[e].key
           filed == normalizeLocal(LocalAddr(e))
<1>1. k \in Keys /\ filed \in LocalKeys /\ filed \in {k.local, Any}
  BY FiledUnder DEF TruthInv
<1>2. k.local \in LocalKeys /\ Any \in LocalKeys
  BY <1>1 DEF LocalKeys
<1>3. ASSUME NEW f \in Endpoints, Heard(f)
      PROVE  IsOpen(f) /\ sockets[f].p = OwnerOf[f] /\ sockets[f].key = normalizeLocal(LocalAddr(f))
  <2>1. handled[f] = os[f].state /\ handled[f] \in {1, 2} /\ sockets[f].p = OwnerOf[f]
        /\ sockets[f].key = normalizeLocal(IF handled[f] = 2 THEN os[f].key.local ELSE os[f].bind)
    BY <1>3 DEF Quiet, TruthInv, HeardTruth
  <2>2. QED BY <2>1 DEF IsOpen, LocalAddr
<1>4. ASSUME NEW a \in LocalKeys, NEW b \in socketLocal[a]
      PROVE  b.id \in Endpoints /\ Heard(b.id) /\ sockets[b.id].key = a /\ b.p = sockets[b.id].p
  <2>1. b.id \in Endpoints
    BY DEF IInv, Types
  <2>2. b \in {c \in socketLocal[a] : c.id = b.id}
    OBVIOUS
  <2>3. {c \in socketLocal[a] : c.id = b.id} =
            IF sockets[b.id].p # Nobody /\ sockets[b.id].key = a
            THEN {[id |-> b.id, p |-> sockets[b.id].p, seen |-> sockets[b.id].seen]} ELSE {}
    BY <2>1 DEF IInv, SocketsAgree
  <2>4. sockets[b.id].p # Nobody /\ sockets[b.id].key = a
        /\ b = [id |-> b.id, p |-> sockets[b.id].p, seen |-> sockets[b.id].seen]
    BY <2>2, <2>3
  <2>5. b.p = sockets[b.id].p
    BY <2>4
  <2>6. QED BY <2>1, <2>4, <2>5 DEF Heard
<1>5. CASE ~Heard(e)
  <2>1. ASSUME NEW a \in LocalKeys PROVE socketLocal[a] = {}
    <3>1. SUFFICES ASSUME NEW b \in socketLocal[a] PROVE FALSE
      OBVIOUS
    <3>2. b.id \in Endpoints /\ Heard(b.id) /\ IsOpen(b.id)
      BY <1>3, <1>4
    <3>3. Rival(e, b.id)
      BY <1>5, <3>2 DEF Rival
    <3>4. QED BY <3>2, <3>3
  <2>2. newest(socketLocal[k.local]) = {} /\ newest(socketLocal[Any]) = {}
    BY <1>2, <2>1 DEF newest
  <2>3. QED BY <1>5, <2>2 DEF FirstOf
<1>6. CASE Heard(e)
  <2>1. ASSUME NEW a \in {k.local, filed}, NEW b \in socketLocal[a] PROVE b.id = e /\ b.p = OwnerOf[e]
    <3>1. a \in LocalKeys
      BY <1>1, <1>2
    <3>2. b.id \in Endpoints /\ Heard(b.id) /\ IsOpen(b.id) /\ sockets[b.id].key = a
          /\ normalizeLocal(LocalAddr(b.id)) = a /\ b.p = OwnerOf[b.id]
      BY <1>3, <1>4, <3>1
    <3>3. b.id # e => Rival(e, b.id)
      BY <3>2 DEF Rival
    <3>4. QED BY <3>2, <3>3
  <2>2. newest(socketLocal[k.local]) \subseteq {OwnerOf[e]}
        /\ newest(socketLocal[filed]) \subseteq {OwnerOf[e]}
    BY <2>1, OneOwner
  <2>3. newest(socketLocal[filed]) # {}
    <3>1. sockets[e].p # Nobody /\ sockets[e].key = filed
      BY <1>3, <1>6 DEF Heard
    <3>2. {b \in socketLocal[filed] : b.id = e} = {[id |-> e, p |-> sockets[e].p, seen |-> sockets[e].seen]}
      BY <1>1, <3>1 DEF IInv, SocketsAgree
    <3>3. PICK b : b \in socketLocal[filed] /\ b = [id |-> e, p |-> sockets[e].p, seen |-> sockets[e].seen]
      BY <3>2
    <3>4. b.seen \in Nat
      BY <3>3 DEF IInv, Types
    <3>5. \A d \in socketLocal[filed] : d = b
      BY <2>1, <3>2, <3>3
    <3>6. \A d \in socketLocal[filed] : d.seen <= b.seen
      BY <3>4, <3>5
    <3>7. b.p \in newest(socketLocal[filed])
      BY <3>3, <3>6, Zenon DEF newest
    <3>8. QED BY <3>7
  <2>4. newest(socketLocal[filed]) = {OwnerOf[e]}
    BY <2>2, <2>3
  <2>5. QED BY <1>1, <1>6, <2>2, <2>4 DEF FirstOf
<1>7. QED BY <1>5, <1>6

(* Whatever closed, re-bound, expired or was snapshotted before, and in        *)
(* whatever order it was told: once every event is handled, the packets of an   *)
(* open socket without rivals are attributed to its owner.                     *)
THEOREM OwnersAreTold == Spec => []IndexTellsTruth
<1>1. ASSUME IInv, TruthInv, Quiet, NEW e \in Endpoints, SendsPackets(e),
             \A f \in Endpoints : ~Rival(e, f),
             Heard(e) \/ fresh \/ (Lookup(os[e].key) = {} /\ ~Unlisted(e))
      PROVE  Attribution(os[e].key) = {OwnerOf[e]}
  <2> DEFINE k == os[e].key
             own == {OwnerOf[e]}
             found == FirstOf(newest(socketLocal[k.local]), newest(socketLocal[Any]))
             listed == FirstOf(Known(snapshotExact[k]),
                       FirstOf(Known(locals[k.local]), Known(locals[Any])))
  <2>1. IsOpen(e)
    BY <1>1 DEF SendsPackets, IsOpen
  <2>2. k \in Keys /\ normalizeLocal(LocalAddr(e)) \in {k.local, Any} /\ k.local \in LocalKeys
        /\ Any \in LocalKeys
    BY <1>1, <2>1, FiledUnder DEF TruthInv, LocalKeys
  <2>3. IF Heard(e) THEN found = own ELSE found = {}
    BY <1>1, <2>1, OwnBuckets
  <2>4. Known(m[k]) \subseteq own
    <3>1. m[k].p # Nobody => \E f \in Endpoints : HasFlow(f, k) /\ m[k].p = OwnerOf[f]
      BY <1>1, <2>2 DEF Quiet, TruthInv, FlowTruth
    <3>2. ASSUME NEW f \in Endpoints, HasFlow(f, k) PROVE f = e
      <4>1. IsOpen(f)
        BY <1>1, <3>2 DEF TruthInv, SocketShape, HasFlow
      <4>2. f # e => Rival(e, f)
        BY <3>2, <4>1 DEF Rival, HasFlow
      <4>3. QED BY <1>1, <4>2
    <3>3. QED BY <3>1, <3>2 DEF Known
  <2>5. Lookup(k) = FirstOf(Known(m[k]), FirstOf(found, listed))
    BY DEF Lookup, FirstOf
  <2>6. CASE Heard(e)
    <3>1. Lookup(k) = own
      BY <2>3, <2>4, <2>5, <2>6 DEF FirstOf
    <3>2. QED BY <3>1 DEF Attribution, FirstOf
  <2>7. CASE ~Heard(e)
    <3>1. \A f \in Endpoints : IsOpen(f) => f = e
      BY <1>1, <2>7 DEF Rival
    <3>2. ASSUME Lookup(k) = {}, world.proto = "tcp" \/ (os[e].bind \in Is6) = (k.local \in Is6)
          PROVE  ResolveSocketOwner(k) = own
      <4>1. CASE world.proto = "tcp"
        <5>1. os[e].state = 2 /\ InTable(e, k.local \in Is6)
          BY <1>1, <2>1, <4>1 DEF SendsPackets, InTable
        <5>2. {f \in Endpoints : InTable(f, k.local \in Is6) /\ os[f].state = 2 /\ os[f].key = k} = {e}
          BY <3>1, <5>1 DEF InTable
        <5>3. QED BY <4>1, <5>2 DEF ResolveSocketOwner
      <4>2. CASE world.proto # "tcp"
        <5>1. e \in UDPRows(k.local, k.local \in Is6) \cup UDPRows(Any, k.local \in Is6)
          BY <2>1, <2>2, <3>2, <4>2 DEF UDPRows, InTable
        <5>2. UDPRows(k.local, k.local \in Is6) \cup UDPRows(Any, k.local \in Is6) = {e}
          BY <3>1, <5>1 DEF UDPRows, InTable
        <5>3. QED BY <4>2, <5>2 DEF ResolveSocketOwner
      <4>3. QED BY <4>1, <4>2
    <3>3. CASE Lookup(k) = {} /\ ~Unlisted(e)
      <4>1. world.proto \in {"tcp", "udp"}
        BY <1>1, IndexAssumption DEF IInv, Types
      <4>2. world.proto = "tcp" \/ (os[e].bind \in Is6) = (k.local \in Is6)
        BY <3>3, <4>1 DEF Unlisted
      <4>3. QED BY <3>2, <3>3, <4>2 DEF Attribution, FirstOf
    <3>4. CASE fresh
      <4>1. Sound(snapshotExact, locals) /\ Complete(locals, 3)
        BY <1>1, <3>4 DEF TruthInv, FreshTruth
      <4>2. Known(snapshotExact[k]) \subseteq own /\ Known(locals[k.local]) \subseteq own
            /\ Known(locals[Any]) \subseteq own
        BY <2>2, <3>1, <4>1 DEF Sound, OfOpen, Known
      <4>3. Lookup(k) \subseteq own
        BY <2>3, <2>4, <2>5, <2>7, <4>2 DEF FirstOf
      <4>4. CASE Lookup(k) # {}
        BY <4>3, <4>4 DEF Attribution, FirstOf
      <4>5. CASE Lookup(k) = {}
        <5>1. Known(locals[k.local]) = {} /\ Known(locals[Any]) = {}
          BY <2>3, <2>5, <2>7, <4>5 DEF FirstOf
        <5>2. world.proto = "tcp"
          <6>1. Read(e, 3)
            BY DEF Read
          <6>2. SUFFICES ASSUME world.proto # "tcp" PROVE FALSE
            OBVIOUS
          <6>3. locals[normalizeLocal(LocalAddr(e))].p # Nobody
            BY <2>1, <4>1, <6>1, <6>2 DEF Complete
          <6>4. QED BY <2>2, <5>1, <6>3 DEF Known
        <5>3. QED BY <3>2, <4>5, <5>2 DEF Attribution, FirstOf
      <4>6. QED BY <4>4, <4>5
    <3>5. QED BY <1>1, <2>7, <3>3, <3>4
  <2>8. QED BY <2>6, <2>7
<1>2. IInv /\ TruthInv => IndexTellsTruth
  BY <1>1 DEF IndexTellsTruth
<1>3. QED BY <1>2, InductiveInvariant, TruthInit, TruthStep, PTL DEF Spec
=============================================================================
