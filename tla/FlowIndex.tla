----------------------------- MODULE FlowIndex -----------------------------
(***************************************************************************)
(* Which process owns a flow (internal/flow/index.go, snapshot_windows.go), *)
(* and the goroutines that keep the answer up to date: socketLoop and       *)
(* flowLoop apply the driver's events, socketSnapshotLoop replaces the       *)
(* IP Helper fallback, maintenanceLoop sweeps, captureLoop and the hostname  *)
(* proxy ask and wait.                                                      *)
(*                                                                         *)
(* All sockets use one local port of one protocol: who owns a port that is   *)
(* shared or used again is what the index is about.  The system's sockets    *)
(* are the truth the index is compared with.  The events of one socket, and  *)
(* those of one 5-tuple, arrive in order; those of two sockets, and those of *)
(* the two driver handles, in any order, so a CLOSE may come long after the  *)
(* port has a new owner.  EndpointId 0 (older drivers) is left out.          *)
(***************************************************************************)
EXTENDS Integers, Sequences, FiniteSets

CONSTANTS
    Endpoints,   \* EndpointIds
    Older,       \* those that may be older than the driver handles
    OwnerOf,     \* the process that owns each of them
    Keys,        \* 5-tuples of the port: [local, remote]
    BindAddrs,   \* local addresses
    Unspecified, \* those of them that mean any: 0.0.0.0 and ::
    Is6,         \* the addresses of family IPv6
    Worlds,      \* [proto, binds: addresses sockets are bound to, ages: whether time passes,
                 \* snapshots: bound on those, waits: keys waited for]
    MaxNow,      \* bound: clock ticks
    SweepAge     \* flows.Sweep's 30 minutes, in ticks

ASSUME IndexAssumption ==
    /\ Unspecified \subseteq BindAddrs /\ Older \subseteq Endpoints
    /\ \A k \in Keys : k.local \notin Unspecified
    /\ \A e \in Endpoints : OwnerOf[e] # "nobody"
    /\ MaxNow \in Nat /\ SweepAge \in Nat
    /\ Keys # {} /\ BindAddrs # {}
    /\ \A w \in Worlds : w.proto \in {"tcp", "udp"} /\ w.binds \subseteq BindAddrs

Nobody == "nobody"
Any == "any"                                  \* the invalid netip.Addr
LocalKeys == (BindAddrs \ Unspecified) \cup {k.local : k \in Keys} \cup {Any}
NoEntry == [p |-> Nobody, seen |-> 0]
NoSocket == [key |-> Any, p |-> Nobody, seen |-> 0]

VARIABLES
    world,       \* the protocol of the port, and which concurrent activity there is
    os,          \* [Endpoints -> [state, bind, key, flow]]: the system's sockets
    handled,     \* how much of each socket's history socketLoop has heard
    flowQ,       \* [Keys -> events of the FLOW handle not read yet]
    now,
    m, snapshotExact, locals,   \* Keys -> entry, Keys -> entry, LocalKeys -> entry
    sockets,     \* [Endpoints -> [key, p, seen]]
    socketLocal, \* [LocalKeys -> set of [id, p, seen]]
    notify,      \* the one slot of the channel is taken
    signalling,  \* loops between the unlock of an update and their signal()
    snap,        \* SnapshotExisting's temporary Index
    fresh,       \* no socket has changed since the last snapshot began
    waiting,     \* [Waiters -> the key waited for in WaitLookup, or NoKey]
    stolen       \* waiters whose wake-up another waiter has taken

index == <<m, snapshotExact, locals, sockets, socketLocal>>
events == <<handled, flowQ>>
calls == <<waiting, stolen>>
vars == <<world, os, events, now, index, notify, signalling, snap, fresh, calls>>

Waiters == {"capture", "proxy"}
NoKey == [local |-> Any, remote |-> Any]

TypeOK ==
    /\ now \in 0..MaxNow /\ notify \in BOOLEAN /\ fresh \in BOOLEAN
    /\ \A e \in Endpoints : sockets[e].key \in LocalKeys /\ handled[e] \in 0..3
    /\ signalling \subseteq {"socket", "flow", "snapshot"}
    /\ stolen \subseteq Waiters

----------------------------------------------------------------------------
(* The system's sockets: state 0 not there yet, 1 bound, 2 connected,        *)
(* 3 closed; flow 0 none yet, 1 established, 2 deleted.                     *)

IsOpen(e) == os[e].state \in {1, 2}
LocalAddr(e) == IF os[e].state = 2 THEN os[e].key.local ELSE os[e].bind

\* A socket bound to :: is dual-stack.
CanUse(a, k) == \/ a = k.local
                \/ a \in Unspecified /\ (a \in Is6 \/ k.local \notin Is6)

SystemStep == /\ fresh' = FALSE /\ snap' = [snap EXCEPT !.clean = FALSE]
              /\ UNCHANGED <<world, now, handled, index, notify, signalling, calls>>

SocketBinds(e) ==
    /\ os[e].state = 0
    /\ \E a \in world.binds, k \in Keys :
         /\ CanUse(a, k)
         /\ os' = [os EXCEPT ![e] = [state |-> 1, bind |-> a, key |-> k, flow |-> 0]]
    /\ UNCHANGED flowQ
    /\ SystemStep

SocketConnects(e) ==
    /\ os[e].state = 1
    /\ \A f \in Endpoints \ {e} : os[f].state = 2 => os[f].key # os[e].key
    /\ os' = [os EXCEPT ![e].state = 2]
    /\ UNCHANGED flowQ
    /\ SystemStep

Told(e, kind) == flowQ' = [flowQ EXCEPT ![os[e].key] = Append(@, [kind |-> kind, id |-> e])]

\* The end of the TCP handshake, or the first datagram of a UDP flow.
FlowEstablished(e) ==
    /\ os[e].flow = 0 /\ (os[e].state = 2 \/ (world.proto = "udp" /\ os[e].state = 1))
    /\ \A f \in Endpoints : os[f].key = os[e].key => os[f].flow # 1
    /\ os' = [os EXCEPT ![e].flow = 1]
    /\ Told(e, "established")
    /\ SystemStep

\* A UDP flow that was idle.
FlowIdle(e) ==
    /\ world.proto = "udp" /\ os[e].flow = 1
    /\ os' = [os EXCEPT ![e].flow = 2]
    /\ Told(e, "deleted")
    /\ SystemStep

SocketCloses(e) ==
    /\ IsOpen(e)
    /\ os' = [os EXCEPT ![e].state = 3, ![e].flow = 2]
    /\ IF os[e].flow = 1 THEN Told(e, "deleted") ELSE UNCHANGED flowQ
    /\ SystemStep

----------------------------------------------------------------------------
(* Index methods.  Each holds the mutex; signal() follows after the unlock.  *)

normalizeLocal(a) == IF a \in Unspecified THEN Any ELSE a

\* Only waiters read the channel: without them the step is left out.
UpdatedUntold(l) == signalling' = IF world.waits # {} /\ l # "socket" THEN signalling \cup {l} ELSE signalling
Updated(l) == signalling' = IF world.waits # {} THEN signalling \cup {l} ELSE signalling

signal(l) ==
    /\ l \in signalling
    /\ notify' = TRUE /\ signalling' = signalling \ {l}
    /\ UNCHANGED <<world, os, events, now, index, snap, fresh, calls>>

\* deleteSocketIndexLocked; AddSocket calls it for a socket it knows already.
KeptInBucket(id) == socketLocal
WithoutSocket(id) == [lk \in LocalKeys |-> {b \in socketLocal[lk] : b.id # id}]

AddSocket(id, a, p) ==
    LET lk == normalizeLocal(a)
    IN  /\ sockets' = [sockets EXCEPT ![id] = [key |-> lk, p |-> p, seen |-> now]]
        /\ socketLocal' = [WithoutSocket(id) EXCEPT ![lk] =
                              @ \cup {[id |-> id, p |-> p, seen |-> now]}]

DeleteSocketOfPort(id) ==
    /\ sockets' = [sockets EXCEPT ![id] = NoSocket]
    /\ socketLocal' = IF sockets[id].p = Nobody THEN socketLocal
                      ELSE [socketLocal EXCEPT ![sockets[id].key] = {}]
DeleteSocket(id) ==
    /\ sockets' = [sockets EXCEPT ![id] = NoSocket]
    /\ socketLocal' = WithoutSocket(id)

\* Two entries of the same clock tick are equally new, and a Go map has no order.
newest(bucket) == {b.p : b \in {c \in bucket : \A d \in bucket : d.seen <= c.seen}}
Known(entry) == {entry.p} \ {Nobody}
FirstOf(a, b) == IF a # {} THEN a ELSE b

\* The answers Lookup can give; none if it finds nothing.
Lookup(k) ==
    FirstOf(Known(m[k]),
    FirstOf(newest(socketLocal[k.local]),
    FirstOf(newest(socketLocal[Any]),
    FirstOf(Known(snapshotExact[k]),
    FirstOf(Known(locals[k.local]), Known(locals[Any]))))))

----------------------------------------------------------------------------
(* The loops that keep the index.  A loop signals before its next event.     *)

\* BIND carries the bound address, CONNECT the concrete one.
EventAddr(e) == IF handled[e] = 0 THEN os[e].bind ELSE os[e].key.local
Closing(e) == handled[e] = 2 \/ (handled[e] = 1 /\ os[e].state = 3)

socketLoopAdds(e) ==
    /\ handled[e] < os[e].state /\ "socket" \notin signalling /\ ~Closing(e)
    /\ handled' = [handled EXCEPT ![e] = @ + 1]
    /\ AddSocket(e, EventAddr(e), OwnerOf[e])
    /\ Updated("socket")
    /\ UNCHANGED <<world, os, flowQ, now, m, snapshotExact, locals, notify, snap, fresh, calls>>

socketLoopDeletes(e) ==
    /\ handled[e] < os[e].state /\ "socket" \notin signalling /\ Closing(e)
    /\ handled' = [handled EXCEPT ![e] = 3]
    /\ DeleteSocket(e)
    /\ UNCHANGED <<world, os, flowQ, now, m, snapshotExact, locals, notify, signalling,
                   snap, fresh, calls>>

\* Add and Delete; deleting from the routes and discovery tables is in FlowRouting.
flowLoop(k) ==
    /\ flowQ[k] # <<>> /\ "flow" \notin signalling
    /\ flowQ' = [flowQ EXCEPT ![k] = Tail(@)]
    /\ LET ev == Head(flowQ[k])
       IN  \/ /\ ev.kind = "established"
              /\ m' = [m EXCEPT ![k] = [p |-> OwnerOf[ev.id], seen |-> now]]
              /\ Updated("flow")
           \/ /\ ev.kind = "deleted"
              /\ m' = [m EXCEPT ![k] = NoEntry]
              /\ UNCHANGED signalling
    /\ UNCHANGED <<world, os, handled, now, snapshotExact, locals, sockets, socketLocal,
                   notify, snap, fresh, calls>>

Old(entry) == entry.seen < now - SweepAge
Swept(f) == [k \in DOMAIN f |-> IF Old(f[k]) THEN NoEntry ELSE f[k]]
Sweep ==
    /\ world.ages
    /\ m' = Swept(m) /\ snapshotExact' = Swept(snapshotExact) /\ locals' = Swept(locals)
    /\ fresh' = (fresh /\ snapshotExact' = snapshotExact /\ locals' = locals)
    /\ UNCHANGED <<world, os, events, now, sockets, socketLocal, notify, signalling, snap, calls>>

----------------------------------------------------------------------------
(* SnapshotExisting: one table of the system after the other, then the swap. *)

EmptySnap == [pc |-> 0, taken |-> 0, clean |-> FALSE, exact |-> [k \in Keys |-> NoEntry],
              locals |-> [a \in LocalKeys |-> NoEntry]]

\* A TCP row is in the table of its flow's family, a UDP row in that of its socket's.
InTable(e, six) == /\ IsOpen(e)
                   /\ IF world.proto = "tcp" THEN (os[e].key.local \in Is6) = six
                      ELSE (os[e].bind \in Is6) = six
TCPRows(k, six) == {e \in Endpoints : InTable(e, six) /\ os[e].key = k /\ os[e].flow = 1}
UDPRows(a, six) == {e \in Endpoints : InTable(e, six) /\ normalizeLocal(LocalAddr(e)) = a}

SnapshotExisting ==
    /\ snap.pc = 0 /\ "snapshot" \notin signalling /\ snap.taken < world.snapshots
    /\ snap' = [EmptySnap EXCEPT !.pc = 1, !.clean = TRUE, !.taken = snap.taken + 1]
    /\ UNCHANGED <<world, os, events, now, index, notify, signalling, fresh, calls>>

\* snapshotTCP4, snapshotTCP6, snapshotUDP4, snapshotUDP6: the last row of an address stays.
SnapshotTable(six) ==
    /\ snap.pc = (IF six THEN 2 ELSE 1)
    /\ IF world.proto = "tcp"
       THEN snap' = [snap EXCEPT !.pc = @ + 1,
              !.exact = [k \in Keys |-> IF TCPRows(k, six) = {} THEN @[k]
                           ELSE [p |-> OwnerOf[CHOOSE e \in TCPRows(k, six) : TRUE], seen |-> now]]]
       ELSE \E pick \in [LocalKeys -> Endpoints] :
              /\ \A a \in LocalKeys : UDPRows(a, six) # {} => pick[a] \in UDPRows(a, six)
              /\ \A a \in LocalKeys : UDPRows(a, six) = {} => pick[a] = CHOOSE e \in Endpoints : TRUE
              /\ snap' = [snap EXCEPT !.pc = @ + 1,
                   !.locals = [a \in LocalKeys |-> IF UDPRows(a, six) = {} THEN @[a]
                                 ELSE [p |-> OwnerOf[pick[a]], seen |-> now]]]
    /\ UNCHANGED <<world, os, events, now, index, notify, signalling, fresh, calls>>

\* getExtendedTable or rows fails: the family stays empty.
SnapshotTableFails ==
    /\ snap.pc \in {1, 2}
    /\ snap' = [snap EXCEPT !.pc = @ + 1, !.clean = FALSE]
    /\ UNCHANGED <<world, os, events, now, index, notify, signalling, fresh, calls>>

SnapshotSwap ==
    /\ snap.pc = 3
    /\ snapshotExact' = snap.exact /\ locals' = snap.locals
    /\ fresh' = snap.clean
    /\ snap' = [EmptySnap EXCEPT !.taken = snap.taken] /\ Updated("snapshot")
    /\ UNCHANGED <<world, os, events, now, m, sockets, socketLocal, notify, calls>>

----------------------------------------------------------------------------
(* captureLoop and AuthorizeProxyClient: Lookup, then WaitLookup for 3 ms,   *)
(* then ResolveSocketOwner.  Answers found at once leave no trace here.      *)

WaitLookup(w, k) ==
    /\ k \in world.waits /\ waiting[w] = NoKey /\ Lookup(k) = {}
    /\ waiting' = [waiting EXCEPT ![w] = k] /\ stolen' = stolen \ {w}
    /\ UNCHANGED <<world, os, events, now, index, notify, signalling, snap, fresh>>

\* The token is one for all waiters; it is gone whatever the lookup then says.
Woken(w) ==
    /\ waiting[w] # NoKey /\ notify
    /\ notify' = FALSE
    /\ waiting' = [waiting EXCEPT ![w] = IF Lookup(@) # {} THEN NoKey ELSE @]
    /\ stolen' = {v \in Waiters \ {w} : waiting[v] # NoKey}
    /\ UNCHANGED <<world, os, events, now, index, signalling, snap, fresh>>

\* The rows resolveTCP4Owner, resolveTCP6Owner, resolveUDP4Owner and resolveUDP6Owner accept.
ResolveSocketOwner(k) ==
    LET six == k.local \in Is6
    IN  IF world.proto = "tcp"
        THEN {OwnerOf[e] : e \in {f \in Endpoints : InTable(f, six) /\ os[f].state = 2 /\ os[f].key = k}}
        ELSE {OwnerOf[e] : e \in UDPRows(k.local, six) \cup UDPRows(Any, six)}

\* No last lookup: only the system's tables are asked, for this packet alone.
Deadline(w) ==
    /\ waiting[w] # NoKey
    /\ waiting' = [waiting EXCEPT ![w] = NoKey] /\ stolen' = stolen \ {w}
    /\ UNCHANGED <<world, os, events, now, index, notify, signalling, snap, fresh>>

Tick ==
    /\ world.ages /\ now < MaxNow
    /\ now' = now + 1
    /\ UNCHANGED <<world, os, events, index, notify, signalling, snap, fresh, calls>>

Unused == [state |-> 0, bind |-> CHOOSE a \in BindAddrs : TRUE,
           key |-> CHOOSE k \in Keys : TRUE, flow |-> 0]

\* Sockets may be older than the driver handles: their past events are never told.
Init ==
    /\ world \in Worlds
    /\ \E older \in SUBSET Older :
         \E o \in [older -> [state : {1, 2}, bind : world.binds, key : Keys, flow : {0, 1}]] :
           /\ \A e \in older : /\ CanUse(o[e].bind, o[e].key)
                               /\ world.proto = "tcp" => (o[e].flow = 1) = (o[e].state = 2)
           /\ \A e, f \in older : e = f \/ o[e].key # o[f].key
           /\ os = [e \in Endpoints |-> IF e \in older THEN o[e] ELSE Unused]
    /\ handled = [e \in Endpoints |-> os[e].state]
    /\ flowQ = [k \in Keys |-> <<>>]
    /\ now = 0
    /\ m = [k \in Keys |-> NoEntry] /\ snapshotExact = m
    /\ locals = [a \in LocalKeys |-> NoEntry]
    /\ sockets = [e \in Endpoints |-> NoSocket]
    /\ socketLocal = [a \in LocalKeys |-> {}]
    /\ notify = FALSE /\ signalling = {} /\ snap = EmptySnap /\ fresh = FALSE
    /\ waiting = [w \in Waiters |-> NoKey] /\ stolen = {}

Next ==
    \/ \E e \in Endpoints :
         \/ SocketBinds(e) \/ SocketConnects(e) \/ FlowEstablished(e) \/ FlowIdle(e)
         \/ SocketCloses(e) \/ socketLoopAdds(e) \/ socketLoopDeletes(e)
    \/ \E k \in Keys : flowLoop(k) \/ (\E w \in Waiters : WaitLookup(w, k))
    \/ \E w \in Waiters : Woken(w) \/ Deadline(w)
    \/ \E l \in {"socket", "flow", "snapshot"} : signal(l)
    \/ Sweep \/ SnapshotExisting \/ SnapshotTableFails \/ SnapshotSwap \/ Tick
    \/ \E six \in BOOLEAN : SnapshotTable(six)

Spec == Init /\ [][Next]_vars

----------------------------------------------------------------------------
(* Properties.                                                              *)

\* The two maps of live sockets describe the same sockets (AddSocket, DeleteSocket):
\* an endpoint in a bucket has its entry under that address, and the other way round.
SocketsAgree ==
    \A id \in Endpoints, lk \in LocalKeys :
        {b \in socketLocal[lk] : b.id = id} =
            IF sockets[id].p # Nobody /\ sockets[id].key = lk
            THEN {[id |-> id, p |-> sockets[id].p, seen |-> sockets[id].seen]} ELSE {}

Quiet == /\ \A e \in Endpoints : handled[e] = os[e].state
         /\ \A k \in Keys : flowQ[k] = <<>>
SendsPackets(e) == os[e].state = 2 \/ (os[e].state = 1 /\ world.proto = "udp")
Heard(e) == sockets[e].p # Nobody

\* Another open socket the index cannot tell from e: same 5-tuple or local key (0.0.0.0
\* and :: are one), or bound to the concrete address e's packets leave from.
Rival(e, f) ==
    /\ f # e /\ IsOpen(f)
    /\ \/ ~Heard(e) \/ os[f].key = os[e].key
       \/ normalizeLocal(LocalAddr(f)) \in {normalizeLocal(LocalAddr(e)), os[e].key.local}

\* What captureLoop makes of Lookup and ResolveSocketOwner.
Attribution(k) == FirstOf(Lookup(k), ResolveSocketOwner(k))

\* A dual-stack UDP socket sends IPv4 but is listed in the IPv6 table only.
Unlisted(e) == world.proto = "udp" /\ (os[e].bind \in Is6) # (os[e].key.local \in Is6)

\* Once the loops have handled every event, the packets of an open socket are attributed
\* to its owner, whatever closed, re-bound, expired or was snapshotted before and in
\* whatever order it was told; for a socket older than the driver handles, if the last
\* snapshot is current or says nothing (Lookup, ResolveSocketOwner).
IndexTellsTruth ==
    Quiet => \A e \in Endpoints :
        ( /\ SendsPackets(e) /\ (\A f \in Endpoints : ~Rival(e, f))
          /\ Heard(e) \/ fresh \/ (Lookup(os[e].key) = {} /\ ~Unlisted(e)) )
        => Attribution(os[e].key) = {OwnerOf[e]}

\* A waiter whose answer is in the index has its wake-up in the channel or about to be
\* put there, unless the other waiter has taken it (WaitLookup, signal).
WakeUpNotLost ==
    \A w \in Waiters :
        (waiting[w] # NoKey /\ Lookup(waiting[w]) # {})
        => (notify \/ signalling # {} \/ w \in stolen)
=============================================================================
