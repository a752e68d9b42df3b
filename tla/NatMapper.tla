------------------------------ MODULE NatMapper ------------------------------
(***************************************************************************)
(* The tunnel-side NAT of SplitWire (internal/nat/nat.go).                  *)
(*                                                                         *)
(* Mapper keeps two maps over shared *mapping objects: byOut, keyed by the *)
(* application's flow, and byReply, keyed by what an answer from the       *)
(* tunnel carries.  Every method runs under m.mu, so it is one action.     *)
(* The objects live in a heap, because both maps hold pointers to the same *)
(* object and RestoreInbound refreshes through one what Sweep reads        *)
(* through the other.                                                      *)
(*                                                                         *)
(* An endpoint "remote" stands for (protocol, address, port) of the far    *)
(* end, which the code only ever compares.  Time is kept as the number of  *)
(* ticks since an event, saturating just above the sweep age: Sweep tells  *)
(* apart only ages up to it.                                               *)
(***************************************************************************)
EXTENDS Integers, FiniteSets

CONSTANTS
    Locals,      \* application-side addresses
    Remotes,     \* far endpoints: protocol, address and port
    AppPorts,    \* ports applications bind
    Ports,       \* all ports, the allocator's range included
    Family,      \* address family of every local and remote
    TunnelOf,    \* tunnel address per family, NoTunnel when not configured
    NoTunnel,
    Metas,       \* (IfIdx, SubIfIdx) of the capturing interface
    Objects,     \* the heap: identities of *mapping objects
    FirstPort, LastPort,   \* 40000 and 60999
    MaxTries,    \* 21000
    SweepAge     \* 15 minutes, in ticks

Families == {"v4", "v6"}

\* What the configuration and the code's literals provide.
ASSUME NatAssumption ==
    /\ Family \in [Locals \cup Remotes -> Families]
    /\ DOMAIN TunnelOf = Families
    /\ FirstPort \in Nat /\ LastPort \in Nat /\ FirstPort <= LastPort
    /\ FirstPort .. LastPort \subseteq Ports
    /\ Ports \subseteq Nat /\ AppPorts \subseteq Ports
    /\ MaxTries = LastPort - FirstPort + 1
    /\ SweepAge \in Nat

\* outboundKey: both addresses of a packet are of one family.
OutKeys == {k \in [local : Locals, lport : AppPorts, remote : Remotes] :
               Family[k.local] = Family[k.remote]}

Tunnels == {TunnelOf[f] : f \in Families} \ {NoTunnel}

\* replyKey
ReplyKeys == [remote : Remotes, tun : Tunnels, tport : Ports]

\* mapping, with Seen as the ticks since it.
Mapping == [local : Locals, lport : AppPorts, tport : Ports,
            meta : Metas, idle : 0 .. SweepAge + 1]

VARIABLES
    byOut,     \* outboundKey -> object
    byReply,   \* replyKey -> object
    heap,      \* object -> mapping, for the objects the maps refer to
    next,      \* the allocator's cursor
    lastSent   \* history: flow -> what its latest translated packet carried,
               \* kept for the sweep age

vars == <<byOut, byReply, heap, next, lastSent>>

----------------------------------------------------------------------------
Tun(k) == TunnelOf[Family[k.local]]

ReplyKey(k, tport) == [remote |-> k.remote, tun |-> Tun(k), tport |-> tport]

\* f without the keys in S, and f with x mapped to v.
Without(f, S) == [x \in DOMAIN f \ S |-> f[x]]
With(f, x, v) == [y \in DOMAIN f \cup {x} |-> IF y = x THEN v ELSE f[y]]

\* The cursor n ports after c: m.next++ with the wrap at 60999.
CursorSkipsLast(c, n) == IF c + n >= LastPort THEN c + n - MaxTries + 1 ELSE c + n
Cursor(c, n) == IF c + n > LastPort THEN c + n - MaxTries ELSE c + n

\* A port of the range that the search loop would accept for flow k.
Free(k, p) == ReplyKey(k, p) \notin DOMAIN byReply

\* The loop index at which the search for flow k stops with found = true.
FoundAt(k, n) ==
    /\ n \in 0 .. MaxTries - 1
    /\ Free(k, Cursor(next, n))
    /\ \A m \in 0 .. n - 1 : ~ Free(k, Cursor(next, m))

Exhausted(k) ==
    /\ ~ Free(k, k.lport)
    /\ \A n \in 0 .. MaxTries - 1 : ~ Free(k, Cursor(next, n))

\* The tunnel port a new flow k gets, and the cursor that leaves behind.
KeepsPort(k) == k.lport
TunnelPort(k) ==
    IF Free(k, k.lport) THEN k.lport
    ELSE Cursor(next, CHOOSE n \in 0 .. MaxTries - 1 : FoundAt(k, n))

NextCursor(k) ==
    IF Free(k, k.lport) THEN next
    ELSE Cursor(next, (CHOOSE n \in 0 .. MaxTries - 1 : FoundAt(k, n)) + 1)

\* Mapping m with Meta and Seen overwritten.
Refreshed(m, meta, idle) ==
    [local |-> m.local, lport |-> m.lport, tport |-> m.tport, meta |-> meta, idle |-> idle]

\* The object a new(mapping) returns: one that no map refers to.
Unused == Objects \ DOMAIN heap
NewObject == CHOOSE o \in Unused : TRUE

\* The rest of the packet's journey: it leaves with the tunnel address and the
\* port of the flow's mapping.
Sent(k, tport, meta) ==
    lastSent' = With(lastSent, k, [tport |-> tport, meta |-> meta, idle |-> 0])

----------------------------------------------------------------------------
Init ==
    /\ byOut = << >> /\ byReply = << >> /\ heap = << >>
    /\ next = FirstPort
    /\ lastSent = << >>

\* PrepareOutbound of a flow of a family the interface has no address for.
PrepareNoTunnel(k) ==
    /\ Tun(k) = NoTunnel
    /\ UNCHANGED vars

\* PrepareOutbound of a flow that byOut does not know.
PrepareNew(k, meta) ==
    /\ Tun(k) # NoTunnel
    /\ k \notin DOMAIN byOut
    /\ Unused # {}
    /\ ~ Exhausted(k)
    /\ next' = NextCursor(k)
    /\ heap' = With(heap, NewObject,
                    [local |-> k.local, lport |-> k.lport, tport |-> TunnelPort(k),
                     meta |-> meta, idle |-> 0])
    /\ byOut' = With(byOut, k, NewObject)
    /\ byReply' = With(byReply, ReplyKey(k, TunnelPort(k)), NewObject)
    /\ Sent(k, TunnelPort(k), meta)

\* PrepareOutbound of a new flow for which no tunnel-side port is free.
PrepareFails(k) ==
    /\ Tun(k) # NoTunnel
    /\ k \notin DOMAIN byOut
    /\ Exhausted(k)
    /\ next' = Cursor(next, MaxTries)
    /\ UNCHANGED <<byOut, byReply, heap, lastSent>>

\* PrepareOutbound of a known flow refreshes Seen and Meta.
PrepareKnown(k, meta) ==
    /\ Tun(k) # NoTunnel
    /\ k \in DOMAIN byOut
    /\ heap' = [heap EXCEPT ![byOut[k]] = Refreshed(@, meta, 0)]
    /\ Sent(k, heap[byOut[k]].tport, meta)
    /\ UNCHANGED <<byOut, byReply, next>>

\* What RestoreInbound writes into a packet that matches r.
Restored(r) == [local |-> heap[byReply[r]].local,
                lport |-> heap[byReply[r]].lport,
                meta |-> heap[byReply[r]].meta]

\* RestoreInbound of a packet from the tunnel.
RestoreInbound(r) ==
    /\ r \in DOMAIN byReply
    /\ heap' = [heap EXCEPT ![byReply[r]] = Refreshed(@, @.meta, 0)]
    /\ UNCHANGED <<byOut, byReply, next, lastSent>>

RestoreMiss(r) ==
    /\ r \notin DOMAIN byReply
    /\ UNCHANGED vars

\* Sweep: the flows whose mapping was last seen before the cut.
StaleAtAge == {k \in DOMAIN byOut : heap[byOut[k]].idle >= SweepAge}
Stale == {k \in DOMAIN byOut : heap[byOut[k]].idle > SweepAge}

\* Sweep: the reply keys deleted along with them.
StaleRepliesByLocalPort == {ReplyKey(k, k.lport) : k \in Stale}
StaleReplies == {ReplyKey(k, heap[byOut[k]].tport) : k \in Stale}

Sweep ==
    /\ byOut' = Without(byOut, Stale)
    /\ byReply' = Without(byReply, StaleReplies)
    /\ heap' = Without(heap, {byOut[k] : k \in Stale}
                               \ {byReply[r] : r \in DOMAIN byReply \ StaleReplies})
    /\ UNCHANGED <<next, lastSent>>

Older(age) == IF age > SweepAge THEN age ELSE age + 1

\* The passage of time.
Tick ==
    /\ heap' = [o \in DOMAIN heap |-> Refreshed(heap[o], heap[o].meta, Older(heap[o].idle))]
    /\ lastSent' = [k \in {x \in DOMAIN lastSent : lastSent[x].idle < SweepAge} |->
                       [tport |-> lastSent[k].tport, meta |-> lastSent[k].meta,
                        idle |-> lastSent[k].idle + 1]]
    /\ UNCHANGED <<byOut, byReply, next>>

Next ==
    \/ \E k \in OutKeys : PrepareNoTunnel(k) \/ PrepareFails(k)
    \/ \E k \in OutKeys, meta \in Metas : PrepareNew(k, meta) \/ PrepareKnown(k, meta)
    \/ \E r \in ReplyKeys : RestoreInbound(r) \/ RestoreMiss(r)
    \/ Sweep
    \/ Tick

Spec == Init /\ [][Next]_vars

----------------------------------------------------------------------------
(* The maps, the heap, the cursor and the history have the types of nat.go's *)
(* declarations.                                                            *)
TypeOK ==
    /\ DOMAIN byOut \subseteq OutKeys /\ \A k \in DOMAIN byOut : byOut[k] \in DOMAIN heap
    /\ DOMAIN byReply \subseteq ReplyKeys /\ \A r \in DOMAIN byReply : byReply[r] \in DOMAIN heap
    /\ DOMAIN heap \subseteq Objects /\ \A o \in DOMAIN heap : heap[o] \in Mapping
    /\ next \in FirstPort .. LastPort
    /\ DOMAIN lastSent \subseteq OutKeys
    /\ \A k \in DOMAIN lastSent :
          lastSent[k] \in [tport : Ports, meta : Metas, idle : 0 .. SweepAge]

(* The two maps describe the same set of mappings: each flow's mapping is   *)
(* reachable under the reply key its packets carry, each reply key leads to *)
(* a live flow, and no mapping object is shared by two flows.  Sweep        *)
(* rebuilds the reply key from the flow key and the object; were it to miss *)
(* it, a dead entry would occupy a port for ever.                           *)
MapsAgree ==
    /\ \A k \in DOMAIN byOut :
          LET m == heap[byOut[k]]
          IN  /\ m.local = k.local /\ m.lport = k.lport
              /\ ReplyKey(k, m.tport) \in DOMAIN byReply
              /\ byReply[ReplyKey(k, m.tport)] = byOut[k]
    /\ \A r \in DOMAIN byReply :
          \E k \in DOMAIN byOut : byOut[k] = byReply[r] /\ r = ReplyKey(k, heap[byOut[k]].tport)
    /\ \A k1, k2 \in DOMAIN byOut : byOut[k1] = byOut[k2] => k1 = k2

(* An answer to the latest packet of a flow that sent within the sweep age  *)
(* is restored to that flow's own address and port and to the interface the *)
(* packet was captured on, whatever other flows to the same remote, sweeps  *)
(* and port collisions happened since.                                      *)
AnswersReachSender ==
    \A k \in DOMAIN lastSent :
       LET r == ReplyKey(k, lastSent[k].tport)
       IN  /\ r \in DOMAIN byReply
           /\ Restored(r) = [local |-> k.local, lport |-> k.lport,
                             meta |-> lastSent[k].meta]

(* PrepareOutbound reports "no free tunnel-side source port" only when every *)
(* port of the range is taken for that remote, wherever the cursor stands.   *)
FailsOnlyWhenFull ==
    \A k \in OutKeys :
       Exhausted(k) => \A p \in FirstPort .. LastPort : ~ Free(k, p)

(* Two packets of a flow less than the sweep age apart leave with the same   *)
(* tunnel-side source port: the peer never sees a live connection change     *)
(* port, whatever sweeps and collisions lie between the packets.             *)
PortIsStable ==
    [][\A k \in DOMAIN lastSent \cap DOMAIN lastSent' :
          lastSent'[k].tport = lastSent[k].tport]_vars
=============================================================================
