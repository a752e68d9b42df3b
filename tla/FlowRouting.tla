----------------------------- MODULE FlowRouting -----------------------------
(***************************************************************************)
(* How the engine routes the packets of a 5-tuple: DIRECT or through        *)
(* WireGuard (engine_windows.go captureLoop, flowLoop and maintenanceLoop;  *)
(* flowroute.go, proxyroute.go, proxydial.go and policy.go).                *)
(*                                                                         *)
(* One 5-tuple towards one destination is used by successive connections.   *)
(* Its packets and the driver's FLOW and SOCKET events about it reach       *)
(* different goroutines through queues of their own, so captureLoop may     *)
(* see a packet before or after the events about its connection: which      *)
(* program it finds is left open.  Between its lookup, its attribution and  *)
(* its decision the other goroutines run.                                   *)
(* The rules hold one group with a host name; the destination is selected   *)
(* while its address is learned from DNS, a bootstrap query or an SNI.      *)
(***************************************************************************)
EXTENDS Integers, Sequences

CONSTANTS
    Protos,      \* subset of {"tcp", "udp"}
    Globals,     \* subset of BOOLEAN: whether the group is Apps=*
    MaxConns,    \* bound: connections on the 5-tuple
    MaxQueued,   \* bound: packets waiting in the driver
    Worlds       \* subset of {"calm", "idle", "reuse"}, see world

ASSUME FlowAssumption ==
    /\ Protos \subseteq {"tcp", "udp"} /\ Globals \subseteq BOOLEAN
    /\ MaxConns \in Nat \ {0} /\ MaxQueued \in Nat \ {0}
    /\ Worlds \subseteq {"calm", "idle", "reuse"}

None == "none"
Programs == {"app", "other", "self"}  \* "app" is named in the group, "self" is SplitWire
Route == {"direct", "wg"}

VARIABLES
    proto, global,  \* "tcp" or "udp"; the group is Apps=* (never change)
    world,          \* what may happen (never changes): "idle", a live connection
                    \* is silent for 30 minutes; "reuse", a 5-tuple is used again
                    \* while the engine still has state of its last connection
    conn, phase,    \* the latest connection; "closed", "syn", "open" or "closing"
    owner, earlier, \* its program, and those of the connections before it
    spoke,          \* the latest connection has sent more than a ClientHello
    net,            \* kinds of its captured packets
    deletions,      \* FLOW_DELETED events not yet handled
    deleting,       \* flowLoop is half-way through one
    proxyRoute,     \* proxyRoutes: a route or None
    route,          \* routes: NoRoute or [to, proc]
    learned,        \* domains: the destination is in the group
    sni,            \* discovery's tlsState: "none", "match" or "other"
    pc, pkt, proc, to, first,  \* captureLoop
    left,           \* history: its packets that left, by kind and route
    missed          \* history: one of its packets was taken for another program's

envVars == <<proto, global, world, conn, phase, owner, earlier, spoke>>
tables == <<proxyRoute, route, learned, sni>>
loopVars == <<pc, pkt, proc, to, first>>
histVars == <<left, missed>>
eventVars == <<deletions, deleting>>
vars == <<envVars, net, eventVars, tables, loopVars, histVars>>

NoRoute == [to |-> None, proc |-> None]
NoPacket == "none"

Init ==
    /\ proto \in Protos /\ global \in Globals /\ world \in Worlds
    /\ owner \in {"app", "other"} /\ earlier = {}
    /\ \/ conn = 0 /\ phase = "closed" /\ spoke = FALSE /\ left = {}
       \/ \* a connection older than SplitWire
          /\ conn = 1 /\ phase = "open" /\ spoke = TRUE
          /\ left = IF proto = "tcp" THEN {[kind |-> "data", to |-> "direct"]} ELSE {}
    /\ net = <<>> /\ deletions = 0 /\ deleting = FALSE
    /\ proxyRoute = None /\ route = NoRoute /\ learned = FALSE /\ sni = "none"
    /\ pc = "recv" /\ pkt = NoPacket /\ proc = None /\ to = "direct" /\ first = FALSE
    /\ missed = FALSE

----------------------------------------------------------------------------
(* Programs and the network stack.                                          *)
Queues(k) ==
    /\ Len(net) < MaxQueued
    /\ net' = Append(net, k)

Opens(p) ==
    /\ phase = "closed" /\ conn < MaxConns
    /\ net = <<>> /\ pc = "recv"
    /\ world = "reuse" \/ (deletions = 0 /\ ~ deleting /\ route = NoRoute /\ sni = "none")
    /\ conn' = conn + 1
    /\ owner' = p /\ earlier' = IF conn = 0 THEN {} ELSE earlier \cup {owner}
    /\ spoke' = FALSE /\ left' = {} /\ missed' = FALSE
    /\ IF proto = "tcp" THEN phase' = "syn" /\ Queues("syn")
                        ELSE phase' = "open" /\ Queues("data")
    /\ UNCHANGED <<proto, global, world, eventVars, route, learned, sni, loopVars>>

ProgramOpens(p) == Opens(p) /\ UNCHANGED proxyRoute

\* dialProxyRegistered registers the route before connect sends a packet.
ProxyDials(t) == Opens("self") /\ proxyRoute' = t

SynAgain ==
    /\ phase = "syn"
    /\ UNCHANGED <<envVars, eventVars, tables, loopVars, histVars>>
    /\ Queues("syn")

Established ==
    /\ phase = "syn" /\ left # {}
    /\ phase' = "open"
    /\ UNCHANGED <<proto, global, world, conn, owner, earlier, spoke, net, eventVars, tables, loopVars, histVars>>

\* "hello": a ClientHello with a name of the group, which comes before other data.
Sends(k) ==
    /\ phase = "open"
    /\ k = "hello" => proto = "tcp" /\ ~ spoke
    /\ spoke' = (k = "data")
    /\ UNCHANGED <<proto, global, world, conn, phase, owner, earlier, eventVars, tables, loopVars, histVars>>
    /\ Queues(k)

\* registeredConn.Close forgets the proxy's route, then the stack sends a last
\* packet.  A connection that was never established has no FLOW events.
Closes ==
    /\ phase \in {"syn", "open"}
    /\ proxyRoute' = None
    /\ UNCHANGED <<proto, global, world, conn, owner, earlier, spoke, eventVars, route, learned, sni, loopVars, histVars>>
    /\ \/ phase = "syn" /\ phase' = "closed" /\ UNCHANGED net
       \/ phase = "open" /\ phase' = "closing" /\ UNCHANGED net
       \/ phase = "open" /\ phase' = "closing" /\ proto = "tcp" /\ Queues("fin")

\* FLOW_DELETED follows when the peer has answered the last packet ...
Gone ==
    /\ phase = "closing" /\ net = <<>> /\ pc = "recv"
    /\ phase' = "closed" /\ deletions' = deletions + 1
    /\ UNCHANGED <<proto, global, world, conn, owner, earlier, spoke, net, deleting, tables, loopVars, histVars>>

\* ... or at once when the connection is reset.
IsReset ==
    IF phase \in {"open", "closing"}
    THEN phase' = "closed" /\ deletions' = deletions + 1
    ELSE UNCHANGED <<phase, deletions>>

----------------------------------------------------------------------------
(* flowLoop; dnsLoop, bootstrapLoop and the expiry of what they learn.       *)
FlowDeleted ==
    /\ deletions > 0 /\ ~ deleting
    /\ deletions' = deletions - 1 /\ deleting' = TRUE
    /\ route' = NoRoute
    /\ UNCHANGED <<envVars, net, proxyRoute, learned, sni, loopVars, histVars>>

\* Each table has a lock of its own, so captureLoop may run in between.
FlowDeletedEnds ==
    /\ deleting
    /\ deleting' = FALSE
    /\ sni' = "none" /\ proxyRoute' = None
    /\ UNCHANGED <<envVars, net, deletions, route, learned, loopVars, histVars>>

DnsLearns ==
    /\ learned' = TRUE
    /\ UNCHANGED <<envVars, net, eventVars, proxyRoute, route, sni, loopVars, histVars>>

DomainExpires ==
    /\ learned' = FALSE
    /\ UNCHANGED <<envVars, net, eventVars, proxyRoute, route, sni, loopVars, histVars>>

\* maintenanceLoop: routes and proxy routes not used for 30 minutes (the proxy's
\* connections send keep-alives); a tlsState, which lives for 30 seconds.
SweepRoutes ==
    /\ phase = "closed" \/ (world = "idle" /\ phase = "open" /\ proxyRoute = None)
    /\ net = <<>> /\ pc = "recv"
    /\ proxyRoute' = None /\ route' = NoRoute
    /\ UNCHANGED <<envVars, net, eventVars, learned, sni, loopVars, histVars>>

SweepDiscovery ==
    /\ sni' = "none"
    /\ UNCHANGED <<envVars, net, eventVars, proxyRoute, route, learned, loopVars, histVars>>

----------------------------------------------------------------------------
(* captureLoop.                                                             *)

\* policy.Decide and NeedsTLSDiscovery, IsInternal.
Selects(p) == global \/ p = "app"
Decide(p) == IF learned /\ p # "self" /\ Selects(p) THEN "wg" ELSE "direct"

\* flowRouteTable.Set keeps an entry that is there.
SetRoute(t, p) == IF route = NoRoute THEN [to |-> t, proc |-> p] ELSE route

\* A packet is received and a route of its flow is looked up: the proxy's, then
\* the sticky one.
Recv ==
    /\ pc = "recv" /\ net # <<>>
    /\ pkt' = Head(net) /\ net' = Tail(net)
    /\ to' = IF proxyRoute # None THEN proxyRoute ELSE "direct"
    /\ pc' = IF proxyRoute # None THEN "proxied" ELSE "sticky"
    /\ UNCHANGED <<envVars, eventVars, tables, proc, first, histVars>>

Proxied ==
    /\ pc = "proxied"
    /\ route' = SetRoute(to, "blank")
    /\ pc' = "act"
    /\ UNCHANGED <<envVars, net, eventVars, proxyRoute, learned, sni, pkt, proc, to, first, histVars>>

StickyIgnored == FALSE
Sticky == route # NoRoute
Lookup ==
    /\ pc = "sticky"
    /\ IF Sticky
       THEN to' = route.to /\ proc' = route.proc /\ pc' = "act" /\ UNCHANGED first
       ELSE first' = TRUE /\ pc' = "attribute" /\ UNCHANGED <<to, proc>>
    /\ UNCHANGED <<envVars, net, eventVars, tables, pkt, histVars>>

\* flows.Lookup, WaitLookup and ResolveSocketOwner.  Depending on the FLOW,
\* SOCKET and IP Helper data that has arrived they name the program of this or
\* of an earlier connection, or none.
Attribute ==
    /\ pc = "attribute"
    /\ proc' \in {owner, None} \cup earlier
    /\ pc' = "decide"
    /\ UNCHANGED <<envVars, net, eventVars, tables, pkt, to, first, histVars>>

DecideRoute ==
    /\ pc = "decide"
    /\ to' = Decide(proc)
    /\ route' = SetRoute(Decide(proc), proc)
    /\ pc' = "act"
    /\ UNCHANGED <<envVars, net, eventVars, proxyRoute, learned, sni, pkt, proc, first, histVars>>

\* FeedTLS looks at the payload of DIRECT packets of known, selecting programs;
\* what it makes of the first payload stands until its tlsState is dropped.
Feeds ==
    /\ to = "direct" /\ proto = "tcp" /\ pkt \in {"hello", "data"}
    /\ proc \notin {None, "self"} /\ Selects(proc)
HelloIgnored == FALSE
MatchesHello == Feeds /\ (sni = "match" \/ (sni = "none" /\ pkt = "hello"))

\* A packet in the middle of a connection that would start to be tunnelled.
MidConnectionNever == FALSE
MidConnection == to = "wg" /\ first /\ proto = "tcp" /\ pkt # "syn"

\* The variables of the loop do not outlive an iteration.
NextPacket ==
    pc' = "recv" /\ pkt' = NoPacket /\ proc' = None /\ to' = "direct" /\ first' = FALSE

\* resetBrowserTCP, which may fail; the packet is dropped, the route forgotten.
Resets ==
    /\ IsReset \/ UNCHANGED <<phase, deletions>>
    /\ route' = NoRoute
    /\ NextPacket
    /\ UNCHANGED <<proto, global, world, conn, owner, earlier, spoke, net, deleting, proxyRoute, histVars>>

ActHello ==
    /\ pc = "act" /\ MatchesHello
    /\ learned' = TRUE /\ sni' = "match"
    /\ Resets

ActReset ==
    /\ pc = "act" /\ MidConnection
    /\ Resets
    /\ UNCHANGED <<learned, sni>>

\* The packet leaves, or it is lost to a full queue or port range, an error, or
\* QUIC suppression.
ActForward ==
    /\ pc = "act" /\ ~ MatchesHello /\ ~ MidConnection
    /\ left' \in {left, left \cup {[kind |-> pkt, to |-> to]}}
    /\ missed' = (missed \/ proc # owner)
    /\ sni' = IF Feeds /\ sni = "none" THEN "other" ELSE sni
    /\ NextPacket
    /\ UNCHANGED <<envVars, net, eventVars, proxyRoute, route, learned>>

----------------------------------------------------------------------------
Next ==
    \/ \E p \in {"app", "other"} : ProgramOpens(p)
    \/ \E t \in Route : ProxyDials(t)
    \/ SynAgain
    \/ Established
    \/ \E k \in {"hello", "data"} : Sends(k)
    \/ Closes
    \/ Gone
    \/ FlowDeleted
    \/ FlowDeletedEnds
    \/ DnsLearns
    \/ DomainExpires
    \/ SweepRoutes
    \/ SweepDiscovery
    \/ Recv
    \/ Proxied
    \/ Lookup
    \/ Attribute
    \/ DecideRoute
    \/ ActHello
    \/ ActReset
    \/ ActForward

Spec == Init /\ [][Next]_vars

----------------------------------------------------------------------------
(* Tables, queues and captureLoop's variables range over their values.      *)
Found == Programs \cup {"blank", None}
TypeOK ==
    /\ proto \in Protos /\ global \in Globals /\ world \in Worlds
    /\ conn \in 0 .. MaxConns /\ phase \in {"closed", "syn", "open", "closing"}
    /\ owner \in Programs /\ earlier \subseteq Programs /\ spoke \in BOOLEAN
    /\ Len(net) <= MaxQueued /\ deletions \in 0 .. MaxConns /\ deleting \in BOOLEAN
    /\ proxyRoute \in Route \cup {None}
    /\ route \in [to : Route, proc : Found] \cup {NoRoute}
    /\ learned \in BOOLEAN /\ sni \in {"none", "match", "other"}
    /\ pc \in {"recv", "proxied", "sticky", "attribute", "decide", "act"}
    /\ proc \in Found /\ to \in Route /\ first \in BOOLEAN
    /\ missed \in BOOLEAN

(* "Per-flow route decisions are sticky.  A flow cannot switch DIRECT <->     *)
(* WireGuard midway through a connection", whatever is learned, forgotten,    *)
(* attributed or reset meanwhile.  So it is while no connection is silent for *)
(* 30 minutes, when maintenanceLoop sweeps its route and the next packet is   *)
(* decided anew, and no 5-tuple is used again before FLOW_DELETED was handled.*)
RouteIsSticky == world = "calm" => \A x, y \in left : x.to = y.to

(* "An already-established TCP flow cannot migrate from DIRECT to a different *)
(* public address": once data of a connection has left DIRECT, none of its    *)
(* data is sent through WireGuard, however late FLOW_DELETED comes and even   *)
(* if the reset cannot be injected.  (Of any program but SplitWire, whose     *)
(* proxied connections have a route of their own.)                            *)
Payload(t) == {x \in left : x.kind # "syn" /\ x.to = t}
DirectStaysDirect ==
    [][proto = "tcp" /\ owner # "self" /\ Payload("direct") # {} =>
          Payload("wg")' \subseteq Payload("wg")]_vars

(* A ClientHello with a name of the group never leaves DIRECT from a program  *)
(* the group names, unless a packet of its connection was taken for           *)
(* another's, or the tlsState of an earlier connection is still there.        *)
HelloKept ==
    [kind |-> "hello", to |-> "direct"] \in left /\ owner = "app" =>
       missed \/ world = "reuse"
=============================================================================
