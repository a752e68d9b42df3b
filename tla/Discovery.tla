----------------------------- MODULE Discovery -----------------------------
(***************************************************************************)
(* How SplitWire learns which addresses belong to the configured domains      *)
(* (internal/domain, internal/browserdisc, and the engine's dnsLoop,          *)
(* bootstrapLoop and captureLoop), and how the rules of Policy are applied to *)
(* a packet and to a request of the hostname proxy.                          *)
(*                                                                         *)
(* Times are what is left of them: every expiry is a counter that Tick takes *)
(* one from, and 0 is expired.                                             *)
(***************************************************************************)
EXTENDS Policy, TlsStream, FiniteSets, FiniteSetsExt

CONSTANTS
    IPs,         \* remote addresses
    Server,      \* the one that the connections under study are opened to
    Procs,       \* the programs, as [name, path]; Unknown stands for no attribution
    RawRules,    \* the rule sets a configuration file may hold
    Starts,      \* sequence numbers of the first data byte of a connection
    TTLs,        \* TTLs of DNS records
    MinTTL, Day, \* the clamp of the tracker, 10 s and 24 h
    FiveMinutes, \* TTL of the bootstrap lookups, and of a response without one
    HalfHour,    \* TTL of a name read from a ClientHello
    TlsLife,     \* 30 s
    QuicBlock, QuicCool,  \* 4 s and 10 min
    MaxFacts,    \* bound: observations alive when something more is learned
    MaxOwed      \* bound: FLOW_DELETED events not handled yet, the open connection's counted

ASSUME TimeAssumption ==
    /\ MinTTL \in 1 .. FiveMinutes /\ FiveMinutes \in 1 .. HalfHour /\ HalfHour \in 1 .. Day
    /\ TTLs \subseteq Nat /\ Server \in IPs /\ Starts \subseteq 0 .. SeqMod - 1
    /\ MaxOwed \in Nat
    /\ QuicBlock \in 1 .. QuicCool - 1 /\ QuicCool \in Nat /\ Day \in Nat /\ TlsLife \in Nat \ {0}

\* A program's name holds no separator and its path does, unless it is unknown; neither is
\* the wildcard.
ASSUME RulesAssumption ==
    /\ {"*", ""} \cap Paths = {}
    /\ \A p \in Procs : p.name \notin Paths \cup {"*"} /\ p.path \in Paths \cup {""}
    /\ \A raw \in RawRules : \A i \in DOMAIN raw :
          raw[i] \in [apps : SUBSET STRING, domains : SUBSET Patterns, networks : SUBSET IPs]

VARIABLES
    activity,    \* which part of the machine is at work in this behaviour
    groups,      \* the validated rules
    ips,         \* Tracker.ips: time left of group i for an address
    known,       \* history: time left of a name observed for an address
    seeds,       \* history: time left of a bootstrap lookup of group i that gave an address
    conn,        \* the TCP connection on the one 5-tuple under study
    owed,        \* its FLOW_DELETED events that flowLoop has not handled
    route,       \* the sticky entry of the 5-tuple: the route and the program it was made for
    tls,         \* Discovery.tls of that 5-tuple
    reset,       \* history: the program a connection was last reset for, for its name
    quic,        \* Discovery.quic: time left of the two windows
    firstQuic,   \* history: time since QUIC to an address was first dropped
    reply        \* what the proxy answered, or what became of the packet

table == <<ips, known, seeds>>
flow == <<conn, owed, route, tls, reset>>
windows == <<quic, firstQuic, reply>>
vars == <<activity, groups, table, flow, windows>>

NoConn == [state |-> "none", host |-> "", start |-> 0, sent |-> 0, clean |-> FALSE, got |-> FALSE]
NoRoute == [to |-> "none", proc |-> Unknown]
NoReset == [proc |-> Unknown, left |-> 0]
NoReply == [kind |-> "none", proc |-> Unknown, host |-> "", ip |-> ""]

GroupIds == DOMAIN groups
learned(ip) == {i \in GroupIds : ips[ip][i] > 0}

Init ==
    /\ activity \in {"dns", "tls", "quic", "proxy"}
    /\ \E raw \in RawRules :
         /\ groups = [i \in DOMAIN raw |-> NormalizeGroup(raw[i])]
         /\ Validate([i \in DOMAIN raw |-> NormalizeGroup(raw[i])])
    /\ ips = [a \in IPs |-> [i \in GroupIds |-> 0]]
    /\ known = [a \in IPs |-> [h \in Hosts |-> 0]]
    /\ seeds = [a \in IPs |-> [i \in GroupIds |-> 0]]
    /\ conn = NoConn /\ owed = 0 /\ route = NoRoute /\ tls = NoState /\ reset = NoReset
    /\ quic = [a \in IPs |-> [block |-> 0, cool |-> 0]]
    /\ firstQuic = [a \in IPs |-> 0]
    /\ reply = NoReply

----------------------------------------------------------------------------
(* The tracker.                                                            *)

clampTTL(ttl) == IF ttl < MinTTL THEN MinTTL ELSE IF ttl > Day THEN Day ELSE ttl

\* An entry is only ever prolonged.
Overwrite(old, new) == new
Later(old, new) == IF old < new THEN new ELSE old

AddGroups(addrs, gs, ttl) ==
    [a \in IPs |-> [i \in GroupIds |->
        IF a \in addrs /\ i \in gs THEN Later(ips[a][i], clampTTL(ttl)) ELSE ips[a][i]]]

Observed(addrs, hs, ttl) ==
    [a \in IPs |-> [h \in Hosts |->
        IF a \in addrs /\ h \in hs THEN Max({known[a][h], ttl}) ELSE known[a][h]]]

GroupsForNames(hs) == UNION {NameGroups(groups, h) : h \in hs}

RoomForFacts ==
      Cardinality({f \in IPs \X Hosts : known[f[1]][f[2]] > 0})
    + Cardinality({f \in IPs \X GroupIds : seeds[f[1]][f[2]] > 0}) < MaxFacts

\* ParseDNSResponse: the smallest TTL of the address records, or five minutes when
\* none is below a day.
ResponseTTL(answers) ==
    LET least == Min({Day} \cup {answers[a] : a \in DOMAIN answers})
    IN  IF least = Day THEN FiveMinutes ELSE least

\* What the reference says of the same response.
RecordLife(answers) ==
    LET least == Min({answers[a] : a \in DOMAIN answers})
    IN  IF least >= Day THEN FiveMinutes ELSE Max({least, MinTTL})

\* dnsLoop: the question and the CNAME target are the names of the response; one that
\* matches no group brings no address.
dnsLoop(hs, answers) ==
    /\ activity = "dns" /\ RoomForFacts
    /\ ips' = IF \E h \in hs : NameGroups(groups, h) # {}
              THEN AddGroups(DOMAIN answers, GroupsForNames(hs), ResponseTTL(answers))
              ELSE ips
    /\ known' = Observed(DOMAIN answers, hs, RecordLife(answers))
    /\ UNCHANGED <<activity, groups, seeds, flow, windows>>

\* ResolveBootstrap: every group looks the bases of its patterns up for itself, one after the
\* other; a lookup that fails is passed over, and two of one name may get different addresses.
\* The group learns an address even when a wildcard does not match the base.
Seeded == {i \in GroupIds : ~DomainsAll(groups[i]) /\ groups[i].domains \cap {"root", "*.root"} # {}}
ResolveBootstrap(i, addrs) ==
    /\ activity = "dns" /\ RoomForFacts /\ i \in Seeded
    /\ ips' = AddGroups(addrs, {i}, FiveMinutes)
    /\ seeds' = [a \in IPs |-> [j \in GroupIds |->
                   IF a \in addrs /\ j = i THEN FiveMinutes ELSE seeds[a][j]]]
    /\ UNCHANGED <<activity, groups, known, flow, windows>>

----------------------------------------------------------------------------
(* The connections to port 443 of the server from one local port.  Whose they *)
(* are only shows in what the flow index answers for who (module FlowIndex).  *)

\* captureLoop's switch: the sticky entry, whatever connection made it, or a decision.  The
\* flow index is asked only without an entry; otherwise who is the entry's program.
Entry(who) ==
    IF route # NoRoute THEN route
    ELSE [to |-> IF Decide(groups, who, Server, learned(Server)) THEN "tunnel" ELSE "direct",
          proc |-> who]

\* A program opens a connection: its SYN is captured and decided.
Open(who, host, start) ==
    /\ activity = "tls" /\ conn.state # "open" /\ RoomForFacts /\ owed < MaxOwed
    /\ conn' = [state |-> "open", host |-> host, start |-> start, sent |-> 0,
                clean |-> tls.life = 0, got |-> FALSE]
    /\ route # NoRoute => who = route.proc
    /\ route' = Entry(who)
    /\ UNCHANGED <<activity, groups, table, owed, tls, reset, windows>>

Closed(c) == [c EXCEPT !.state = "closed", !.clean = FALSE, !.got = FALSE]

\* captureLoop for n data bytes from position pos of the connection: the entry, then the
\* ClientHello of a direct connection, then the reset of one that belongs in the tunnel.
\* after is the connection once the packet has been sent.
Capture(c, pos, n, who, after) ==
    LET first  == route = NoRoute
        e      == Entry(who)
        tunnel == e.to = "tunnel"
        fed    == ~tunnel /\ e.proc # Unknown /\ NeedsTLSDiscovery(groups, e.proc)
        s      == IF tls.life = 0 THEN NewState(TlsLife) ELSE tls
        t      == IF fed THEN Feed(s, (c.start + pos) % SeqMod, pos, n, c.host) ELSE tls
        found  == fed /\ t.done /\ t.name # ""
        gs     == NameGroups(groups, t.name)
        named  == found /\ gs # {} /\ DecideHost(groups, e.proc, t.name)
        closed == named \/ (tunnel /\ first)
    IN  /\ ~first => who = e.proc
        /\ tls' = t
        /\ ips' = IF found THEN AddGroups({Server}, gs, HalfHour) ELSE ips
        /\ known' = IF found THEN Observed({Server}, {t.name}, HalfHour) ELSE known
        /\ route' = IF closed THEN NoRoute ELSE e
        /\ reset' = IF named THEN [proc |-> e.proc, left |-> HalfHour] ELSE reset
        /\ conn' = IF after = NoConn THEN NoConn
                   ELSE IF closed THEN Closed(after)
                   ELSE [after EXCEPT !.got = @ \/ (fed /\ t.done /\ t.name = c.host)]
        /\ owed' = IF closed /\ after # NoConn THEN owed + 1 ELSE owed
        /\ UNCHANGED <<activity, groups, seeds, windows>>

\* The next bytes of the ClientHello.
SendSegment(n, who) ==
    /\ conn.state = "open" /\ conn.sent + n <= HelloLen
    /\ Capture(conn, conn.sent, n, who, [conn EXCEPT !.sent = @ + n])

\* The driver's queue was full and it let the segment pass unseen.
MissSegment(n) ==
    /\ conn.state = "open" /\ conn.sent + n <= HelloLen
    /\ conn' = [conn EXCEPT !.sent = @ + n, !.clean = FALSE]
    /\ UNCHANGED <<activity, groups, table, owed, route, tls, reset, windows>>

\* Bytes sent before are sent again, possibly together with new ones; when the sequence
\* numbers wrapped in between, FeedTLS takes them for a gap.
Wrapped(c, pos) == (c.start + pos) % SeqMod >= (c.start + c.sent) % SeqMod
Retransmit(pos, n, who) ==
    /\ conn.state = "open" /\ pos < conn.sent /\ pos + n <= HelloLen
    /\ Capture(conn, pos, n, who, [conn EXCEPT !.sent = Max({conn.sent, pos + n}),
                                                !.clean = @ /\ ~Wrapped(conn, pos)])

Close ==
    /\ conn.state = "open"
    /\ conn' = Closed(conn) /\ owed' = owed + 1
    /\ UNCHANGED <<activity, groups, table, route, tls, reset, windows>>

\* The last packet of a connection that is gone, read after FLOW_DELETED or after its reset.
LatePacket(n, who) ==
    /\ conn.state = "closed" /\ n <= conn.sent
    /\ Capture(conn, conn.sent - n, n, who, NoConn)

\* flowLoop: the FLOW_DELETED of a connection that is gone drops the route and the discovery
\* state of the 5-tuple, be it that of the next connection, in the middle of its ClientHello.
FlowDeleted ==
    /\ owed > 0
    /\ owed' = owed - 1 /\ tls' = NoState /\ route' = NoRoute
    /\ conn' = IF conn.state = "open" THEN [conn EXCEPT !.clean = conn.sent = 0] ELSE conn
    /\ UNCHANGED <<activity, groups, table, reset, windows>>

----------------------------------------------------------------------------
(* QUIC and the proxy.                                                     *)

\* SuppressUnknownQUIC: the first contact opens the two windows.
WindowsRenewed(addr) == [block |-> QuicBlock, cool |-> QuicCool]
Windows(addr) ==
    IF quic[addr].cool = 0 THEN [block |-> QuicBlock, cool |-> QuicCool] ELSE quic[addr]

\* captureLoop for a packet to UDP port 443 with a new flow; aggressiveDiscovery is a setting.
QuicPacket(proc, addr, aggressive) ==
    LET tunnel == Decide(groups, proc, addr, learned(addr))
        asks   == aggressive /\ proc # Unknown /\ ShouldSuppressQUIC(groups, proc) /\ ~tunnel
        w      == Windows(addr)
        drop   == asks /\ w.block > 0
    IN  /\ activity = "quic"
        /\ quic' = IF asks THEN [quic EXCEPT ![addr] = w] ELSE quic
        /\ firstQuic' = IF drop /\ firstQuic[addr] = 0 THEN [firstQuic EXCEPT ![addr] = 1] ELSE firstQuic
        /\ reply' = [kind |-> IF drop THEN "dropped" ELSE IF tunnel THEN "tunnel" ELSE "direct",
                     proc |-> proc, host |-> "", ip |-> addr]
        /\ UNCHANGED <<activity, groups, table, flow>>

\* AuthorizeProxyClient; a client that could not be attributed is Process{}.
AuthorizeProxyClient(proc, host) == DecideHost(groups, proc, host)

\* handleConnect and handleHTTP up to the dial.  No property says that the answer is what the
\* rules mean: see DecideHost.
ProxyRequest(proc, host) ==
    /\ activity = "proxy"
    /\ reply' = [kind |-> IF ~matchesHost(groups, host) THEN "refused"
                          ELSE IF AuthorizeProxyClient(proc, host) THEN "tunnel" ELSE "direct",
                 proc |-> proc, host |-> host, ip |-> ""]
    /\ UNCHANGED <<activity, groups, table, flow, quic, firstQuic>>

----------------------------------------------------------------------------
(* Time.                                                                   *)

Less(t) == IF t = 0 THEN 0 ELSE t - 1

Tick ==
    /\ ips' = [a \in IPs |-> [i \in GroupIds |-> Less(ips[a][i])]]
    /\ known' = [a \in IPs |-> [h \in Hosts |-> Less(known[a][h])]]
    /\ seeds' = [a \in IPs |-> [i \in GroupIds |-> Less(seeds[a][i])]]
    /\ tls' = [tls EXCEPT !.life = Less(@)]
    /\ conn' = [conn EXCEPT !.clean = @ /\ ~(tls.life = 1 /\ ~tls.done)]
    /\ reset' = IF reset.left <= 1 THEN NoReset ELSE [reset EXCEPT !.left = @ - 1]
    /\ quic' = [a \in IPs |-> [block |-> Less(quic[a].block), cool |-> Less(quic[a].cool)]]
    /\ firstQuic' = [a \in IPs |-> IF firstQuic[a] \in {0, QuicCool} THEN 0 ELSE firstQuic[a] + 1]
    /\ reply' = NoReply
    /\ UNCHANGED <<activity, groups, owed, route>>

\* Discovery.Sweep and Tracker.Sweep drop what has expired.
Sweep ==
    /\ tls.life = 0 /\ tls # NoState
    /\ tls' = NoState
    /\ UNCHANGED <<activity, groups, table, conn, owed, route, reset, windows>>

Next ==
    \/ \E hs \in {{q, c} : q, c \in Hosts}, A \in (SUBSET IPs) \ {{}} :
         \E ttl \in [A -> TTLs] : dnsLoop(hs, ttl)
    \/ \E i \in GroupIds, A \in (SUBSET IPs) \ {{}} : ResolveBootstrap(i, A)
    \/ \E who \in Procs, h \in Hosts, st \in Starts : Open(who, h, st)
    \/ \E n \in 1 .. HelloLen :
         \/ MissSegment(n)
         \/ \E who \in Procs : \/ SendSegment(n, who)
                               \/ LatePacket(n, who)
                               \/ \E pos \in 0 .. HelloLen : Retransmit(pos, n, who)
    \/ Close \/ FlowDeleted
    \/ \E p \in Procs, a \in IPs, aggressive \in BOOLEAN : QuicPacket(p, a, aggressive)
    \/ \E p \in Procs, h \in Hosts : ProxyRequest(p, h)
    \/ Tick
    \/ Sweep

Spec == Init /\ [][Next]_vars

----------------------------------------------------------------------------
(* Properties.                                                             *)

\* What a rule says, read off the configuration without its indices.
Selects(g, p) == "*" \in g.apps \/ p.name \in g.apps \/ p.path \in g.apps
BelongsTo(i, a) ==
    \/ "*" \in groups[i].domains
    \/ a \in groups[i].networks
    \/ \E h \in Hosts : known[a][h] > 0 /\ \E p \in groups[i].domains : MatchDomainPattern(p, h)
    \/ seeds[a][i] > 0

\* A packet is tunnelled exactly when some group selects its program and its destination,
\* where an address counts as a domain's as long as an observation of it (DNS answer, CNAME,
\* ClientHello, or the group's own bootstrap lookup) is alive, whatever order the observations
\* came and expired in; and the shortcut that skips the process lookup never tunnels what the
\* rules would not.  Of two groups with one domain, one may have learned an address from its
\* bootstrap lookup that the other has not.  Decide, candidateSlices, ContainsGroup, AddGroups.
DecideFollowsRules ==
    \A a \in IPs :
      /\ \A p \in Procs :
           Decide(groups, p, a, learned(a)) <=>
             \E i \in GroupIds : Selects(groups[i], p) /\ BelongsTo(i, a)
      /\ CouldTunnelWithoutProcess(groups, a, learned(a)) =>
           \A p \in Procs : Decide(groups, p, a, learned(a))

\* Once a direct connection has sent its whole ClientHello, and the program its sticky entry
\* names has host rules, the name is known, however the ClientHello was cut into segments and
\* whatever was sent twice, also when the sequence numbers wrap inside it.  The entry may be an
\* earlier connection's: one made without an attribution hides the name.  Not covered (clean): a
\* segment the driver let pass, bytes sent again after the wrap, a ClientHello that takes longer
\* than the state lives, a state that an earlier connection left on the 5-tuple, and the
\* FLOW_DELETED of an earlier connection in mid-ClientHello.  FeedTLS, captureLoop, flowLoop.
HelloFound ==
    (/\ conn.state = "open" /\ conn.sent = HelloLen /\ conn.clean
     /\ route.to = "direct" /\ route.proc # Unknown /\ NeedsTLSDiscovery(groups, route.proc))
        => conn.got

\* A connection is reset for its name only if the next one that is attributed to the same
\* program is tunnelled, for as long as the name was learned for; and so no entry that could
\* repeat the reset is on the 5-tuple in that time, whatever late events and packets come.  The
\* program is the sticky entry's: when that was another connection's, the program that really
\* was reset may be direct again, and is then left alone.  captureLoop.
ResetLeadsToTunnel ==
    reset.left > 0 => /\ Decide(groups, reset.proc, Server, learned(Server))
                      /\ route # [to |-> "direct", proc |-> reset.proc]

\* QUIC to an address is dropped for a first short window only and then left alone for the
\* cooldown, however often the program tries.  SuppressUnknownQUIC.
QuicDroppedBriefly == reply.kind = "dropped" => firstQuic[reply.ip] <= QuicBlock
=============================================================================
