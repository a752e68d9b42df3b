----------------------------- MODULE Engine_proofs -----------------------------
(***************************************************************************)
(* The engine's packet path, for any number of connections and any queue     *)
(* sizes: the route captureLoop gives a packet (FlowRouting), and the two    *)
(* queues a tunnelled packet then waits in (SendQueues).                     *)
(*                                                                         *)
(* Routing.  That a connection keeps its route is not inductive: it rests on *)
(* the order in which a connection's packets come (InOrder: after data no    *)
(* SYN), on where captureLoop stands (Loop), and on the stages of a          *)
(* connection (CalmInv): nothing decided and nothing sent; decided, and all  *)
(* that left took the route; cut off by a reset or older than SplitWire,     *)
(* when all that left went DIRECT, a new decision for the tunnel is made     *)
(* only by a packet that is answered with a reset, and the route it sets is  *)
(* gone before the next packet; or over.                                    *)
(*                                                                         *)
(* Queues.  Neither waiting bound is inductive: how much of it is left       *)
(* depends on where sendLoop stands, which Position records.                 *)
(***************************************************************************)
EXTENDS FlowRouting, SendQueues, SequenceTheorems, TLAPS

(* Types, with the kinds of packets the queue holds.                         *)
Kinds == {"syn", "hello", "data", "fin"}
Types ==
    /\ proto \in {"tcp", "udp"} /\ global \in BOOLEAN
    /\ conn \in Nat /\ phase \in {"closed", "syn", "open", "closing"} /\ spoke \in BOOLEAN
    /\ net \in Seq(Kinds) /\ deletions \in Nat /\ deleting \in BOOLEAN
    /\ proxyRoute \in Route \cup {None}
    /\ route = NoRoute \/ route.to \in Route
    /\ sni \in {"none", "match", "other"}
    /\ pc \in {"recv", "proxied", "sticky", "attribute", "decide", "act"}
    /\ pkt \in Kinds \cup {NoPacket} /\ to \in Route /\ first \in BOOLEAN /\ missed \in BOOLEAN

(* A connection's packets are captured in the order it sends them: SYNs, then  *)
(* ClientHellos, then other data, then a FIN; how far it is says Stage.        *)
Rank(k) == CASE k = "syn" -> 0 [] k = "hello" -> 1 [] k = "data" -> 2 [] k = "fin" -> 3
Stage == CASE phase = "syn" -> 0
           [] phase = "open" -> IF spoke \/ proto = "udp" THEN 2 ELSE 1
           [] OTHER -> 3
InOrder ==
    /\ \A i, j \in 1 .. Len(net) : i <= j => Rank(net[i]) <= Rank(net[j])
    /\ \A i \in 1 .. Len(net) : /\ Rank(net[i]) <= Stage
                                /\ net[i] = "hello" => proto = "tcp"
                                /\ pkt # NoPacket => Rank(pkt) <= Rank(net[i])
    /\ pkt # NoPacket => Rank(pkt) <= Stage /\ (pkt = "hello" => proto = "tcp")
    /\ phase = "syn" => proto = "tcp"

(* Where captureLoop stands with its packet and its route.                     *)
Loop ==
    /\ pc = "recv" <=> pkt = NoPacket
    /\ proxyRoute # None => owner = "self" /\ phase \in {"syn", "open"}
                            /\ pc \in {"recv", "proxied", "act"} /\ proc = None /\ ~first
    /\ pc = "proxied" => owner = "self"
    /\ pc \in {"recv", "proxied", "sticky"} => ~first /\ proc = None
    /\ pc \in {"attribute", "decide"} => route = NoRoute /\ first
    /\ pc = "act" /\ owner # "self" /\ route # NoRoute => route.to = to

Base == Types /\ InOrder /\ Loop

NoSyn == pkt # "syn" /\ phase # "syn" /\ \A i \in 1 .. Len(net) : net[i] # "syn"

(* Once data has left DIRECT no later packet is a SYN, and a route to the       *)
(* tunnel is only made by the packet that is about to be answered by a reset.   *)
DirectInv ==
    proto = "tcp" /\ owner # "self" /\ Payload("direct") # {} =>
       /\ NoSyn
       /\ route.to = "wg" => pc = "act" /\ to = "wg"
       /\ pc = "act" /\ to = "wg" => first

(* A tlsState that has seen other data has no ClientHello to come.             *)
NoHello == /\ pkt # "hello" /\ phase # "syn" /\ (phase = "open" => spoke)
           /\ \A i \in 1 .. Len(net) : net[i] # "hello"
HelloInv == /\ world # "reuse" /\ sni = "other" => NoHello
            /\ HelloKept

(* The life of a connection in a calm world.                                  *)
Settled(t) == \A x \in left : x.to = t
NoDeletion == deletions = 0 /\ ~deleting
Over == phase = "closed" /\ net = <<>> /\ pc = "recv"
Undecided ==
    /\ left = {} /\ route = NoRoute /\ NoDeletion /\ pc # "act"
    /\ pc = "proxied" /\ proxyRoute # None => to = proxyRoute
Decided ==
    /\ route # NoRoute /\ Settled(route.to) /\ NoDeletion
    /\ proxyRoute # None => proxyRoute = route.to
    /\ pc \in {"proxied", "act"} => to = route.to
    /\ first => left = {} /\ pc = "act"
Cut ==
    /\ proto = "tcp" /\ Settled("direct") /\ NoSyn /\ proxyRoute = None /\ pc # "proxied"
    /\ route.to = "wg" => pc = "act" /\ to = "wg"
    /\ pc = "act" /\ to = "wg" => first
CalmInv == world = "calm" =>
              RouteIsSticky /\ (Over \/ Undecided \/ Decided \/ Cut)

RInv == Base /\ DirectInv /\ HelloInv /\ CalmInv

----------------------------------------------------------------------------
(* Ranks of packets, and how far a connection is.                             *)
LEMMA Ranks ==
    /\ Rank("syn") = 0 /\ Rank("hello") = 1 /\ Rank("data") = 2 /\ Rank("fin") = 3
    /\ \A k \in Kinds : Rank(k) \in 0 .. 3
    /\ NoPacket \notin Kinds
<1>1. Rank("syn") = 0 /\ Rank("hello") = 1 /\ Rank("data") = 2 /\ Rank("fin") = 3
  BY DEF Rank
<1>2. QED BY <1>1 DEF Kinds, NoPacket

(* How far a connection is, by its phase.                                     *)
LEMMA Stages ==
    ASSUME Types
    PROVE  /\ Stage \in 0 .. 3
           /\ phase = "syn" => Stage = 0
           /\ phase = "open" /\ (spoke \/ proto = "udp") => Stage = 2
           /\ phase = "open" /\ ~(spoke \/ proto = "udp") => Stage = 1
           /\ phase \in {"closed", "closing"} => Stage = 3
  BY DEF Types, Stage

(* A packet sent joins the end of the queue.                                  *)
LEMMA OrderSent ==
    ASSUME NEW k \in Kinds, Types, InOrder, Stage' \in 0 .. 3, net' = Append(net, k), pkt' = pkt,
           proto' = proto, Stage <= Rank(k), Rank(k) <= Stage', k = "hello" => proto = "tcp",
           phase' = "syn" => proto = "tcp"
    PROVE  InOrder' /\ net' \in Seq(Kinds)
<1>1. net \in Seq(Kinds) /\ Len(net) \in Nat /\ pkt \in Kinds \cup {NoPacket}
  BY DEF Types
<1>2. net' \in Seq(Kinds) /\ Len(net') = Len(net) + 1 /\ net'[Len(net) + 1] = k
      /\ \A i \in 1 .. Len(net) : net'[i] = net[i]
  BY <1>1
<1>3. Stage \in 0 .. 3 /\ \A i \in 1 .. Len(net) : net[i] \in Kinds
  BY <1>1, Stages
<1>4. \A i \in 1 .. Len(net') : i = Len(net) + 1 \/ i \in 1 .. Len(net)
  BY <1>1, <1>2
<1>5. \A i \in 1 .. Len(net) : Rank(net[i]) <= Rank(k)
  BY <1>3, Ranks DEF InOrder
<1>6. pkt # NoPacket => Rank(pkt) <= Rank(k)
  BY <1>1, <1>3, Ranks DEF InOrder
<1>7. \A i \in 1 .. Len(net') :
         Rank(net'[i]) <= Stage' /\ (net'[i] = "hello" => proto = "tcp")
         /\ (pkt # NoPacket => Rank(pkt) <= Rank(net'[i]))
  BY <1>2, <1>3, <1>4, <1>5, <1>6, Ranks DEF InOrder
<1>8. \A i, j \in 1 .. Len(net') : i <= j => Rank(net'[i]) <= Rank(net'[j])
  <2> SUFFICES ASSUME NEW i \in 1 .. Len(net'), NEW j \in 1 .. Len(net'), i <= j
               PROVE  Rank(net'[i]) <= Rank(net'[j])
    OBVIOUS
  <2>1. CASE j = Len(net) + 1
    BY <1>2, <1>4, <1>5, <2>1, Ranks
  <2>2. CASE j # Len(net) + 1
    BY <1>1, <1>2, <1>4, <2>2 DEF InOrder
  <2>3. QED BY <2>1, <2>2
<1>9. pkt # NoPacket => Rank(pkt) <= Stage'
  BY <1>1, <1>3, <1>6, Ranks
<1>10. QED BY <1>2, <1>7, <1>8, <1>9 DEF InOrder

(* A connection that goes on leaves the queue in order.                        *)
LEMMA OrderKept ==
    ASSUME Types, InOrder, Stage' \in 0 .. 3, Stage <= Stage', net' = net, pkt' \in {pkt, NoPacket},
           proto' = proto, phase' = "syn" => proto = "tcp"
    PROVE  InOrder'
<1>1. Stage \in 0 .. 3 /\ \A i \in 1 .. Len(net) : net[i] \in Kinds
  BY Stages DEF Types
<1>2. pkt # NoPacket => Rank(pkt) \in 0 .. 3
  BY Ranks DEF Types
<1>3. QED BY <1>1, <1>2, Ranks DEF InOrder

(* captureLoop takes the first packet.                                        *)
LEMMA OrderTaken ==
    ASSUME Types, InOrder, Stage' = Stage, net # <<>>, pkt' = Head(net), net' = Tail(net),
           UNCHANGED <<proto, phase>>
    PROVE  InOrder' /\ net' \in Seq(Kinds) /\ pkt' \in Kinds
<1>1. net \in Seq(Kinds)
  BY DEF Types
<1>2. net' \in Seq(Kinds) /\ Len(net') = Len(net) - 1 /\ Len(net) \in Nat \ {0} /\ pkt' = net[1]
      /\ \A i \in 1 .. Len(net') : net'[i] = net[i + 1]
  <2>1. net' \in Seq(Kinds) /\ Len(net') = Len(net) - 1
        /\ \A i \in 1 .. Len(net') : net'[i] = net[i + 1]
    BY <1>1, HeadTailProperties, Zenon
  <2>2. Len(net) \in Nat \ {0}
    BY <1>1, EmptySeq, Zenon
  <2>3. pkt' = net[1]
    BY <1>1
  <2>4. QED BY <2>1, <2>2, <2>3
<1>3. \A i \in 1 .. Len(net') : i + 1 \in 1 .. Len(net) /\ 1 <= i + 1
  BY <1>2
<1>4. 1 \in 1 .. Len(net) /\ pkt' \in Kinds
  BY <1>1, <1>2
<1>5. \A i, j \in 1 .. Len(net') : i <= j => Rank(net'[i]) <= Rank(net'[j])
  BY <1>2, <1>3 DEF InOrder
<1>6. \A i \in 1 .. Len(net') : Rank(net'[i]) <= Stage /\ (net'[i] = "hello" => proto = "tcp")
                                /\ Rank(pkt') <= Rank(net'[i])
  BY <1>2, <1>3, <1>4 DEF InOrder
<1>7. Rank(pkt') <= Stage /\ (pkt' = "hello" => proto = "tcp")
  BY <1>2, <1>4 DEF InOrder
<1>8. QED BY <1>2, <1>4, <1>5, <1>6, <1>7 DEF InOrder

(* The first states: nothing captured yet; a TCP connection older than          *)
(* SplitWire has data that left DIRECT.                                        *)
LEMMA InitInv == Init => RInv
<1> SUFFICES ASSUME Init PROVE RInv
  OBVIOUS
<1>1. Types
  <2>1. global \in BOOLEAN /\ spoke \in BOOLEAN /\ deleting \in BOOLEAN /\ first \in BOOLEAN
        /\ missed \in BOOLEAN
    BY FlowAssumption, Zenon DEF Init
  <2>2. QED BY <2>1, FlowAssumption DEF Init, Types, Route, None, NoRoute, NoPacket, Kinds
<1>2. InOrder
  BY FlowAssumption DEF Init, InOrder, NoPacket
<1>3. ~first /\ ~deleting /\ net = <<>> /\ Len(net) = 0
  BY DEF Init
<1>4. Loop
  BY <1>3 DEF Init, Loop, NoPacket
<1>5. DirectInv
  BY <1>3 DEF Init, DirectInv, NoSyn, Payload, NoRoute, None, NoPacket
<1>6. HelloInv
  BY <1>3 DEF Init, HelloInv, HelloKept
<1>7. CalmInv
  <2>1. CASE conn = 0
    BY <1>3, <2>1 DEF Init, CalmInv, RouteIsSticky, Over
  <2>2. CASE conn # 0 /\ proto = "tcp"
    BY <1>3, <2>2 DEF Init, CalmInv, RouteIsSticky, Cut, Settled, NoSyn, NoRoute, None, NoPacket
  <2>3. CASE conn # 0 /\ proto # "tcp"
    BY <1>3, <2>3 DEF Init, CalmInv, RouteIsSticky, Undecided, NoDeletion
  <2>4. QED BY <2>1, <2>2, <2>3
<1>8. QED BY <1>1, <1>2, <1>4, <1>5, <1>6, <1>7 DEF RInv, Base

(* The handshake ends.                                                         *)
LEMMA EstablishedStep == ASSUME RInv, Established PROVE RInv'
<1>0. Types /\ InOrder /\ Loop /\ DirectInv /\ HelloInv /\ CalmInv
  BY DEF RInv, Base
<1>1. Types'
  BY <1>0 DEF Types, Route, None, NoRoute, NoPacket, Established, envVars, eventVars, tables, loopVars, histVars
<1>2. InOrder'
  <2>1. Stage' \in 0 .. 3 /\ Stage <= Stage'
    BY <1>0, <1>1, Stages DEF Stage, Established, envVars, eventVars, tables, loopVars, histVars
  <2>2. net' = net /\ pkt' \in {pkt, NoPacket} /\ proto' = proto /\ (phase' = "syn" => phase = "syn")
    BY DEF Established, envVars, eventVars, tables, loopVars, histVars
  <2>3. QED BY <1>0, <2>1, <2>2, OrderKept DEF InOrder
<1>3. Loop'
  BY <1>0 DEF Types, Loop, Established, envVars, eventVars, tables, loopVars, histVars
<1>4. DirectInv'
  BY <1>0 DEF Types, DirectInv, NoSyn, Payload, Established, envVars, eventVars, tables, loopVars, histVars
<1>5. HelloInv'
  BY <1>0 DEF Types, HelloInv, HelloKept, NoHello, Established, envVars, eventVars, tables, loopVars, histVars
<1>6. CalmInv'
  BY <1>0 DEF Types, Loop, CalmInv, RouteIsSticky, Over, Undecided, Decided, Cut, Settled, NoDeletion, NoSyn, Established, envVars, eventVars, tables, loopVars, histVars
<1>7. QED BY <1>1, <1>2, <1>3, <1>4, <1>5, <1>6 DEF RInv, Base

(* The peer has answered the last packet.                                      *)
LEMMA GoneStep == ASSUME RInv, Gone PROVE RInv'
<1>0. Types /\ InOrder /\ Loop /\ DirectInv /\ HelloInv /\ CalmInv
  BY DEF RInv, Base
<1>1. Types'
  BY <1>0 DEF Types, Route, None, NoRoute, NoPacket, Gone, envVars, eventVars, tables, loopVars, histVars
<1>2. InOrder'
  <2>1. Stage' \in 0 .. 3 /\ Stage <= Stage'
    BY <1>0, <1>1, Stages DEF Stage, Gone, envVars, eventVars, tables, loopVars, histVars
  <2>2. net' = net /\ pkt' \in {pkt, NoPacket} /\ proto' = proto /\ (phase' = "syn" => phase = "syn")
    BY DEF Gone, envVars, eventVars, tables, loopVars, histVars
  <2>3. QED BY <1>0, <2>1, <2>2, OrderKept DEF InOrder
<1>3. Loop'
  BY <1>0 DEF Types, Loop, Gone, envVars, eventVars, tables, loopVars, histVars
<1>4. DirectInv'
  BY <1>0 DEF Types, DirectInv, NoSyn, Payload, Gone, envVars, eventVars, tables, loopVars, histVars
<1>5. HelloInv'
  BY <1>0 DEF Types, HelloInv, HelloKept, NoHello, Gone, envVars, eventVars, tables, loopVars, histVars
<1>6. CalmInv'
  BY <1>0 DEF Types, Loop, CalmInv, RouteIsSticky, Over, Undecided, Decided, Cut, Settled, NoDeletion, NoSyn, Gone, envVars, eventVars, tables, loopVars, histVars
<1>7. QED BY <1>1, <1>2, <1>3, <1>4, <1>5, <1>6 DEF RInv, Base

(* flowLoop forgets the route of a flow that has ended.                        *)
LEMMA DeletedStep == ASSUME RInv, FlowDeleted PROVE RInv'
<1>0. Types /\ InOrder /\ Loop /\ DirectInv /\ HelloInv /\ CalmInv
  BY DEF RInv, Base
<1>1. Types'
  <2>1. deleting' \in BOOLEAN
    BY <1>0, Zenon DEF Types, FlowDeleted, envVars, eventVars, tables, loopVars, histVars
  <2>2. QED BY <1>0, <2>1 DEF Types, Route, None, NoRoute, NoPacket, FlowDeleted, envVars, eventVars, tables, loopVars, histVars
<1>2. InOrder'
  <2>1. Stage' \in 0 .. 3 /\ Stage <= Stage'
    BY <1>0, <1>1, Stages DEF Stage, FlowDeleted, envVars, eventVars, tables, loopVars, histVars
  <2>2. net' = net /\ pkt' \in {pkt, NoPacket} /\ proto' = proto /\ (phase' = "syn" => phase = "syn")
    BY DEF FlowDeleted, envVars, eventVars, tables, loopVars, histVars
  <2>3. QED BY <1>0, <2>1, <2>2, OrderKept DEF InOrder
<1>3. Loop'
  BY <1>0 DEF Types, Loop, FlowDeleted, envVars, eventVars, tables, loopVars, histVars
<1>4. DirectInv'
  BY <1>0 DEF Types, DirectInv, NoSyn, Payload, None, NoRoute, FlowDeleted, envVars, eventVars, tables, loopVars, histVars
<1>5. HelloInv'
  BY <1>0 DEF Types, HelloInv, HelloKept, NoHello, FlowDeleted, envVars, eventVars, tables, loopVars, histVars
<1>6. CalmInv'
  BY <1>0 DEF Types, Loop, CalmInv, RouteIsSticky, Over, Undecided, Decided, Cut, Settled, NoDeletion, NoSyn, None, NoRoute, FlowDeleted, envVars, eventVars, tables, loopVars, histVars
<1>7. QED BY <1>1, <1>2, <1>3, <1>4, <1>5, <1>6 DEF RInv, Base

(* And its tlsState and its proxy route.                                       *)
LEMMA DeletedEndsStep == ASSUME RInv, FlowDeletedEnds PROVE RInv'
<1>0. Types /\ InOrder /\ Loop /\ DirectInv /\ HelloInv /\ CalmInv
  BY DEF RInv, Base
<1>1. Types'
  <2>1. deleting' \in BOOLEAN
    BY <1>0, Zenon DEF Types, FlowDeletedEnds, envVars, eventVars, tables, loopVars, histVars
  <2>2. QED BY <1>0, <2>1 DEF Types, Route, None, NoRoute, NoPacket, FlowDeletedEnds, envVars, eventVars, tables, loopVars, histVars
<1>2. InOrder'
  <2>1. Stage' \in 0 .. 3 /\ Stage <= Stage'
    BY <1>0, <1>1, Stages DEF Stage, FlowDeletedEnds, envVars, eventVars, tables, loopVars, histVars
  <2>2. net' = net /\ pkt' \in {pkt, NoPacket} /\ proto' = proto /\ (phase' = "syn" => phase = "syn")
    BY DEF FlowDeletedEnds, envVars, eventVars, tables, loopVars, histVars
  <2>3. QED BY <1>0, <2>1, <2>2, OrderKept DEF InOrder
<1>3. Loop'
  BY <1>0 DEF Types, Loop, FlowDeletedEnds, envVars, eventVars, tables, loopVars, histVars
<1>4. DirectInv'
  BY <1>0 DEF Types, DirectInv, NoSyn, Payload, FlowDeletedEnds, envVars, eventVars, tables, loopVars, histVars
<1>5. HelloInv'
  BY <1>0 DEF Types, HelloInv, HelloKept, NoHello, FlowDeletedEnds, envVars, eventVars, tables, loopVars, histVars
<1>6. CalmInv'
  BY <1>0 DEF Types, Loop, CalmInv, RouteIsSticky, Over, Undecided, Decided, Cut, Settled, NoDeletion, NoSyn, FlowDeletedEnds, envVars, eventVars, tables, loopVars, histVars
<1>7. QED BY <1>1, <1>2, <1>3, <1>4, <1>5, <1>6 DEF RInv, Base

(* What DNS and the rules teach is of no concern to a route that is set.       *)
LEMMA LearnStep == ASSUME RInv, DnsLearns \/ DomainExpires \/ SweepDiscovery PROVE RInv'
<1>0. Types /\ InOrder /\ Loop /\ DirectInv /\ HelloInv /\ CalmInv
  BY DEF RInv, Base
<1>1. Types'
  BY <1>0 DEF Types, Route, None, NoRoute, NoPacket, DnsLearns, DomainExpires, SweepDiscovery, envVars, eventVars, tables, loopVars, histVars
<1>2. InOrder'
  <2>1. Stage' \in 0 .. 3 /\ Stage <= Stage'
    BY <1>0, <1>1, Stages DEF Stage, DnsLearns, DomainExpires, SweepDiscovery, envVars, eventVars, tables, loopVars, histVars
  <2>2. net' = net /\ pkt' \in {pkt, NoPacket} /\ proto' = proto /\ (phase' = "syn" => phase = "syn")
    BY DEF DnsLearns, DomainExpires, SweepDiscovery, envVars, eventVars, tables, loopVars, histVars
  <2>3. QED BY <1>0, <2>1, <2>2, OrderKept DEF InOrder
<1>3. Loop'
  BY <1>0 DEF Types, Loop, DnsLearns, DomainExpires, SweepDiscovery, envVars, eventVars, tables, loopVars, histVars
<1>4. DirectInv'
  BY <1>0 DEF Types, DirectInv, NoSyn, Payload, DnsLearns, DomainExpires, SweepDiscovery, envVars, eventVars, tables, loopVars, histVars
<1>5. HelloInv'
  BY <1>0 DEF Types, HelloInv, HelloKept, NoHello, DnsLearns, DomainExpires, SweepDiscovery, envVars, eventVars, tables, loopVars, histVars
<1>6. CalmInv'
  BY <1>0 DEF Types, Loop, CalmInv, RouteIsSticky, Over, Undecided, Decided, Cut, Settled, NoDeletion, NoSyn, DnsLearns, DomainExpires, SweepDiscovery, envVars, eventVars, tables, loopVars, histVars
<1>7. QED BY <1>1, <1>2, <1>3, <1>4, <1>5, <1>6 DEF RInv, Base

(* Idle routes are swept when captureLoop has nothing to do.                   *)
LEMMA SweepStep == ASSUME RInv, SweepRoutes PROVE RInv'
<1>0. Types /\ InOrder /\ Loop /\ DirectInv /\ HelloInv /\ CalmInv
  BY DEF RInv, Base
<1>1. Types'
  BY <1>0 DEF Types, Route, None, NoRoute, NoPacket, SweepRoutes, envVars, eventVars, tables, loopVars, histVars
<1>2. InOrder'
  <2>1. Stage' \in 0 .. 3 /\ Stage <= Stage'
    BY <1>0, <1>1, Stages DEF Stage, SweepRoutes, envVars, eventVars, tables, loopVars, histVars
  <2>2. net' = net /\ pkt' \in {pkt, NoPacket} /\ proto' = proto /\ (phase' = "syn" => phase = "syn")
    BY DEF SweepRoutes, envVars, eventVars, tables, loopVars, histVars
  <2>3. QED BY <1>0, <2>1, <2>2, OrderKept DEF InOrder
<1>3. Loop'
  BY <1>0 DEF Types, Loop, SweepRoutes, envVars, eventVars, tables, loopVars, histVars
<1>4. DirectInv'
  BY <1>0 DEF Types, DirectInv, NoSyn, Payload, None, NoRoute, SweepRoutes, envVars, eventVars, tables, loopVars, histVars
<1>5. HelloInv'
  BY <1>0 DEF Types, HelloInv, HelloKept, NoHello, SweepRoutes, envVars, eventVars, tables, loopVars, histVars
<1>6. CalmInv'
  BY <1>0 DEF Types, Loop, CalmInv, RouteIsSticky, Over, Undecided, Decided, Cut, Settled, NoDeletion, NoSyn, SweepRoutes, envVars, eventVars, tables, loopVars, histVars
<1>7. QED BY <1>1, <1>2, <1>3, <1>4, <1>5, <1>6 DEF RInv, Base

(* A packet of the proxy.                                                      *)
LEMMA ProxiedStep == ASSUME RInv, Proxied PROVE RInv'
<1>0. Types /\ InOrder /\ Loop /\ DirectInv /\ HelloInv /\ CalmInv
  BY DEF RInv, Base
<1>1. Types'
  BY <1>0 DEF Types, Route, None, NoRoute, NoPacket, Proxied, SetRoute, envVars, eventVars, tables, loopVars, histVars
<1>2. InOrder'
  <2>1. Stage' \in 0 .. 3 /\ Stage <= Stage'
    BY <1>0, <1>1, Stages DEF Stage, Proxied, SetRoute, envVars, eventVars, tables, loopVars, histVars
  <2>2. net' = net /\ pkt' \in {pkt, NoPacket} /\ proto' = proto /\ (phase' = "syn" => phase = "syn")
    BY DEF Proxied, SetRoute, envVars, eventVars, tables, loopVars, histVars
  <2>3. QED BY <1>0, <2>1, <2>2, OrderKept DEF InOrder
<1>3. Loop'
  BY <1>0 DEF Types, Loop, Proxied, SetRoute, envVars, eventVars, tables, loopVars, histVars
<1>4. DirectInv'
  BY <1>0 DEF Types, DirectInv, NoSyn, Payload, Loop, None, NoRoute, Proxied, SetRoute, envVars, eventVars, tables, loopVars, histVars
<1>5. HelloInv'
  BY <1>0 DEF Types, HelloInv, HelloKept, NoHello, Proxied, SetRoute, envVars, eventVars, tables, loopVars, histVars
<1>6. CalmInv'
  BY <1>0 DEF Types, Loop, CalmInv, RouteIsSticky, Over, Undecided, Decided, Cut, Settled, NoDeletion, NoSyn, None, NoRoute, Route, Proxied, SetRoute, envVars, eventVars, tables, loopVars, histVars
<1>7. QED BY <1>1, <1>2, <1>3, <1>4, <1>5, <1>6 DEF RInv, Base

(* The sticky route.                                                           *)
LEMMA LookupStep == ASSUME RInv, Lookup PROVE RInv'
<1>0. Types /\ InOrder /\ Loop /\ DirectInv /\ HelloInv /\ CalmInv
  BY DEF RInv, Base
<1>1. Types'
  <2>1. first' \in BOOLEAN
    BY <1>0, Zenon DEF Types, Lookup, Sticky, envVars, eventVars, tables, loopVars, histVars
  <2>2. QED BY <1>0, <2>1 DEF Types, Route, None, NoRoute, NoPacket, Lookup, Sticky, envVars, eventVars, tables, loopVars, histVars
<1>2. InOrder'
  <2>1. Stage' \in 0 .. 3 /\ Stage <= Stage'
    BY <1>0, <1>1, Stages DEF Stage, Lookup, Sticky, envVars, eventVars, tables, loopVars, histVars
  <2>2. net' = net /\ pkt' \in {pkt, NoPacket} /\ proto' = proto /\ (phase' = "syn" => phase = "syn")
    BY DEF Lookup, Sticky, envVars, eventVars, tables, loopVars, histVars
  <2>3. QED BY <1>0, <2>1, <2>2, OrderKept DEF InOrder
<1>3. Loop'
  BY <1>0 DEF Types, Loop, Lookup, Sticky, envVars, eventVars, tables, loopVars, histVars
<1>4. DirectInv'
  BY <1>0 DEF Types, DirectInv, NoSyn, Payload, Lookup, Sticky, envVars, eventVars, tables, loopVars, histVars
<1>5. HelloInv'
  BY <1>0 DEF Types, HelloInv, HelloKept, NoHello, Lookup, Sticky, envVars, eventVars, tables, loopVars, histVars
<1>6. CalmInv'
  BY <1>0 DEF Types, Loop, CalmInv, RouteIsSticky, Over, Undecided, Decided, Cut, Settled, NoDeletion, NoSyn, Lookup, Sticky, envVars, eventVars, tables, loopVars, histVars
<1>7. QED BY <1>1, <1>2, <1>3, <1>4, <1>5, <1>6 DEF RInv, Base

(* The program is looked for.                                                  *)
LEMMA AttributeStep == ASSUME RInv, Attribute PROVE RInv'
<1>0. Types /\ InOrder /\ Loop /\ DirectInv /\ HelloInv /\ CalmInv
  BY DEF RInv, Base
<1>1. Types'
  BY <1>0 DEF Types, Route, None, NoRoute, NoPacket, Attribute, envVars, eventVars, tables, loopVars, histVars
<1>2. InOrder'
  <2>1. Stage' \in 0 .. 3 /\ Stage <= Stage'
    BY <1>0, <1>1, Stages DEF Stage, Attribute, envVars, eventVars, tables, loopVars, histVars
  <2>2. net' = net /\ pkt' \in {pkt, NoPacket} /\ proto' = proto /\ (phase' = "syn" => phase = "syn")
    BY DEF Attribute, envVars, eventVars, tables, loopVars, histVars
  <2>3. QED BY <1>0, <2>1, <2>2, OrderKept DEF InOrder
<1>3. Loop'
  BY <1>0 DEF Types, Loop, Attribute, envVars, eventVars, tables, loopVars, histVars
<1>4. DirectInv'
  BY <1>0 DEF Types, DirectInv, NoSyn, Payload, Attribute, envVars, eventVars, tables, loopVars, histVars
<1>5. HelloInv'
  BY <1>0 DEF Types, HelloInv, HelloKept, NoHello, Attribute, envVars, eventVars, tables, loopVars, histVars
<1>6. CalmInv'
  BY <1>0 DEF Types, Loop, CalmInv, RouteIsSticky, Over, Undecided, Decided, Cut, Settled, NoDeletion, NoSyn, Attribute, envVars, eventVars, tables, loopVars, histVars
<1>7. QED BY <1>1, <1>2, <1>3, <1>4, <1>5, <1>6 DEF RInv, Base

(* The first packet decides.                                                   *)
LEMMA DecideStep == ASSUME RInv, DecideRoute PROVE RInv'
<1>0. Types /\ InOrder /\ Loop /\ DirectInv /\ HelloInv /\ CalmInv
  BY DEF RInv, Base
<1>1. Types'
  BY <1>0 DEF Types, Route, None, NoRoute, NoPacket, DecideRoute, SetRoute, Decide, envVars, eventVars, tables, loopVars, histVars
<1>2. InOrder'
  <2>1. Stage' \in 0 .. 3 /\ Stage <= Stage'
    BY <1>0, <1>1, Stages DEF Stage, DecideRoute, SetRoute, Decide, envVars, eventVars, tables, loopVars, histVars
  <2>2. net' = net /\ pkt' \in {pkt, NoPacket} /\ proto' = proto /\ (phase' = "syn" => phase = "syn")
    BY DEF DecideRoute, SetRoute, Decide, envVars, eventVars, tables, loopVars, histVars
  <2>3. QED BY <1>0, <2>1, <2>2, OrderKept DEF InOrder
<1>3. Loop'
  BY <1>0 DEF Types, Loop, DecideRoute, SetRoute, Decide, envVars, eventVars, tables, loopVars, histVars
<1>4. DirectInv'
  BY <1>0 DEF Types, DirectInv, NoSyn, Payload, Loop, None, NoRoute, DecideRoute, SetRoute, Decide, envVars, eventVars, tables, loopVars, histVars
<1>5. HelloInv'
  BY <1>0 DEF Types, HelloInv, HelloKept, NoHello, DecideRoute, SetRoute, Decide, envVars, eventVars, tables, loopVars, histVars
<1>6. CalmInv'
  BY <1>0 DEF Types, Loop, CalmInv, RouteIsSticky, Over, Undecided, Decided, Cut, Settled, NoDeletion, NoSyn, None, NoRoute, Route, DecideRoute, SetRoute, Decide, envVars, eventVars, tables, loopVars, histVars
<1>7. QED BY <1>1, <1>2, <1>3, <1>4, <1>5, <1>6 DEF RInv, Base

(* What is not in a queue and is not sent will not be received.                *)
LEMMA NotSent ==
    ASSUME NEW q \in Seq(Kinds), NEW k \in Kinds, NEW x, x # k, \A i \in 1 .. Len(q) : q[i] # x
    PROVE  \A i \in 1 .. Len(Append(q, k)) : Append(q, k)[i] # x
<1>1. Len(Append(q, k)) = Len(q) + 1 /\ Append(q, k)[Len(q) + 1] = k
      /\ \A i \in 1 .. Len(q) : Append(q, k)[i] = q[i]
  OBVIOUS
<1>2. \A i \in 1 .. Len(q) + 1 : i = Len(q) + 1 \/ i \in 1 .. Len(q)
  OBVIOUS
<1>3. QED BY <1>1, <1>2

(* And what is not in a queue is not received from it.                         *)
LEMMA NotReceived ==
    ASSUME NEW q \in Seq(Kinds), q # <<>>, NEW x, \A i \in 1 .. Len(q) : q[i] # x
    PROVE  Head(q) # x /\ \A i \in 1 .. Len(Tail(q)) : Tail(q)[i] # x
<1>1. Len(Tail(q)) = Len(q) - 1 /\ \A i \in 1 .. Len(Tail(q)) : Tail(q)[i] = q[i + 1]
  BY HeadTailProperties, Zenon
<1>2. Len(q) \in Nat \ {0}
  BY EmptySeq, Zenon
<1>3. Head(q) = q[1] /\ 1 \in 1 .. Len(q)
  BY <1>2
<1>4. \A i \in 1 .. Len(Tail(q)) : i + 1 \in 1 .. Len(q)
  BY <1>1, <1>2
<1>5. QED BY <1>1, <1>3, <1>4

(* The first packet of a connection.                                          *)
LEMMA OrderOpened ==
    ASSUME NEW k \in Kinds, net = <<>>, pkt = NoPacket, pkt' = pkt, net' = Append(net, k),
           Rank(k) <= Stage', k # "hello", phase' = "syn" => proto' = "tcp"
    PROVE  InOrder' /\ net' \in Seq(Kinds)
<1>1. net' = <<k>> /\ net' \in Seq(Kinds) /\ Len(net') = 1 /\ net'[1] = k
  OBVIOUS
<1>2. \A i \in 1 .. Len(net') : i = 1
  BY <1>1
<1>3. QED BY <1>1, <1>2, Ranks DEF InOrder

(* A program or the proxy opens a connection: nothing has left of it yet.      *)
LEMMA OpenStep ==
    ASSUME RInv, (\E p \in {"app", "other"} : ProgramOpens(p)) \/ (\E t \in Route : ProxyDials(t))
    PROVE  RInv'
<1>0. Types /\ InOrder /\ Loop /\ HelloInv
  BY DEF RInv, Base
<1>1. PICK p \in {"app", "other", "self"} : Opens(p) /\ proxyRoute' \in Route \cup {None}
        /\ (proxyRoute' # None => p = "self")
  <2>1. phase = "closed" => proxyRoute = None
    BY <1>0 DEF Loop
  <2>2. CASE \E q \in {"app", "other"} : ProgramOpens(q)
    BY <2>1, <2>2 DEF ProgramOpens, Opens
  <2>3. CASE \E t \in Route : ProxyDials(t)
    BY <2>3 DEF ProxyDials
  <2>4. QED BY <2>2, <2>3
<1>2. /\ net = <<>> /\ pc = "recv" /\ pkt = NoPacket /\ proc = None /\ ~first /\ left' = {}
      /\ UNCHANGED <<proto, global, world, deletions, deleting, route, learned, sni, pc, pkt, proc, to, first>>
      /\ (world # "reuse" => deletions = 0 /\ ~deleting /\ route = NoRoute /\ sni = "none")
      /\ owner' = p /\ conn' = conn + 1
  BY <1>0, <1>1 DEF Opens, Loop, eventVars, loopVars
<1>3. spoke' \in BOOLEAN /\ missed' \in BOOLEAN
  BY <1>1, Zenon DEF Opens
<1>4. PICK k \in {"syn", "data"} : /\ net' = Append(net, k)
                                   /\ phase' = IF k = "syn" THEN "syn" ELSE "open"
                                   /\ proto = IF k = "syn" THEN "tcp" ELSE "udp"
  BY <1>0, <1>1 DEF Opens, Queues, Types
<1>5. InOrder' /\ net' \in Seq(Kinds)
  <2>1. k \in Kinds /\ k # "hello" /\ (phase' = "syn" => proto' = "tcp")
    BY <1>2, <1>4 DEF Kinds
  <2>2. Rank(k) <= Stage'
    BY <1>2, <1>4, Ranks DEF Stage
  <2>3. QED BY <1>2, <1>4, <2>1, <2>2, OrderOpened
<1>6. Types'
  BY <1>0, <1>1, <1>2, <1>3, <1>4, <1>5 DEF Types
<1>7. Loop'
  BY <1>1, <1>2, <1>4 DEF Loop
<1>8. DirectInv' /\ HelloInv'
  BY <1>2 DEF DirectInv, Payload, HelloInv, HelloKept
<1>9. CalmInv'
  BY <1>2 DEF CalmInv, RouteIsSticky, Undecided, NoDeletion
<1>10. QED BY <1>5, <1>6, <1>7, <1>8, <1>9 DEF RInv, Base

(* A connection that is there sends: SYN again, a ClientHello or data.         *)
LEMMA SendStep ==
    ASSUME RInv, SynAgain \/ \E k \in {"hello", "data"} : Sends(k)
    PROVE  RInv'
<1>0. Types /\ InOrder /\ Loop /\ DirectInv /\ HelloInv /\ CalmInv
  BY DEF RInv, Base
<1>1. PICK k \in {"syn", "hello", "data"} :
        /\ net' = Append(net, k) /\ (k = "syn" => phase = "syn" /\ spoke' = spoke)
        /\ k # "syn" => phase = "open" /\ spoke' = (k = "data")
        /\ k = "hello" => proto = "tcp" /\ ~spoke
  <2>1. CASE SynAgain
    BY <2>1 DEF SynAgain, Queues, envVars
  <2>2. CASE \E j \in {"hello", "data"} : Sends(j)
    BY <2>2 DEF Sends, Queues
  <2>3. QED BY <2>1, <2>2
<1>2. UNCHANGED <<proto, global, world, conn, phase, owner, earlier, deletions, deleting, proxyRoute,
                  route, learned, sni, pc, pkt, proc, to, first, left, missed>>
  BY DEF SynAgain, Sends, envVars, eventVars, tables, loopVars, histVars
<1>3. k \in Kinds /\ spoke' \in BOOLEAN /\ (k = "data" => spoke') /\ (k = "hello" => ~spoke')
  BY <1>0, <1>1 DEF Kinds, Types
<1>4. InOrder' /\ net' \in Seq(Kinds)
  <2>1. Stage <= Rank(k) /\ Rank(k) <= Stage' /\ Stage' \in 0 .. 3
    BY <1>0, <1>1, <1>2, <1>3, Ranks, Stages DEF Stage, Types
  <2>2. phase' = "syn" => proto = "tcp"
    BY <1>0, <1>2 DEF InOrder
  <2>3. QED BY <1>0, <1>1, <1>2, <1>3, <2>1, <2>2, OrderSent
<1>5. Types'
  BY <1>0, <1>2, <1>3, <1>4 DEF Types
<1>6. Loop'
  BY <1>0, <1>2 DEF Loop
<1>7. NoSyn => NoSyn'
  <2>1. SUFFICES ASSUME NoSyn PROVE NoSyn'
    OBVIOUS
  <2>2. k # "syn" /\ net \in Seq(Kinds)
    BY <1>0, <1>1, <2>1 DEF NoSyn, Types
  <2>3. \A i \in 1 .. Len(net') : net'[i] # "syn"
    BY <1>1, <1>3, <2>1, <2>2, NotSent DEF NoSyn
  <2>4. QED BY <1>2, <2>1, <2>3 DEF NoSyn
<1>8. DirectInv'
  BY <1>0, <1>2, <1>7 DEF DirectInv, Payload
<1>9. HelloInv'
  <2>1. ASSUME NoHello PROVE NoHello'
    <3>1. k = "data" /\ net \in Seq(Kinds)
      BY <1>0, <1>1, <2>1 DEF NoHello, Types
    <3>2. \A i \in 1 .. Len(net') : net'[i] # "hello"
      BY <1>1, <1>3, <2>1, <3>1, NotSent DEF NoHello
    <3>3. QED BY <1>2, <1>3, <2>1, <3>1, <3>2 DEF NoHello
  <2>2. QED BY <1>0, <1>2, <2>1 DEF HelloInv, HelloKept
<1>10. CalmInv'
  <2>1. ~Over
    BY <1>1 DEF Over
  <2>2. Undecided => Undecided'
    BY <1>2 DEF Undecided, NoDeletion
  <2>3. Decided => Decided'
    BY <1>2 DEF Decided, NoDeletion, Settled
  <2>4. Cut => Cut'
    BY <1>2, <1>7 DEF Cut, Settled
  <2>5. QED BY <1>0, <1>2, <2>1, <2>2, <2>3, <2>4 DEF CalmInv, RouteIsSticky
<1>11. QED BY <1>4, <1>5, <1>6, <1>8, <1>9, <1>10 DEF RInv, Base

(* It closes; the proxy forgets its route first.                              *)
LEMMA CloseStep == ASSUME RInv, Closes PROVE RInv'
<1>0. Types /\ InOrder /\ Loop /\ DirectInv /\ HelloInv /\ CalmInv
  BY DEF RInv, Base
<1>1. /\ UNCHANGED <<proto, global, world, conn, owner, earlier, spoke, deletions, deleting, route,
                     learned, sni, pc, pkt, proc, to, first, left, missed>>
      /\ proxyRoute' = None /\ phase \in {"syn", "open"} /\ phase' \in {"closed", "closing"}
      /\ (net' = net \/ (net' = Append(net, "fin") /\ phase = "open"))
  BY DEF Closes, Queues, eventVars, loopVars, histVars
<1>2. Stage' = 3 /\ Stage \in 0 .. 3 /\ phase' # "syn"
  BY <1>0, <1>1, Stages DEF Stage
<1>3. InOrder' /\ net' \in Seq(Kinds)
  <2>1. CASE net' = net
    BY <1>0, <1>1, <1>2, <2>1, OrderKept DEF Types
  <2>2. CASE net' = Append(net, "fin")
    BY <1>0, <1>1, <1>2, <2>2, OrderSent, Ranks DEF Kinds
  <2>3. QED BY <1>1, <2>1, <2>2
<1>4. Types'
  BY <1>0, <1>1, <1>3 DEF Types
<1>5. Loop'
  BY <1>0, <1>1 DEF Loop
<1>6. ASSUME NEW x \in {"syn", "hello"}, \A i \in 1 .. Len(net) : net[i] # x
      PROVE  \A i \in 1 .. Len(net') : net'[i] # x
  BY <1>0, <1>1, <1>6, NotSent DEF Types, Kinds
<1>7. NoSyn => NoSyn'
  BY <1>1, <1>2, <1>6 DEF NoSyn
<1>8. DirectInv'
  BY <1>0, <1>1, <1>7 DEF DirectInv, Payload
<1>9. HelloInv'
  <2>1. NoHello => NoHello'
    BY <1>1, <1>2, <1>6 DEF NoHello
  <2>2. QED BY <1>0, <1>1, <2>1 DEF HelloInv, HelloKept
<1>10. CalmInv'
  <2>1. ~Over
    BY <1>1 DEF Over
  <2>2. Undecided => Undecided'
    BY <1>1 DEF Undecided, NoDeletion
  <2>3. Decided => Decided'
    BY <1>1 DEF Decided, NoDeletion, Settled
  <2>4. Cut => Cut'
    BY <1>1, <1>7 DEF Cut, Settled
  <2>5. QED BY <1>0, <1>1, <2>1, <2>2, <2>3, <2>4 DEF CalmInv, RouteIsSticky
<1>11. QED BY <1>3, <1>4, <1>5, <1>8, <1>9, <1>10 DEF RInv, Base

(* captureLoop receives a packet and looks for a proxy route.                   *)
LEMMA RecvStep == ASSUME RInv, Recv PROVE RInv'
<1>0. Types /\ InOrder /\ Loop /\ DirectInv /\ HelloInv /\ CalmInv
  BY DEF RInv, Base
<1>1. /\ UNCHANGED <<proto, global, world, conn, phase, owner, earlier, spoke, deletions, deleting,
                     proxyRoute, route, learned, sni, proc, first, left, missed>>
      /\ pc = "recv" /\ net # <<>> /\ pkt' = Head(net) /\ net' = Tail(net)
      /\ to' = (IF proxyRoute # None THEN proxyRoute ELSE "direct")
      /\ pc' = (IF proxyRoute # None THEN "proxied" ELSE "sticky")
  BY DEF Recv, envVars, eventVars, tables, histVars
<1>2. Stage' = Stage
  BY <1>1 DEF Stage
<1>3. InOrder' /\ net' \in Seq(Kinds) /\ pkt' \in Kinds
  BY <1>0, <1>1, <1>2, OrderTaken
<1>4. Types'
  BY <1>0, <1>1, <1>3 DEF Types, Route
<1>5. Loop'
  BY <1>0, <1>1, <1>3, Ranks DEF Loop
<1>6. ASSUME NEW x, \A i \in 1 .. Len(net) : net[i] # x
      PROVE  pkt' # x /\ \A i \in 1 .. Len(net') : net'[i] # x
  BY <1>0, <1>1, <1>6, NotReceived DEF Types
<1>7. NoSyn => NoSyn'
  BY <1>1, <1>6 DEF NoSyn
<1>8. DirectInv'
  BY <1>0, <1>1, <1>7 DEF DirectInv, Payload
<1>9. HelloInv'
  <2>1. NoHello => NoHello'
    BY <1>1, <1>6 DEF NoHello
  <2>2. QED BY <1>0, <1>1, <2>1 DEF HelloInv, HelloKept
<1>10. CalmInv'
  <2>1. ~Over
    BY <1>1 DEF Over
  <2>2. Undecided => Undecided'
    BY <1>1 DEF Undecided, NoDeletion
  <2>3. Decided => Decided'
    BY <1>0, <1>1 DEF Decided, NoDeletion, Settled, Loop
  <2>4. Cut => Cut'
    BY <1>1, <1>7 DEF Cut, Settled
  <2>5. QED BY <1>0, <1>1, <2>1, <2>2, <2>3, <2>4 DEF CalmInv, RouteIsSticky
<1>11. QED BY <1>3, <1>4, <1>5, <1>8, <1>9, <1>10 DEF RInv, Base

(* The iteration ends with a reset, which may fail: only packets of the          *)
(* established part are left, and of these nothing has left but DIRECT.          *)
LEMMA ResetStep == ASSUME RInv, ActHello \/ ActReset PROVE RInv'
<1>0. Types /\ InOrder /\ Loop /\ DirectInv /\ HelloInv /\ CalmInv
  BY DEF RInv, Base
<1>1. /\ UNCHANGED <<proto, global, world, conn, owner, earlier, spoke, net, deleting, proxyRoute,
                     left, missed>>
      /\ route' = NoRoute /\ pc = "act" /\ pc' = "recv" /\ pkt' = NoPacket /\ proc' = None
      /\ to' = "direct"
      /\ \/ phase' = phase /\ deletions' = deletions
         \/ phase \in {"open", "closing"} /\ phase' = "closed" /\ deletions' = deletions + 1
  BY DEF ActHello, ActReset, Resets, NextPacket, IsReset, histVars
<1>2. ~first'
  BY DEF ActHello, ActReset, Resets, NextPacket
<1>3. sni' \in {sni, "match"}
  BY DEF ActHello, ActReset
<1>4. proto = "tcp" /\ pkt # "syn" /\ pkt \in Kinds /\ proxyRoute = None
      /\ (to = "wg" => first)
  <2>1. pkt \in Kinds
    BY <1>0, <1>1 DEF Loop, Types
  <2>2. CASE ActHello
    BY <1>0, <2>1, <2>2 DEF ActHello, MatchesHello, Feeds, Loop
  <2>3. CASE ActReset
    BY <1>0, <2>1, <2>3 DEF ActReset, MidConnection, Loop
  <2>4. QED BY <2>2, <2>3
<1>5. Types'
  <2>1. first' \in BOOLEAN
    BY Zenon DEF ActHello, ActReset, Resets, NextPacket
  <2>2. deletions' \in Nat /\ phase' \in {"closed", "syn", "open", "closing"}
    BY <1>0, <1>1 DEF Types
  <2>3. QED BY <1>0, <1>1, <1>3, <2>1, <2>2 DEF Types, Route
<1>6. InOrder'
  <2>1. Stage' \in 0 .. 3 /\ Stage <= Stage'
    BY <1>0, <1>1, Stages DEF Stage, Types
  <2>2. phase' = "syn" => proto = "tcp"
    BY <1>4
  <2>3. QED BY <1>0, <1>1, <2>1, <2>2, OrderKept
<1>7. Loop'
  BY <1>0, <1>1, <1>2, <1>4 DEF Loop
<1>8. NoSyn'
  <2>1. Rank(pkt) \in 1 .. 3
    BY <1>4, Ranks DEF Kinds
  <2>2. ASSUME NEW i \in 1 .. Len(net) PROVE net[i] # "syn"
    BY <1>0, <1>4, <2>1, Ranks DEF InOrder
  <2>3. phase # "syn"
    BY <1>0, <1>4, <2>1, Stages, Ranks DEF InOrder
  <2>4. QED BY <1>1, <2>2, <2>3 DEF NoSyn, NoPacket
<1>9. DirectInv'
  BY <1>1, <1>8 DEF DirectInv, NoRoute, None
<1>10. HelloInv'
  <2>1. NoHello => NoHello'
    BY <1>1 DEF NoHello, NoPacket
  <2>2. QED BY <1>0, <1>1, <1>3, <2>1 DEF HelloInv, HelloKept
<1>11. CalmInv'
  <2>1. ASSUME world = "calm" PROVE Settled("direct")
    <3>1. Decided \/ Cut
      BY <1>0, <1>1, <2>1 DEF CalmInv, Over, Undecided
    <3>2. CASE Decided
      BY <1>0, <1>1, <1>4, <3>2 DEF Decided, Settled, Types, Route
    <3>3. QED BY <3>1, <3>2 DEF Cut
  <2>2. world = "calm" => Cut'
    BY <1>1, <1>4, <1>8, <2>1 DEF Cut, Settled, NoRoute, None
  <2>3. QED BY <1>0, <1>1, <2>2 DEF CalmInv, RouteIsSticky
<1>12. QED BY <1>5, <1>6, <1>7, <1>9, <1>10, <1>11 DEF RInv, Base

(* The packet leaves by the route it was given, or is lost.                      *)
LEMMA ForwardStep == ASSUME RInv, ActForward PROVE RInv'
<1>0. Types /\ InOrder /\ Loop /\ DirectInv /\ HelloInv /\ CalmInv
  BY DEF RInv, Base
<1>1. /\ UNCHANGED <<proto, global, world, conn, phase, owner, earlier, spoke, net, deletions, deleting,
                     proxyRoute, route, learned>>
      /\ pc = "act" /\ pc' = "recv" /\ pkt' = NoPacket /\ proc' = None /\ to' = "direct"
      /\ left' \in {left, left \cup {[kind |-> pkt, to |-> to]}}
      /\ ~MatchesHello /\ ~MidConnection
      /\ sni' = (IF Feeds /\ sni = "none" THEN "other" ELSE sni)
  BY DEF ActForward, NextPacket, envVars, eventVars
<1>2. ~first' /\ missed' \in BOOLEAN /\ (missed \/ proc # owner => missed')
  BY <1>0, Zenon DEF ActForward, NextPacket, Types
<1>3. pkt \in Kinds /\ (proto = "tcp" /\ pkt # "syn" /\ to = "wg" => ~first)
  BY <1>0, <1>1 DEF Loop, Types, MidConnection
<1>4. Types'
  <2>1. first' \in BOOLEAN
    BY Zenon DEF ActForward, NextPacket
  <2>2. QED BY <1>0, <1>1, <1>2, <2>1 DEF Types, Route
<1>5. InOrder'
  <2>1. Stage' = Stage /\ Stage \in 0 .. 3
    BY <1>0, <1>1, Stages DEF Stage
  <2>2. QED BY <1>0, <1>1, <2>1, OrderKept DEF InOrder
<1>6. Loop'
  BY <1>0, <1>1, <1>2 DEF Loop
<1>a. ASSUME NEW r \in 1 .. 3, r <= Rank(pkt)
      PROVE  r <= Stage /\ \A i \in 1 .. Len(net) : r <= Rank(net[i])
  <2>1. Rank(pkt) \in 0 .. 3 /\ Stage \in 0 .. 3 /\ \A i \in 1 .. Len(net) : Rank(net[i]) \in 0 .. 3
    BY <1>0, <1>3, Ranks, Stages DEF Types
  <2>2. pkt # NoPacket
    BY <1>3, Ranks
  <2>3. QED BY <1>0, <1>a, <2>1, <2>2 DEF InOrder
<1>7. pkt # "syn" => NoSyn'
  <2>1. SUFFICES ASSUME pkt # "syn" PROVE NoSyn'
    OBVIOUS
  <2>2. 1 <= Rank(pkt)
    BY <1>3, <2>1, Ranks DEF Kinds
  <2>3. 1 <= Stage /\ \A i \in 1 .. Len(net) : 1 <= Rank(net[i])
    BY <1>a, <2>2
  <2>4. phase # "syn" /\ \A i \in 1 .. Len(net) : net[i] # "syn"
    BY <1>0, <2>3, Stages, Ranks
  <2>5. QED BY <1>1, <2>4 DEF NoSyn, NoPacket
<1>8. DirectInv'
  <2>1. SUFFICES ASSUME proto = "tcp", owner # "self", Payload("direct")' # {}
                 PROVE  NoSyn' /\ (route.to = "wg" => FALSE)
    BY <1>1 DEF DirectInv
  <2>2. CASE Payload("direct") # {}
    <3>1. NoSyn /\ pkt # "syn" /\ (route.to = "wg" => to = "wg") /\ (to = "wg" => first)
      BY <1>0, <1>1, <2>1, <2>2 DEF DirectInv, NoSyn
    <3>2. QED BY <1>3, <1>7, <2>1, <3>1
  <2>3. CASE Payload("direct") = {}
    <3>1. pkt # "syn" /\ to = "direct"
      BY <1>1, <2>1, <2>3 DEF Payload
    <3>2. route.to # "wg"
      BY <1>0, <1>1, <2>1, <3>1 DEF Loop, NoRoute, None
    <3>3. QED BY <1>7, <3>1, <3>2
  <2>4. QED BY <2>2, <2>3
<1>9. HelloInv'
  <2>1. NoHello => NoHello'
    BY <1>1 DEF NoHello, NoPacket
  <2>2. ASSUME Feeds, sni = "none" PROVE NoHello'
    <3>1. pkt = "data" /\ proto = "tcp"
      BY <1>1, <2>2 DEF MatchesHello, Feeds
    <3>2. 2 <= Stage /\ \A i \in 1 .. Len(net) : 2 <= Rank(net[i])
      BY <1>a, <3>1, Ranks
    <3>3. phase # "syn" /\ (phase = "open" => spoke) /\ \A i \in 1 .. Len(net) : net[i] # "hello"
      BY <1>0, <3>1, <3>2, Stages, Ranks
    <3>4. QED BY <1>1, <3>3 DEF NoHello, NoPacket
  <2>3. world # "reuse" /\ sni' = "other" => NoHello'
    BY <1>0, <1>1, <2>1, <2>2 DEF HelloInv
  <2>4. HelloKept'
    <3>1. SUFFICES ASSUME [kind |-> "hello", to |-> "direct"] \in left', owner = "app",
                          world # "reuse"
                   PROVE  missed'
      BY <1>1 DEF HelloKept
    <3>2. CASE [kind |-> "hello", to |-> "direct"] \in left
      BY <1>0, <1>2, <3>1, <3>2 DEF HelloInv, HelloKept
    <3>3. CASE pkt = "hello" /\ to = "direct"
      <4>1. proc = owner => Feeds
        BY <1>0, <3>1, <3>3 DEF Feeds, Selects, InOrder, None, NoPacket
      <4>2. Feeds => sni = "other"
        BY <1>0, <1>1, <3>3 DEF MatchesHello, Types
      <4>3. sni # "other"
        BY <1>0, <3>1, <3>3 DEF HelloInv, NoHello
      <4>4. QED BY <1>2, <4>1, <4>2, <4>3
    <3>4. QED BY <1>1, <3>1, <3>2, <3>3
  <2>5. QED BY <1>1, <2>3, <2>4 DEF HelloInv
<1>10. CalmInv'
  <2>1. SUFFICES ASSUME world = "calm" PROVE RouteIsSticky' /\ (Decided' \/ Cut')
    BY <1>1 DEF CalmInv
  <2>2. CASE Decided
    <3>1. Settled(route.to)' /\ NoDeletion'
      BY <1>1, <2>2 DEF Decided, Settled, NoDeletion
    <3>2. Decided'
      BY <1>1, <1>2, <2>2, <3>1 DEF Decided
    <3>3. QED BY <3>1, <3>2 DEF RouteIsSticky, Settled
  <2>3. CASE Cut
    <3>1. pkt # "syn" /\ to = "direct" /\ proto = "tcp"
      BY <1>0, <1>1, <1>3, <2>3 DEF Cut, NoSyn, Types, Route
    <3>2. Settled("direct")'
      BY <1>1, <2>3, <3>1 DEF Cut, Settled
    <3>3. Cut'
      BY <1>1, <1>7, <2>3, <3>1, <3>2 DEF Cut
    <3>4. QED BY <3>2, <3>3 DEF RouteIsSticky, Settled
  <2>4. QED BY <1>0, <1>1, <2>1, <2>2, <2>3 DEF CalmInv, Over, Undecided
<1>11. QED BY <1>4, <1>5, <1>6, <1>8, <1>9, <1>10 DEF RInv, Base

(* Every step keeps the invariant.                                              *)
LEMMA StepInv == RInv /\ [Next]_vars => RInv'
<1> SUFFICES ASSUME RInv, [Next]_vars PROVE RInv'
  OBVIOUS
<1>1. CASE UNCHANGED vars
  <2>1. UNCHANGED <<proto, global, world, conn, phase, owner, earlier, spoke, net, deletions, deleting,
                    proxyRoute, route, learned, sni, pc, pkt, proc, to, first, left, missed>>
    BY <1>1 DEF vars, envVars, eventVars, tables, loopVars, histVars
  <2>2. Base'
    BY <2>1 DEF RInv, Base, Types, InOrder, Stage, Loop
  <2>3. DirectInv' /\ HelloInv'
    BY <2>1 DEF RInv, DirectInv, NoSyn, Payload, HelloInv, HelloKept, NoHello
  <2>4. CalmInv'
    BY <2>1 DEF RInv, CalmInv, RouteIsSticky, Over, Undecided, Decided, Cut, NoDeletion, Settled, NoSyn
  <2>5. QED BY <2>2, <2>3, <2>4 DEF RInv
<1>2. QED BY <1>1, OpenStep, SendStep, CloseStep, EstablishedStep, GoneStep, DeletedStep, DeletedEndsStep,
             LearnStep, SweepStep, RecvStep, ProxiedStep, LookupStep, AttributeStep, DecideStep,
             ResetStep, ForwardStep DEF Next

(* The invariant holds in every behaviour, for any number of connections and     *)
(* any length of the driver's queue.                                            *)
THEOREM InductiveInvariant == Spec => []RInv
  BY InitInv, StepInv, PTL DEF Spec

(* In a calm world all packets of a connection take one route, whatever is       *)
(* learned, forgotten, attributed or reset meanwhile (flowRouteTable, captureLoop). *)
THEOREM OneRoute == Spec => []RouteIsSticky
<1>1. RInv => RouteIsSticky
  BY DEF RInv, CalmInv, RouteIsSticky
<1>2. QED BY <1>1, InductiveInvariant, PTL

(* A ClientHello the rules name is kept from leaving DIRECT (FeedTLS).            *)
THEOREM HelloIsKept == Spec => []HelloKept
<1>1. RInv => HelloKept
  BY DEF RInv, HelloInv
<1>2. QED BY <1>1, InductiveInvariant, PTL

(* Once data of a connection has left DIRECT, none is tunnelled.                  *)
THEOREM NoMigration == Spec => DirectStaysDirect
<1>1. ASSUME RInv, [Next]_vars, proto = "tcp", owner # "self", Payload("direct") # {}
      PROVE  Payload("wg")' \subseteq Payload("wg")
  <2>1. CASE ActForward
    <3>1. left' \in {left, left \cup {[kind |-> pkt, to |-> to]}} /\ ~MidConnection /\ pc = "act"
      BY <2>1 DEF ActForward
    <3>2. pkt # "syn" /\ to # "wg"
      BY <1>1, <3>1 DEF RInv, DirectInv, NoSyn, MidConnection
    <3>3. QED BY <3>1, <3>2 DEF Payload
  <2>2. CASE ~ActForward
    <3>1. left' = left \/ left' = {}
      BY <1>1, <2>2 DEF Next, vars, envVars, eventVars, tables, loopVars, histVars, ProgramOpens, ProxyDials,
            Opens, SynAgain, Established, Sends, Closes, Gone, FlowDeleted, FlowDeletedEnds, DnsLearns,
            DomainExpires, SweepRoutes, SweepDiscovery, Recv, Proxied, Lookup, Attribute, DecideRoute,
            ActHello, ActReset, Resets
    <3>2. QED BY <3>1 DEF Payload
  <2>3. QED BY <2>1, <2>2
<1>2. RInv /\ [Next]_vars =>
         [proto = "tcp" /\ owner # "self" /\ Payload("direct") # {} =>
            Payload("wg")' \subseteq Payload("wg")]_vars
  BY <1>1
<1>3. QED BY <1>2, InductiveInvariant, PTL DEF Spec, DirectStaysDirect

----------------------------------------------------------------------------
(* What captureLoop tunnels goes through the two send queues, whose          *)
(* capacities and burst length are positive.                                   *)

\* Where sendLoop is, or will be when sendOne returns.
Loc == IF sendPc = "send" THEN after ELSE sendPc

(* In the burst loop the urgent packets taken ahead of a ready bulk packet *)
(* are those of this burst and at most the one of the blocking select;     *)
(* outside it no ready urgent packet has been overtaken.                   *)
Position ==
    /\ bulkQ = 0 => bulkWait = 0
    /\ urgentQ = 0 => urgentWait = 0
    /\ Loc = "burst" => drained < urgentBurst /\ bulkWait <= drained + 1
    /\ Loc = "wait" => bulkWait = 0
    /\ Loc \in {"bulk", "wait"} => urgentWait = 0
    /\ bulkWait <= urgentBurst + 1
    /\ urgentWait <= 1

QInv == QueuesTypeOK /\ Position

(* The idle engine satisfies the invariant.                                *)
LEMMA QueuesInit == SendInit => QInv
<1> SUFFICES ASSUME SendInit PROVE QInv
  OBVIOUS
<1>1. capturing \in BOOLEAN /\ handleOpen \in BOOLEAN /\ cancelled \in BOOLEAN
  BY Zenon DEF SendInit
<1>2. /\ urgentQ = 0 /\ bulkQ = 0 /\ segments = 0 /\ class = "bulk" /\ sendPc = "burst"
      /\ after = "burst" /\ drained = 0 /\ bulkWait = 0 /\ urgentWait = 0
  BY Zenon DEF SendInit
<1> QED BY SendAssumption, <1>1, <1>2 DEF QInv, QueuesTypeOK, Position, Loc

(* Capturing, queueing and dropping segments preserves the invariant.      *)
LEMMA CaptureInv == ASSUME QInv, CaptureLoop PROVE QInv'
<1> USE SendAssumption DEF QInv, QueuesTypeOK, Position, Loc, capVars, ctxVars
<1>1. ASSUME NEW c \in {"urgent", "bulk"}, NEW n \in 1 .. MaxSegments, Capture(c, n)
      PROVE  QInv'
  BY <1>1 DEF Capture
<1>2. CASE CaptureEnds
  BY <1>2 DEF CaptureEnds
<1>3. CASE Enqueue
  BY <1>3 DEF Enqueue, Full
<1>4. CASE DropSegment
  BY <1>4 DEF DropSegment
<1>5. CASE CaptureCancelled
  <2>1. capturing' \in BOOLEAN
    BY <1>5, Zenon DEF CaptureCancelled
  <2>2. /\ segments' = 0
        /\ UNCHANGED <<urgentQ, bulkQ, class, ctxVars, sendPc, after, drained,
                       bulkWait, urgentWait>>
    BY <1>5, Zenon DEF CaptureCancelled
  <2> QED BY <2>1, <2>2
<1> QED BY <1>1, <1>2, <1>3, <1>4, <1>5 DEF CaptureLoop

(* Every select of sendLoop, and the return of sendOne, preserves it.      *)
LEMMA SendLoopInv == ASSUME QInv, SendLoop PROVE QInv'
<1> USE SendAssumption DEF QInv, QueuesTypeOK, Position, Loc, capVars, ctxVars
<1>1. CASE BurstTake
  BY <1>1 DEF BurstTake, TakeUrgent, AfterBurst
<1>2. CASE BurstEmpty
  BY <1>2 DEF BurstEmpty
<1>3. CASE BulkTake
  BY <1>3 DEF BulkTake, TakeBulk, AfterBulk
<1>4. CASE BulkEmpty
  BY <1>4 DEF BulkEmpty
<1>5. CASE WaitTakeUrgent
  BY <1>5 DEF WaitTakeUrgent, TakeUrgent
<1>6. CASE WaitTakeBulk
  BY <1>6 DEF WaitTakeBulk, TakeBulk
<1>7. CASE SendLoopReturns
  BY <1>7 DEF SendLoopReturns, CancelSeen
<1>8. CASE SendOneReturns
  BY <1>8 DEF SendOneReturns
<1> QED BY <1>1, <1>2, <1>3, <1>4, <1>5, <1>6, <1>7, <1>8 DEF SendLoop

(* Every step preserves the invariant.                                     *)
LEMMA QueuesStep == QInv /\ [SendNext]_sendVars => QInv'
<1> SUFFICES ASSUME QInv, [SendNext]_sendVars PROVE QInv'
  OBVIOUS
<1>1. CASE CancelParent
  BY <1>1 DEF CancelParent, QInv, QueuesTypeOK, Position, Loc, capVars
<1>2. CASE CloseRunner
  BY <1>2 DEF CloseRunner, QInv, QueuesTypeOK, Position, Loc, capVars
<1>3. CASE UNCHANGED sendVars
  BY <1>3 DEF sendVars, QInv, QueuesTypeOK, Position, Loc
<1> QED BY <1>1, <1>2, <1>3, CaptureInv, SendLoopInv DEF SendNext, Closed

(* While a bulk packet is ready at most urgentBurst + 1 urgent packets are  *)
(* taken, for every burst length and however fast urgent traffic arrives.   *)
THEOREM BulkWaitBoundedAlways == SendSpec => []BulkWaitBounded
<1>1. QInv => BulkWaitBounded
  BY DEF QInv, Position, BulkWaitBounded
<1>2. QED BY <1>1, QueuesInit, QueuesStep, PTL DEF SendSpec

(* A ready urgent packet is overtaken by at most one bulk packet.          *)
THEOREM UrgentWaitBoundedAlways == SendSpec => []UrgentWaitBounded
<1>1. QInv => UrgentWaitBounded
  BY DEF QInv, Position, UrgentWaitBounded
<1>2. QED BY <1>1, QueuesInit, QueuesStep, PTL DEF SendSpec

(* The queues never exceed the channel capacities.                         *)
THEOREM TypeCorrect == SendSpec => []QueuesTypeOK
<1>1. QInv => QueuesTypeOK
  BY DEF QInv
<1>2. QED BY <1>1, QueuesInit, QueuesStep, PTL DEF SendSpec
=============================================================================
