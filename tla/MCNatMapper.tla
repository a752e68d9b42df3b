---------------------------- MODULE MCNatMapper ----------------------------
(* A small NAT: two application addresses of one family and one of a family *)
(* without a tunnel address, one far endpoint per family, three ports of    *)
(* which two form the allocator's range.                                    *)
EXTENDS NatMapper

CONSTANTS l1, l2, l6, r1, r6, tun4, none, o1, o2, o3

MCLocals == {l1, l2, l6}
MCRemotes == {r1, r6}
MCFamily == [x \in {l1, l2, l6, r1, r6} |-> IF x \in {l6, r6} THEN "v6" ELSE "v4"]
MCTunnelOf == [f \in {"v4", "v6"} |-> IF f = "v4" THEN tun4 ELSE none]
MCPorts == 1 .. 3
=============================================================================
