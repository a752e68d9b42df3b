---------------------------- MODULE MCFlowIndex ----------------------------
(* One port: two sockets of two programs, a flow of each address family.     *)
EXTENDS FlowIndex

MCOwnerOf == [e \in Endpoints |-> IF e = "e1" THEN "p1" ELSE "p2"]
MCKeys == {[local |-> "a4", remote |-> "r4"], [local |-> "a6", remote |-> "r6"]}

\* Time, snapshots and waiters multiply the states and do not depend on each other.
Ageing == [proto : {"tcp", "udp"}, binds : {BindAddrs}, ages : {TRUE},
           snapshots : {0}, waits : {{}}]
Snapshots == {[proto |-> "tcp", binds |-> {"any6"}, ages |-> FALSE, snapshots |-> 2, waits |-> {}],
              [proto |-> "udp", binds |-> Unspecified, ages |-> FALSE, snapshots |-> 1, waits |-> {}]}
Waits == {[proto |-> "tcp", binds |-> {"any4"}, ages |-> FALSE, snapshots |-> 1,
           waits |-> {[local |-> "a4", remote |-> "r4"]}]}
MCWorlds == Ageing \cup Snapshots \cup Waits
=============================================================================
