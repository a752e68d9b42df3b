---------------------------- MODULE KeyExchange ----------------------------
(***************************************************************************)
(* What a handshake promises its caller, without attempts, timers, sockets,  *)
(* cookies or channels: it ends, and if it ends well, the keys installed are *)
(* those the peer has, and the peer does not move on until the next one.     *)
(* WgHandshake implements it.                                               *)
(***************************************************************************)
EXTENDS Naturals

VARIABLES
    status,    \* "idle", "running", "ok", "failed"
    mine,      \* the key installed by the last handshake, 0 if it brought none
    theirs     \* the key the peer derived last

exchange == <<status, mine, theirs>>

Init == status = "idle" /\ mine = 0 /\ theirs = 0

Begin ==
    /\ status # "running"
    /\ status' = "running" /\ mine' = 0
    /\ UNCHANGED theirs

\* The peer answers an initiation, perhaps one of a handshake that has failed since.
PeerDerives ==
    /\ status # "ok"
    /\ theirs' \in Nat /\ theirs' > theirs
    /\ UNCHANGED <<status, mine>>

Succeed ==
    /\ status = "running" /\ theirs # 0
    /\ status' = "ok" /\ mine' = theirs
    /\ UNCHANGED theirs

Fail ==
    /\ status = "running"
    /\ status' = "failed"
    /\ UNCHANGED <<mine, theirs>>

Next == Begin \/ PeerDerives \/ Succeed \/ Fail

Spec == Init /\ [][Next]_exchange /\ WF_exchange(Succeed \/ Fail)
=============================================================================
