---------------------------- MODULE MCWgSessions ----------------------------
(***************************************************************************)
(* Two worlds: Rough, where handshakes fail and every goroutine may be late, *)
(* with ages that cross all the limits soon; and Steady, where the peer      *)
(* answers and the timers stand in about the ratios of the code.             *)
(***************************************************************************)
EXTENDS WgSessions

Rough == [RekeyAfter |-> 1, RejectAfter |-> 2, Grace |-> 1, ReapEvery |-> 1, KeepaliveEvery |-> 1,
          PeerKeeps |-> 1, HsTime |-> 1, MaxPause |-> 1, Reliable |-> FALSE, Slots |-> 3]
Steady == [RekeyAfter |-> 4, RejectAfter |-> 6, Grace |-> 6, ReapEvery |-> 1, KeepaliveEvery |-> 1,
           PeerKeeps |-> 7, HsTime |-> 1, MaxPause |-> 0, Reliable |-> TRUE, Slots |-> 4]
MCWorlds == {Rough, Steady}
=============================================================================
