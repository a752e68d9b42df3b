---------------------------- MODULE ReplayWindow ----------------------------
(***************************************************************************)
(* The replay window of a WireGuard session (replay.Accept in               *)
(* internal/wireguard/client.go) as handleTransport uses it: a datagram is  *)
(* authenticated first, then its counter is looked up and recorded.         *)
(*                                                                         *)
(* Counters are unsigned words: arithmetic is modulo Mod (2^64 in the code) *)
(* and the window is a bitmap indexed by counter % win (2048).  Accept      *)
(* holds the window's mutex, so the two readers' calls are atomic.          *)
(***************************************************************************)
EXTENDS Integers

CONSTANTS win, Mod

ASSUME WindowAssumption == win \in Nat \ {0} /\ Mod \in Nat /\ Mod > 2 * win

Counter == 0 .. Mod - 1

VARIABLES
    started,    \* r.init
    max, seen,  \* seen: the bits that are set
    spinning,   \* Accept's loop never ends, with the mutex held
    delivered,  \* history: how often a counter was delivered, 0, 1 or 2
    call        \* the last datagram and what became of it

windowVars == <<started, max, seen, spinning, delivered, call>>

WindowInit ==
    /\ started = FALSE /\ max = 0 /\ seen = {}
    /\ spinning = FALSE
    /\ delivered = [n \in Counter |-> 0]
    /\ call = [n |-> 0, genuine |-> FALSE, ok |-> FALSE]

Bit(n) == n % win

\* n + win <= r.max, in unsigned arithmetic.
TooOldByDifference(n) == n < max /\ max - n >= win
TooOld(n) == (n + win) % Mod <= max

\* for x := r.max + 1; x <= n; x++: with n the largest word it never ends.
Spins(n) == n > max /\ n - max < win /\ n = Mod - 1

\* What is left of seen when the window moves up to n.
SlidClearsAll(n) == IF n <= max THEN seen ELSE {}
Slid(n) == IF n <= max THEN seen
           ELSE IF n - max >= win THEN {}
           ELSE seen \ {Bit(x) : x \in max + 1 .. n}

Fresh(n) == ~ started \/ (~ TooOld(n) /\ Bit(n) \notin Slid(n))

\* The effect of Accept(n) on the window.
Accept(n) ==
    /\ started' = TRUE
    /\ spinning' = (started /\ ~ TooOld(n) /\ Spins(n))
    /\ IF ~ started
       THEN max' = n /\ seen' = seen \cup {Bit(n)}
       ELSE IF TooOld(n)
       THEN UNCHANGED <<max, seen>>
       ELSE max' = (IF n > max THEN n ELSE max) /\ seen' = Slid(n) \cup {Bit(n)}

\* handleTransport: recv.Open fails on a forged or damaged datagram, whose
\* counter is then not recorded.
RecordedAlways(genuine) == TRUE
Recorded(genuine) == genuine
Receive(n, genuine) ==
    /\ ~ spinning
    /\ IF Recorded(genuine) THEN Accept(n) ELSE UNCHANGED <<started, max, seen, spinning>>
    /\ LET ok == genuine /\ Fresh(n) IN
         /\ call' = [n |-> n, genuine |-> genuine, ok |-> ok]
         /\ delivered' = [delivered EXCEPT ![n] = IF ok /\ @ < 2 THEN @ + 1 ELSE @]

WindowNext == \E n \in Counter, genuine \in BOOLEAN : Receive(n, genuine)

WindowSpec == WindowInit /\ [][WindowNext]_windowVars

----------------------------------------------------------------------------
(* No counter is delivered twice, in whatever order, after whatever jumps     *)
(* and at whatever end of the counter range datagrams arrive.                 *)
DeliveredOnce == \A n \in Counter : delivered[n] <= 1

(* And nothing else is refused: a genuine datagram that was not delivered     *)
(* before is dropped only when it is win or more behind the newest, or, since *)
(* n + win wraps around, among the last win counters there are.               *)
FreshDelivered ==
    [][call'.genuine /\ ~ call'.ok =>
         \/ delivered[call'.n] = 1
         \/ call'.n + win <= max
         \/ call'.n >= Mod - win]_windowVars

(* Accept always returns: the wrap-around of n + win, which refuses the        *)
(* largest counters, is what keeps its clearing loop finite.                  *)
AcceptReturns == ~ spinning
=============================================================================
