---------------------------- MODULE WgHandshake ----------------------------
(***************************************************************************)
(* One WireGuard handshake at a time (client.go: makeInitiation, handshake, *)
(* consumeResponse, consumeCookie, switchActivePath, reader), against a     *)
(* network that may lose, duplicate, delay and reorder datagrams.           *)
(*                                                                         *)
(* handshake makes at most MaxAttempts attempts.  Each sends an initiation  *)
(* with a fresh random sender index on the active one of two UDP sockets    *)
(* and waits for a response, a cookie reply, a one second timer, the        *)
(* caller's context or Close.  Three timeouts in a row switch the socket.   *)
(* An initiation that cannot be made or written ends the handshake at once. *)
(* Replies come through respCh and cookieCh, which the reader fills without *)
(* blocking and which keep what an earlier handshake did not read.          *)
(*                                                                         *)
(* Sender indices are drawn in increasing order: the code draws 32 random   *)
(* bits and only compares them, and the increasing order also stands for    *)
(* the TAI64N timestamp by which the peer refuses an older initiation.      *)
(***************************************************************************)
EXTENDS Integers, FiniteSets, Sequences, SequencesExt

CONSTANTS
    MaxAttempts,     \* 5
    TimeoutsToSwitch,\* 3
    ChanCap,         \* capacity of respCh and of cookieCh, 8
    MaxCalls,        \* bound: handshakes in a behaviour
    MaxInFlight      \* bound: datagrams in the network at a time

ASSUME HandshakeAssumption ==
    /\ MaxAttempts \in Nat \ {0} /\ TimeoutsToSwitch \in Nat \ {0}
    /\ ChanCap \in Nat \ {0}
    /\ MaxCalls \in Nat /\ MaxInFlight \in Nat

\* Three timeouts on the dead socket, the cookie reply and the response: 5 attempts.
ASSUME AttemptsAssumption == TimeoutsToSwitch + 2 <= MaxAttempts /\ MaxInFlight # 0

Paths == {0, 1}
NoCookie == 2
Senders == 1 .. MaxCalls * MaxAttempts

\* A datagram: an initiation travels to the peer, its answers to the client.
Datagrams == [kind : {"init", "resp", "cookie"}, sender : Senders,
              path : Paths, mac2 : Paths \cup {NoCookie}]

VARIABLES
    pc,          \* "idle", "send", "wait", "ok", "failed"
    calls,       \* handshakes started
    attempt,     \* attempts made by this handshake
    timeoutsOnPath,
    sendFailed,  \* history: this handshake ended with the error of a send
    sender,      \* st.sender of the latest initiation
    activePath,
    cookie,      \* the path of the cookie younger than two minutes, or none
    respCh, cookieCh,
    net,         \* datagrams in flight
    loaded,      \* the peer is under load and wants cookies
    peerNext,    \* sender index of the initiation the peer answered last
    livePaths,   \* the sockets whose datagrams reach the peer
    reliable     \* on a live path nothing is lost, duplicated or late

vars == <<pc, calls, attempt, timeoutsOnPath, sendFailed, sender, activePath, cookie,
          respCh, cookieCh, net, loaded, peerNext, livePaths, reliable>>
weather == <<livePaths, reliable>>
clientVars == <<pc, calls, attempt, timeoutsOnPath, sendFailed, sender, activePath, cookie>>

----------------------------------------------------------------------------
Init ==
    /\ pc = "idle" /\ calls = 0 /\ attempt = 0 /\ timeoutsOnPath = 0 /\ sender = 0
    /\ sendFailed = FALSE
    /\ activePath \in Paths
    /\ cookie = NoCookie
    /\ respCh = << >> /\ cookieCh = << >>
    /\ net = {} /\ loaded \in BOOLEAN /\ peerNext = 0
    /\ \/ reliable = FALSE /\ livePaths = Paths
       \/ reliable = TRUE /\ livePaths \in {{0}, {1}}

\* ensureSession or the background rekey calls handshake.
Call ==
    /\ pc \in {"idle", "ok", "failed"} /\ calls < MaxCalls
    /\ pc' = "send" /\ calls' = calls + 1 /\ attempt' = 0 /\ timeoutsOnPath' = 0
    /\ sendFailed' = FALSE
    /\ UNCHANGED <<weather, sender, activePath, cookie, respCh, cookieCh, net, loaded, peerNext>>

\* makeInitiation and the write to the active socket, the cookie included
\* when it is young enough.
SendInitiation ==
    /\ pc = "send"
    /\ LET m == [kind |-> "init", sender |-> sender + 1, path |-> activePath,
                 mac2 |-> cookie]
       IN  net' = IF activePath \in livePaths /\ Cardinality(net) < MaxInFlight THEN net \cup {m} ELSE net
    /\ sender' = sender + 1
    /\ attempt' = attempt + 1
    /\ pc' = "wait"
    /\ UNCHANGED <<weather, sendFailed, calls, timeoutsOnPath, activePath, cookie,
                   respCh, cookieCh, loaded, peerNext>>

\* Either of them fails: handshake returns the error, whatever path is active
\* and however many attempts are left.
SendFails ==
    /\ pc = "send"
    /\ pc' = "failed" /\ sendFailed' = TRUE
    /\ UNCHANGED <<weather, calls, attempt, timeoutsOnPath, sender, activePath, cookie,
                   respCh, cookieCh, net, loaded, peerNext>>

\* The end of an attempt: the next one, or "WireGuard handshake timed out".
NextAttemptEarly == IF attempt < MaxAttempts - 1 THEN "send" ELSE "failed"
NextAttempt == IF attempt < MaxAttempts THEN "send" ELSE "failed"

\* case raw := <-respCh: consumeResponse and installSession if it answers the
\* latest initiation, otherwise keep waiting.  The comparison of the index is
\* backed by the authenticator, which only that initiation's keys verify.
AnswersLatest(m) == m.sender = sender
ReceiveResponse ==
    /\ pc = "wait" /\ respCh # << >>
    /\ respCh' = Tail(respCh)
    /\ IF AnswersLatest(Head(respCh))
       THEN pc' = "ok" /\ sender' = Head(respCh).sender
       ELSE UNCHANGED <<pc, sender>>
    /\ UNCHANGED <<weather, sendFailed, calls, attempt, timeoutsOnPath, activePath, cookie,
                   cookieCh, net, loaded, peerNext>>

\* case raw := <-cookieCh: a matching cookie ends the attempt, and shows that
\* the path is alive.
ReceiveCookie ==
    /\ pc = "wait" /\ cookieCh # << >>
    /\ cookieCh' = Tail(cookieCh)
    /\ IF Head(cookieCh).sender = sender
       THEN /\ cookie' = Head(cookieCh).path
            /\ timeoutsOnPath' = 0
            /\ pc' = NextAttempt
       ELSE UNCHANGED <<cookie, timeoutsOnPath, pc>>
    /\ UNCHANGED <<weather, sendFailed, calls, attempt, sender, activePath, respCh, net, loaded, peerNext>>

\* Whether an answer to the latest initiation can still arrive in time.
AnswerUnderway ==
    \/ \E m \in net : m.sender = sender
    \/ \E m \in Range(respCh) \cup Range(cookieCh) : m.sender = sender

\* The timer of an attempt runs from its start; stale answers do not restart it.
TimerRestartedByAnswers == respCh = << >> /\ cookieCh = << >> /\ net = {}
TimerExpired == reliable => ~ AnswerUnderway

\* case <-timer.C, and the switch of the socket after the third in a row.
SwitchNow == timeoutsOnPath + 1 = TimeoutsToSwitch
TimerFires ==
    /\ pc = "wait"
    /\ TimerExpired
    /\ IF SwitchNow
       THEN activePath' = 1 - activePath /\ timeoutsOnPath' = 0
       ELSE activePath' = activePath /\ timeoutsOnPath' = timeoutsOnPath + 1
    /\ pc' = NextAttempt
    /\ UNCHANGED <<weather, sendFailed, calls, attempt, sender, cookie, respCh, cookieCh, net, loaded, peerNext>>

\* case <-ctx.Done() or <-c.done.
GiveUp ==
    /\ pc = "wait" /\ ~ reliable
    /\ pc' = "failed"
    /\ UNCHANGED <<weather, sendFailed, calls, attempt, timeoutsOnPath, sender, activePath, cookie,
                   respCh, cookieCh, net, loaded, peerNext>>

\* makeInitiation leaves out a cookie of two minutes or more.  A handshake is
\* shorter than that on a reliable path.
CookieExpires ==
    /\ cookie # NoCookie /\ (reliable => pc \notin {"send", "wait"})
    /\ cookie' = NoCookie
    /\ UNCHANGED <<weather, sendFailed, pc, calls, attempt, timeoutsOnPath, sender, activePath,
                   respCh, cookieCh, net, loaded, peerNext>>

\* reader: a reply goes to its channel, or is dropped when that is full.
Deliver(m) ==
    /\ m \in net /\ m.kind # "init"
    /\ net' \in IF reliable THEN {net \ {m}} ELSE {net, net \ {m}}
    /\ respCh' = IF m.kind = "resp" /\ Len(respCh) < ChanCap
                 THEN Append(respCh, m) ELSE respCh
    /\ cookieCh' = IF m.kind = "cookie" /\ Len(cookieCh) < ChanCap
                   THEN Append(cookieCh, m) ELSE cookieCh
    /\ UNCHANGED <<weather, clientVars, loaded, peerNext>>

----------------------------------------------------------------------------
(* The peer and the network, as WireGuard specifies them.                   *)

\* A cookie is good only for the source port it was issued to.
Wanted(m) == ~ loaded \/ m.mac2 = m.path

PeerAnswers(m) ==
    /\ m \in net /\ m.kind = "init"
    /\ IF Wanted(m)
       THEN /\ m.sender > peerNext
            /\ peerNext' = m.sender
            /\ net' = (net \ {m}) \cup {[m EXCEPT !.kind = "resp"]}
       ELSE /\ net' = (net \ {m}) \cup {[m EXCEPT !.kind = "cookie"]}
            /\ peerNext' = peerNext
    /\ UNCHANGED <<weather, clientVars, respCh, cookieCh, loaded>>

\* The network loses a datagram, the peer ignores a replayed initiation.
Lose(m) ==
    /\ m \in net
    /\ ~ reliable
    /\ net' = net \ {m}
    /\ UNCHANGED <<weather, clientVars, respCh, cookieCh, loaded, peerNext>>

LoadChanges ==
    /\ ~ reliable
    /\ loaded' = ~ loaded
    /\ UNCHANGED <<weather, clientVars, respCh, cookieCh, net, peerNext>>

\* No further handshake is asked for.
Rest == pc \in {"ok", "failed"} /\ calls = MaxCalls /\ UNCHANGED vars

Client ==
    \/ SendInitiation
    \/ SendFails
    \/ ReceiveResponse
    \/ ReceiveCookie
    \/ TimerFires

Next ==
    \/ Call
    \/ Client
    \/ GiveUp
    \/ CookieExpires
    \/ \E m \in net : Deliver(m) \/ PeerAnswers(m) \/ Lose(m)
    \/ LoadChanges
    \/ Rest

Spec == Init /\ [][Next]_vars

\* A reliable network delivers.
Delivery == reliable /\ \E m \in net : Deliver(m) \/ PeerAnswers(m)

\* The goroutine runs, and Go's select does not ignore an expired timer for
\* ever, however many stale answers are in the channels.
FairSpec == Spec /\ WF_vars(Client) /\ SF_vars(TimerFires) /\ WF_vars(Delivery)

----------------------------------------------------------------------------
(* The client, the channels and the network hold what their types allow.    *)
TypeOK ==
    /\ pc \in {"idle", "send", "wait", "ok", "failed"}
    /\ calls \in 0 .. MaxCalls /\ attempt \in 0 .. MaxAttempts
    /\ timeoutsOnPath \in 0 .. TimeoutsToSwitch - 1
    /\ sender \in 0 .. MaxCalls * MaxAttempts /\ peerNext \in 0 .. sender
    /\ activePath \in Paths /\ cookie \in Paths \cup {NoCookie}
    /\ Len(respCh) <= ChanCap /\ Range(respCh) \subseteq Datagrams
    /\ Len(cookieCh) <= ChanCap /\ Range(cookieCh) \subseteq Datagrams
    /\ net \subseteq Datagrams /\ loaded \in BOOLEAN
    /\ livePaths \subseteq Paths /\ reliable \in BOOLEAN
    /\ sendFailed \in BOOLEAN

(* If one of the two sockets reliably reaches the peer and the other is       *)
(* silent, every handshake whose writes succeed succeeds, whichever socket is *)
(* active at its start and even if the peer is under load and asks for a      *)
(* cookie first: three timeouts, the cookie and the response fit the five     *)
(* attempts exactly.  A dead path that shows as an error of makeInitiation or *)
(* WriteToUDP is exempt: handshake returns that error at once, counts no      *)
(* timeout and does not try the other path.                                  *)
OneLivePathSuffices == reliable /\ ~ sendFailed => pc # "failed"

(* A handshake behaves as KeyExchange: it returns (its caller holds hsMu, and *)
(* every sender without a session waits for it), it succeeds only with the    *)
(* key the peer derived last, and no late initiation makes the peer leave     *)
(* that key before the next handshake.                                       *)
Exchange == INSTANCE KeyExchange WITH
    status <- IF pc \in {"send", "wait"} THEN "running" ELSE pc,
    mine <- IF pc = "ok" THEN sender ELSE 0,
    theirs <- peerNext
ImplementsExchange == Exchange!Spec

=============================================================================
