--------------------------- MODULE WireGuard_proofs ---------------------------
(***************************************************************************)
(* The WireGuard client: its handshake (WgHandshake) and the replay window    *)
(* of a session (ReplayWindow).                                             *)
(*                                                                         *)
(* Handshake.  It is a KeyExchange, whatever the network does to its         *)
(* datagrams, and with one live socket it fails only by a send error, for    *)
(* every number of attempts, of timeouts before a switch and of places in    *)
(* the channels.                                                            *)
(*                                                                         *)
(* Window.  It is exact for every size and counter width.  DeliveredOnce is   *)
(* not inductive by itself: that a counter is not delivered again rests on   *)
(* its bit still being set, and a bit of the circular bitmap stands for one   *)
(* counter only within the window.  WindowInv therefore says that inside the *)
(* window the bits are the delivered counters, and that nothing above max     *)
(* has been delivered.                                                      *)
(***************************************************************************)
EXTENDS WgHandshake, ReplayWindow, FiniteSetTheorems, TLAPS

Message == [kind : {"init", "resp", "cookie"}, sender : Nat \ {0}, path : Paths,
            mac2 : Paths \cup {NoCookie}]

Types ==
    /\ pc \in {"idle", "send", "wait", "ok", "failed"}
    /\ attempt \in Nat /\ timeoutsOnPath \in Nat /\ sender \in Nat /\ peerNext \in 0 .. sender
    /\ activePath \in Paths /\ cookie \in Paths \cup {NoCookie}
    /\ net \subseteq Message /\ respCh \in Seq(Message) /\ cookieCh \in Seq(Message)
    /\ livePaths \subseteq Paths

(* Nothing in flight is newer than the latest initiation, and a response is    *)
(* no newer than what the peer answered.                                     *)
AnswersKnown ==
    /\ \A m \in net : m.sender <= sender /\ (m.kind = "resp" => m.sender <= peerNext)
    /\ \A i \in 1 .. Len(respCh) : respCh[i].sender <= peerNext

(* The key installed is the one the peer derived last.                       *)
SameKey == pc = "ok" => peerNext = sender

Inv == Types /\ AnswersKnown /\ SameKey

----------------------------------------------------------------------------
(* Before the first initiation.                                              *)
LEMMA InitInv == Init => Inv
  BY DEF Init, Inv, Types, AnswersKnown, SameKey, Paths, NoCookie

(* The steps of the client keep the invariant.                               *)
LEMMA ClientStep ==
    ASSUME Inv, Call \/ Client \/ GiveUp \/ CookieExpires PROVE Inv'
<1> USE HandshakeAssumption DEF Inv, Types
<1>1. CASE Call
  BY <1>1 DEF Call, weather, AnswersKnown, SameKey
<1>2. CASE SendInitiation
  <2> DEFINE m == [kind |-> "init", sender |-> sender + 1, path |-> activePath, mac2 |-> cookie]
  <2>1. m \in Message
    BY DEF Message
  <2>2. net' \subseteq net \cup {m} /\ sender' = sender + 1 /\ pc' = "wait" /\ attempt' = attempt + 1
        /\ UNCHANGED <<timeoutsOnPath, activePath, cookie, respCh, cookieCh, peerNext, livePaths>>
    BY <1>2 DEF SendInitiation, weather
  <2>3. \A n \in net : n.sender \in Nat
    BY DEF Message
  <2>4. Types'
    BY <2>1, <2>2
  <2>5. AnswersKnown' /\ SameKey'
    BY <2>2, <2>3 DEF AnswersKnown, SameKey
  <2>6. QED BY <2>4, <2>5
<1>3. CASE ReceiveResponse
  <2>1. respCh # << >> /\ respCh' = Tail(respCh) /\ sender' = sender
        /\ pc' \in {"wait", "ok"} /\ (pc' = "ok" => Head(respCh).sender = sender)
        /\ UNCHANGED <<attempt, timeoutsOnPath, activePath, cookie, cookieCh, net, peerNext, livePaths>>
    BY <1>3 DEF ReceiveResponse, weather, AnswersLatest
  <2>2. Types'
    BY <2>1
  <2>3. AnswersKnown'
    BY <2>1 DEF AnswersKnown
  <2>4. SameKey'
    <3>1. Head(respCh) = respCh[1] /\ 1 \in 1 .. Len(respCh)
      BY <2>1
    <3>2. QED BY <2>1, <3>1 DEF AnswersKnown, SameKey
  <2>5. QED BY <2>2, <2>3, <2>4
<1>4. CASE ReceiveCookie
  <2>1. cookieCh # << >> /\ cookieCh' = Tail(cookieCh) /\ pc' \in {"wait", "send", "failed"}
        /\ cookie' \in {cookie, Head(cookieCh).path} /\ timeoutsOnPath' \in {timeoutsOnPath, 0}
        /\ UNCHANGED <<attempt, sender, activePath, respCh, net, peerNext, livePaths>>
    BY <1>4 DEF ReceiveCookie, weather, NextAttempt
  <2>2. Head(cookieCh) \in Message
    BY <2>1
  <2>3. Head(cookieCh).path \in Paths
    BY <2>2 DEF Message
  <2>4. Types'
    BY <2>1, <2>3
  <2>5. QED BY <2>1, <2>4 DEF AnswersKnown, SameKey
<1>5. CASE TimerFires
  <2>1. pc' \in {"send", "failed"} /\ timeoutsOnPath' \in Nat /\ activePath' \in Paths
        /\ UNCHANGED <<attempt, sender, cookie, respCh, cookieCh, net, peerNext, livePaths>>
    BY <1>5 DEF TimerFires, weather, NextAttempt, Paths
  <2>2. QED BY <2>1 DEF AnswersKnown, SameKey
<1>6. CASE GiveUp
  BY <1>6 DEF GiveUp, weather, AnswersKnown, SameKey
<1>7. CASE CookieExpires
  BY <1>7 DEF CookieExpires, weather, AnswersKnown, SameKey
<1>8. CASE SendFails
  BY <1>8 DEF SendFails, weather, AnswersKnown, SameKey
<1>9. QED BY <1>1, <1>2, <1>3, <1>4, <1>5, <1>6, <1>7, <1>8 DEF Client

(* The steps of the network and of the peer keep it.                         *)
LEMMA NetStep ==
    ASSUME Inv, NEW m \in net, Deliver(m) \/ PeerAnswers(m) \/ Lose(m) PROVE Inv'
<1> USE DEF Inv, Types
<1>1. m \in Message /\ m.sender \in Nat \ {0} /\ m.sender <= sender
      /\ UNCHANGED <<pc, attempt, timeoutsOnPath, sender, activePath, cookie, livePaths>>
  BY DEF Deliver, PeerAnswers, Lose, weather, clientVars, AnswersKnown, Message
<1>2. CASE Deliver(m)
  <2>1. net' \subseteq net /\ peerNext' = peerNext
        /\ (respCh' = respCh \/ (m.kind = "resp" /\ respCh' = Append(respCh, m)))
        /\ (cookieCh' = cookieCh \/ cookieCh' = Append(cookieCh, m))
    BY <1>2 DEF Deliver
  <2>2. Types'
    <3>a. \A s \in Seq(Message) : Append(s, m) \in Seq(Message)
      BY <1>1
    <3>1. respCh' \in Seq(Message) /\ cookieCh' \in Seq(Message)
      BY <2>1, <3>a
    <3>2. QED BY <1>1, <2>1, <3>1
  <2>3. AnswersKnown'
    <3>1. ASSUME NEW i \in 1 .. Len(respCh') PROVE respCh'[i].sender <= peerNext
      <4>1. CASE respCh' = respCh
        BY <4>1 DEF AnswersKnown
      <4>2. CASE m.kind = "resp" /\ respCh' = Append(respCh, m)
        <5>1. m.sender <= peerNext
          BY <4>2 DEF AnswersKnown
        <5>2. respCh'[i] = m \/ (i \in 1 .. Len(respCh) /\ respCh'[i] = respCh[i])
          BY <1>1, <4>2
        <5>3. QED BY <5>1, <5>2 DEF AnswersKnown
      <4>3. QED BY <2>1, <4>1, <4>2
    <3>2. QED BY <1>1, <2>1, <3>1 DEF AnswersKnown
  <2>4. QED BY <1>1, <2>1, <2>2, <2>3 DEF SameKey
<1>3. CASE PeerAnswers(m)
  <2> DEFINE answer(k) == [m EXCEPT !.kind = k]
  <2>1. \A k \in {"resp", "cookie"} : answer(k) \in Message /\ answer(k).sender = m.sender
                                      /\ answer(k).kind = k
    BY <1>1 DEF Message
  <2>2. UNCHANGED <<respCh, cookieCh>>
    BY <1>3 DEF PeerAnswers
  <2>3. CASE Wanted(m)
    <3>1. m.sender > peerNext /\ peerNext' = m.sender /\ net' = (net \ {m}) \cup {answer("resp")}
      BY <1>3, <2>3 DEF PeerAnswers
    <3>2. Types'
      BY <1>1, <2>1, <2>2, <3>1
    <3>3. \A n \in net : n.sender \in Nat
      BY DEF Message
    <3>4. ASSUME NEW i \in 1 .. Len(respCh) PROVE respCh'[i].sender <= peerNext'
      <4>1. respCh[i] \in Message
        OBVIOUS
      <4>2. respCh[i].sender \in Nat
        BY <4>1 DEF Message
      <4>3. QED BY <1>1, <2>2, <3>1, <4>2 DEF AnswersKnown
    <3>5. AnswersKnown'
      <4>1. ASSUME NEW n \in net' PROVE n.sender <= sender /\ (n.kind = "resp" => n.sender <= peerNext')
        <5>1. CASE n \in net
          BY <1>1, <3>1, <3>3, <5>1 DEF AnswersKnown
        <5>2. CASE n = answer("resp")
          BY <1>1, <2>1, <3>1, <5>2
        <5>3. QED BY <3>1, <4>1, <5>1, <5>2
      <4>2. QED BY <1>1, <2>2, <3>4, <4>1 DEF AnswersKnown
    <3>6. SameKey'
      BY <1>1, <3>1 DEF SameKey
    <3>7. QED BY <3>2, <3>5, <3>6
  <2>4. CASE ~ Wanted(m)
    <3>1. peerNext' = peerNext /\ net' = (net \ {m}) \cup {answer("cookie")}
      BY <1>3, <2>4 DEF PeerAnswers
    <3>2. Types'
      BY <1>1, <2>1, <2>2, <3>1
    <3>3. QED BY <1>1, <2>1, <2>2, <3>1, <3>2 DEF AnswersKnown, SameKey
  <2>5. QED BY <2>3, <2>4
<1>4. CASE Lose(m)
  BY <1>1, <1>4 DEF Lose, AnswersKnown, SameKey
<1>5. QED BY <1>2, <1>3, <1>4

(* Every step keeps it.                                                      *)
LEMMA StepInv == Inv /\ [Next]_vars => Inv'
<1> SUFFICES ASSUME Inv, [Next]_vars PROVE Inv'
  OBVIOUS
<1>1. CASE LoadChanges
  BY <1>1 DEF LoadChanges, weather, clientVars, Inv, Types, AnswersKnown, SameKey
<1>2. CASE UNCHANGED vars
  BY <1>2 DEF vars, Inv, Types, AnswersKnown, SameKey
<1>3. QED BY <1>1, <1>2, ClientStep, NetStep DEF Next, Rest

(* The invariant holds in every behaviour.                                   *)
THEOREM InductiveInvariant == Spec => []Inv
  BY InitInv, StepInv, PTL DEF Spec

----------------------------------------------------------------------------
(* The refinement, without fairness: what a caller of handshake may see.      *)
SafeExchange == Exchange!Init /\ [][Exchange!Next]_(Exchange!exchange)

(* Every step is a step of KeyExchange or leaves it alone.                   *)
LEMMA StepRefines == Inv /\ [Next]_vars => [Exchange!Next]_(Exchange!exchange)
<1> SUFFICES ASSUME Inv, [Next]_vars PROVE [Exchange!Next]_(Exchange!exchange)
  OBVIOUS
<1> USE DEF Exchange!Next, Exchange!exchange
<1>1. CASE Call
  BY <1>1 DEF Call, Exchange!Begin
<1>2. CASE SendInitiation
  BY <1>2 DEF SendInitiation
<1>3. CASE ReceiveResponse
  <2>1. CASE pc' = "wait"
    BY <1>3, <2>1 DEF ReceiveResponse
  <2>2. CASE pc' # "wait"
    <3>1. pc = "wait" /\ pc' = "ok" /\ sender' = sender /\ peerNext' = peerNext
          /\ Head(respCh).sender = sender /\ respCh # << >>
      BY <1>3, <2>2 DEF ReceiveResponse, AnswersLatest
    <3>2. Head(respCh) \in Message /\ peerNext = sender
      BY <1>3, <3>1, ClientStep DEF Client, Inv, Types, SameKey
    <3>3. sender # 0
      BY <3>1, <3>2 DEF Message
    <3>4. QED BY <3>1, <3>2, <3>3 DEF Exchange!Succeed
  <2>3. QED BY <2>1, <2>2
<1>4. CASE ReceiveCookie
  BY <1>4 DEF ReceiveCookie, NextAttempt, Exchange!Fail
<1>5. CASE TimerFires
  BY <1>5 DEF TimerFires, NextAttempt, Exchange!Fail
<1>6. CASE GiveUp
  BY <1>6 DEF GiveUp, Exchange!Fail
<1>7. CASE CookieExpires
  BY <1>7 DEF CookieExpires
<1>8. ASSUME NEW m \in net, Deliver(m) \/ PeerAnswers(m) \/ Lose(m)
      PROVE  [Exchange!Next]_(Exchange!exchange)
  <2>1. pc' = pc /\ sender' = sender
    BY <1>8 DEF Deliver, PeerAnswers, Lose, clientVars
  <2>2. CASE peerNext' = peerNext
    BY <2>1, <2>2
  <2>3. CASE peerNext' # peerNext
    <3>1. peerNext' = m.sender /\ m.sender > peerNext
      BY <1>8, <2>3 DEF Deliver, PeerAnswers, Lose
    <3>2. m.sender \in Nat /\ m.sender <= sender /\ peerNext \in Nat /\ sender \in Nat
      BY DEF Inv, Types, AnswersKnown, Message
    <3>3. pc # "ok"
      BY <3>1, <3>2 DEF Inv, SameKey
    <3>4. QED BY <2>1, <3>1, <3>2, <3>3 DEF Exchange!PeerDerives
  <2>4. QED BY <2>2, <2>3
<1>9. CASE LoadChanges
  BY <1>9 DEF LoadChanges, clientVars
<1>10. CASE UNCHANGED vars
  BY <1>10 DEF vars
<1>11. CASE SendFails
  BY <1>11 DEF SendFails, Exchange!Fail
<1>12. QED BY <1>1, <1>2, <1>3, <1>4, <1>5, <1>6, <1>7, <1>8, <1>9, <1>10, <1>11 DEF Next, Client, Rest

(* A handshake succeeds only with the key the peer derived last, and no late   *)
(* or duplicated initiation makes the peer leave that key before the next     *)
(* handshake (consumeResponse, the sender index, the peer's timestamp check). *)
THEOREM HandshakeIsExchange == Spec => SafeExchange
<1>1. Init => Exchange!Init
  BY DEF Init, Exchange!Init
<1>2. QED BY <1>1, InductiveInvariant, StepRefines, PTL DEF Spec, SafeExchange

----------------------------------------------------------------------------
(* On a reliable network with one live socket an attempt has at most one       *)
(* datagram under way, which ends it; the count of attempts follows.          *)
Quiet == net = {} /\ respCh = << >> /\ cookieCh = << >>

OnlyOne(m) ==
    \/ net = {m} /\ respCh = << >> /\ cookieCh = << >>
    \/ net = {} /\ respCh = <<m>> /\ cookieCh = << >> /\ m.kind = "resp"
    \/ net = {} /\ respCh = << >> /\ cookieCh = <<m>> /\ m.kind = "cookie"

Underway(m) ==
    /\ OnlyOne(m)
    /\ m.sender = sender /\ m.path = activePath /\ m.mac2 = cookie
    /\ m.kind = "init" => peerNext < sender
    /\ m.kind = "cookie" => cookie # activePath

OneAnswer ==
    IF pc = "wait" /\ activePath \in livePaths THEN \E m \in Message : Underway(m) ELSE Quiet

(* Before the latest attempt: on the dead socket all attempts timed out; on    *)
(* the live one only a cookie can have ended an attempt.                     *)
EnoughAttempts ==
    LET before == IF pc = "wait" THEN attempt - 1 ELSE attempt
    IN  pc \in {"send", "wait"} =>
          IF activePath \in livePaths
          THEN before <= TimeoutsToSwitch + (IF cookie = activePath THEN 1 ELSE 0)
          ELSE before = timeoutsOnPath /\ timeoutsOnPath < TimeoutsToSwitch

Reaches ==
    livePaths \in {{0}, {1}} /\ (pc = "failed" => sendFailed) /\ OneAnswer /\ EnoughAttempts
LiveInv == reliable => Reaches

(* Before the first attempt there are attempts enough.                       *)
LEMMA LiveInit == Init => LiveInv
<1> SUFFICES ASSUME Init, reliable PROVE Reaches
  BY DEF LiveInv
<1>1. livePaths \in {{0}, {1}}
  BY DEF Init
<1>2. QED BY <1>1 DEF Init, Reaches, OneAnswer, EnoughAttempts, Quiet

(* The client spends an attempt only with a datagram under way or a path to switch to. *)
LEMMA LiveClient ==
    ASSUME Inv, reliable, Reaches, Call \/ Client \/ CookieExpires PROVE Reaches'
<1> USE HandshakeAssumption, AttemptsAssumption
<1>1. livePaths' = livePaths /\ peerNext' = peerNext /\ livePaths \in {{0}, {1}}
  BY DEF Call, Client, SendInitiation, SendFails, ReceiveResponse, ReceiveCookie, TimerFires,
     CookieExpires, weather, Reaches
<1>2. activePath \in Paths /\ cookie \in {0, 1, 2} /\ attempt \in Nat /\ timeoutsOnPath \in Nat
      /\ sender \in Nat /\ peerNext \in 0 .. sender
  BY DEF Inv, Types, Paths, NoCookie
<1>3. CASE Call
  <2>1. pc \notin {"wait"} /\ pc' = "send" /\ attempt' = 0 /\ timeoutsOnPath' = 0
        /\ UNCHANGED <<activePath, cookie, respCh, cookieCh, net>>
    BY <1>3 DEF Call
  <2>2. QED BY <1>1, <2>1 DEF Reaches, OneAnswer, EnoughAttempts, Quiet
<1>4. CASE SendInitiation
  <2>1. PICK m : m = [kind |-> "init", sender |-> sender + 1, path |-> activePath, mac2 |-> cookie]
    OBVIOUS
  <2>2. m \in Message
    BY <1>2, <2>1 DEF Message, Paths, NoCookie
  <2>3. pc = "send" /\ pc' = "wait" /\ sender' = sender + 1 /\ attempt' = attempt + 1
        /\ UNCHANGED <<timeoutsOnPath, activePath, cookie, respCh, cookieCh>>
    BY <1>4 DEF SendInitiation
  <2>4. Quiet
    BY <2>3 DEF Reaches, OneAnswer
  <2>5. Cardinality(net) < MaxInFlight
    BY <2>4, FS_EmptySet DEF Quiet
  <2>6. net' = IF activePath \in livePaths THEN {m} ELSE {}
    BY <1>4, <2>1, <2>4, <2>5 DEF SendInitiation, Quiet
  <2>7. OneAnswer'
    <3>1. CASE activePath \in livePaths
      <4>1. Underway(m)'
        BY <1>1, <1>2, <2>1, <2>3, <2>4, <2>6, <3>1 DEF Underway, OnlyOne, Quiet
      <4>2. QED BY <1>1, <2>2, <2>3, <3>1, <4>1 DEF OneAnswer
    <3>2. CASE activePath \notin livePaths
      BY <1>1, <2>3, <2>4, <2>6, <3>2 DEF OneAnswer, Quiet
    <3>3. QED BY <3>1, <3>2
  <2>8. EnoughAttempts'
    BY <1>1, <1>2, <2>3 DEF Reaches, EnoughAttempts
  <2>9. QED BY <1>1, <2>3, <2>7, <2>8 DEF Reaches
<1>5. CASE ReceiveResponse
  <2>1. pc = "wait" /\ respCh # << >> /\ respCh' = Tail(respCh)
        /\ UNCHANGED <<activePath, cookie, cookieCh, net>>
        /\ (Head(respCh).sender = sender => pc' = "ok")
    BY <1>5 DEF ReceiveResponse, AnswersLatest
  <2>2. PICK m \in Message : Underway(m)
    BY <2>1 DEF Reaches, OneAnswer, Quiet
  <2>3. net = {} /\ respCh = <<m>> /\ cookieCh = << >> /\ m.sender = sender
    BY <2>1, <2>2 DEF Underway, OnlyOne
  <2>4. Head(respCh) = m /\ respCh' = << >>
    BY <2>1, <2>3
  <2>5. QED BY <1>1, <2>1, <2>3, <2>4 DEF Reaches, OneAnswer, EnoughAttempts, Quiet
<1>6. CASE ReceiveCookie
  <2>1. pc = "wait" /\ cookieCh # << >> /\ cookieCh' = Tail(cookieCh)
        /\ UNCHANGED <<attempt, activePath, respCh, net>>
        /\ (Head(cookieCh).sender = sender =>
              cookie' = Head(cookieCh).path /\ timeoutsOnPath' = 0 /\ pc' = NextAttempt)
    BY <1>6 DEF ReceiveCookie
  <2>2. activePath \in livePaths
    BY <2>1 DEF Reaches, OneAnswer, Quiet
  <2>3. PICK m \in Message : Underway(m)
    BY <2>1, <2>2 DEF Reaches, OneAnswer
  <2>4. net = {} /\ respCh = << >> /\ cookieCh = <<m>> /\ m.sender = sender /\ m.path = activePath
        /\ cookie # activePath
    BY <2>1, <2>3 DEF Underway, OnlyOne
  <2>5. Head(cookieCh) = m /\ cookieCh' = << >>
    BY <2>1, <2>4
  <2>6. attempt - 1 <= TimeoutsToSwitch
    BY <1>2, <2>1, <2>2, <2>4 DEF Reaches, EnoughAttempts
  <2>7. pc' = "send" /\ cookie' = activePath
    BY <1>2, <2>1, <2>4, <2>5, <2>6 DEF NextAttempt
  <2>8. QED BY <1>1, <1>2, <2>1, <2>2, <2>4, <2>5, <2>6, <2>7
            DEF Reaches, OneAnswer, EnoughAttempts, Quiet
<1>7. CASE TimerFires
  <2>1. pc = "wait" /\ ~ AnswerUnderway /\ pc' = NextAttempt
        /\ UNCHANGED <<attempt, sender, cookie, respCh, cookieCh, net>>
    BY <1>7 DEF TimerFires, TimerExpired
  <2>2. activePath \notin livePaths
    <3>1. SUFFICES ASSUME activePath \in livePaths PROVE FALSE
      OBVIOUS
    <3>2. PICK m \in Message : Underway(m)
      BY <2>1, <3>1 DEF Reaches, OneAnswer
    <3>3. m.sender = sender /\ OnlyOne(m)
      BY <3>2 DEF Underway
    <3>4. m \in net \/ m \in Range(respCh) \/ m \in Range(cookieCh)
      <4>1. m \in Range(<<m>>)
        BY DEF Range
      <4>2. QED BY <3>3, <4>1 DEF OnlyOne
    <3>5. QED BY <2>1, <3>3, <3>4 DEF AnswerUnderway
  <2>3. attempt - 1 = timeoutsOnPath /\ timeoutsOnPath < TimeoutsToSwitch /\ Quiet
    BY <2>1, <2>2 DEF Reaches, EnoughAttempts, OneAnswer
  <2>4. pc' = "send"
    BY <1>2, <2>1, <2>3 DEF NextAttempt
  <2>5. CASE SwitchNow
    <3>1. activePath' = 1 - activePath /\ timeoutsOnPath' = 0 /\ attempt = TimeoutsToSwitch
      BY <1>2, <1>7, <2>3, <2>5 DEF TimerFires, SwitchNow
    <3>2. activePath' \in livePaths
      BY <1>1, <1>2, <2>2, <3>1 DEF Paths
    <3>3. QED BY <1>1, <1>2, <2>1, <2>3, <2>4, <3>1, <3>2
              DEF Reaches, OneAnswer, EnoughAttempts, Quiet
  <2>6. CASE ~ SwitchNow
    <3>1. activePath' = activePath /\ timeoutsOnPath' = timeoutsOnPath + 1
          /\ timeoutsOnPath + 1 # TimeoutsToSwitch
      BY <1>7, <2>6 DEF TimerFires, SwitchNow
    <3>2. QED BY <1>1, <1>2, <2>1, <2>2, <2>3, <2>4, <3>1
              DEF Reaches, OneAnswer, EnoughAttempts, Quiet
  <2>7. QED BY <2>5, <2>6
<1>8. CASE CookieExpires
  <2>1. pc \notin {"send", "wait"} /\ UNCHANGED <<pc, sendFailed, activePath, respCh, cookieCh, net>>
    BY <1>8 DEF CookieExpires
  <2>2. QED BY <1>1, <2>1 DEF Reaches, OneAnswer, EnoughAttempts, Quiet
<1>9. CASE SendFails
  <2>1. pc = "send" /\ pc' = "failed" /\ UNCHANGED <<activePath, cookie, respCh, cookieCh, net>>
    BY <1>9 DEF SendFails
  <2>2. sendFailed'
    BY <1>9, Zenon DEF SendFails
  <2>3. QED BY <1>1, <2>1, <2>2 DEF Reaches, OneAnswer, EnoughAttempts, Quiet
<1>10. QED BY <1>3, <1>4, <1>5, <1>6, <1>7, <1>8, <1>9 DEF Client

(* The peer answers the one datagram, or the reader files the answer.          *)
LEMMA LiveNet ==
    ASSUME Inv, reliable, Reaches, NEW n \in net, Deliver(n) \/ PeerAnswers(n) PROVE Reaches'
<1> USE HandshakeAssumption
<1>1. UNCHANGED <<pc, attempt, timeoutsOnPath, sendFailed, sender, activePath, cookie, livePaths>>
  BY DEF Deliver, PeerAnswers, weather, clientVars
<1>2. pc = "wait" /\ activePath \in livePaths
  BY DEF Reaches, OneAnswer, Quiet
<1>3. PICK m \in Message : Underway(m)
  BY <1>2 DEF Reaches, OneAnswer
<1>4. n = m /\ net = {m} /\ respCh = << >> /\ cookieCh = << >> /\ m.sender = sender
      /\ m.path = activePath /\ m.mac2 = cookie /\ (m.kind = "cookie" => cookie # activePath)
      /\ (m.kind = "init" => peerNext < sender)
  BY <1>3 DEF Underway, OnlyOne
<1>5. sender \in Nat /\ peerNext \in Nat
  BY DEF Inv, Types
<1>6. \E k \in Message : Underway(k)'
  <2>1. CASE Deliver(m)
    <3>1. net' = {} /\ m.kind \in {"resp", "cookie"} /\ peerNext' = peerNext
      BY <1>4, <2>1 DEF Deliver, Message
    <3>2. Len(respCh) < ChanCap /\ Len(cookieCh) < ChanCap
      BY <1>4
    <3>3. CASE m.kind = "resp"
      <4>1. respCh' = <<m>> /\ cookieCh' = << >>
        BY <1>4, <2>1, <3>2, <3>3 DEF Deliver
      <4>2. Underway(m)'
        BY <1>1, <1>4, <3>1, <3>3, <4>1 DEF Underway, OnlyOne
      <4>3. QED BY <4>2
    <3>4. CASE m.kind = "cookie"
      <4>1. respCh' = << >> /\ cookieCh' = <<m>>
        BY <1>4, <2>1, <3>2, <3>4 DEF Deliver
      <4>2. Underway(m)'
        BY <1>1, <1>4, <3>1, <3>4, <4>1 DEF Underway, OnlyOne
      <4>3. QED BY <4>2
    <3>5. QED BY <3>1, <3>3, <3>4
  <2>2. CASE PeerAnswers(m)
    <3>1. PICK k : k = IF Wanted(m) THEN [m EXCEPT !.kind = "resp"] ELSE [m EXCEPT !.kind = "cookie"]
      OBVIOUS
    <3>2. k \in Message /\ k.sender = m.sender /\ k.path = m.path /\ k.mac2 = m.mac2
          /\ k.kind = IF Wanted(m) THEN "resp" ELSE "cookie"
      BY <3>1 DEF Message
    <3>3. net' = {k} /\ respCh' = << >> /\ cookieCh' = << >>
      BY <1>4, <2>2, <3>1 DEF PeerAnswers
    <3>4. ~ Wanted(m) => cookie # activePath
      BY <1>4 DEF Wanted
    <3>5. Underway(k)'
      BY <1>1, <1>4, <3>2, <3>3, <3>4 DEF Underway, OnlyOne
    <3>6. QED BY <3>2, <3>5
  <2>3. QED BY <1>4, <2>1, <2>2
<1>7. OneAnswer'
  BY <1>1, <1>2, <1>6 DEF OneAnswer
<1>8. EnoughAttempts'
  BY <1>1 DEF Reaches, EnoughAttempts
<1>9. QED BY <1>1, <1>7, <1>8 DEF Reaches

(* Every step keeps the count of attempts and the datagram under way.        *)
LEMMA LiveStep == Inv /\ LiveInv /\ [Next]_vars => LiveInv'
<1> SUFFICES ASSUME Inv, LiveInv, [Next]_vars, reliable' PROVE Reaches'
  BY DEF LiveInv
<1>1. reliable
  <2>1. reliable' = reliable
    BY DEF Next, Client, Call, SendInitiation, ReceiveResponse, ReceiveCookie, TimerFires, SendFails, GiveUp,
       CookieExpires, Deliver, PeerAnswers, Lose, LoadChanges, Rest, weather, vars
  <2>2. QED BY <2>1, Zenon
<1>2. Reaches
  BY <1>1 DEF LiveInv
<1>3. CASE UNCHANGED vars
  BY <1>2, <1>3 DEF vars, Reaches, OneAnswer, EnoughAttempts, Quiet, Underway, OnlyOne
<1>4. ~ GiveUp /\ ~ LoadChanges /\ \A m \in net : ~ Lose(m)
  BY <1>1 DEF GiveUp, LoadChanges, Lose
<1>5. QED BY <1>1, <1>2, <1>3, <1>4, LiveClient, LiveNet DEF Next, Rest

(* With one socket that reliably reaches the peer every handshake none of      *)
(* whose sends returns an error succeeds, whichever socket it starts on and    *)
(* even if the peer wants a cookie first (switchActivePath, consumeCookie, the *)
(* five attempts).  A send error ends the handshake on the spot.              *)
THEOREM LivePathSuffices == Spec => []OneLivePathSuffices
<1>1. Inv /\ LiveInv /\ [Next]_vars => (Inv /\ LiveInv)'
  BY StepInv, LiveStep
<1>2. Init => Inv /\ LiveInv
  BY InitInv, LiveInit
<1>3. Inv /\ LiveInv => OneLivePathSuffices
  BY DEF LiveInv, Reaches, OneLivePathSuffices
<1>4. QED BY <1>1, <1>2, <1>3, PTL DEF Spec

----------------------------------------------------------------------------
(* The replay window.                                                       *)

InWindow(n) == n <= max /\ max < n + win

WindowTypes ==
    /\ started \in BOOLEAN
    /\ max \in Counter
    /\ delivered \in [Counter -> Nat]

(* Before the first Accept the window is empty and nothing was delivered.    *)
Untouched == ~ started => seen = {} /\ \A n \in Counter : delivered[n] = 0

(* Nothing is delivered that max has not passed.                            *)
NothingAbove == started => \A n \in Counter : n > max => delivered[n] = 0

(* Inside the window, the bit of a counter is set exactly when the counter   *)
(* was delivered.                                                           *)
BitsExact ==
    started => \A n \in Counter : InWindow(n) => (Bit(n) \in seen <=> delivered[n] = 1)

WindowInv == WindowTypes /\ Untouched /\ NothingAbove /\ BitsExact /\ DeliveredOnce /\ AcceptReturns

----------------------------------------------------------------------------
(* Two counters less than a window apart never share a bit of the bitmap.    *)
LEMMA BitsDiffer ==
    ASSUME NEW x \in Nat, NEW y \in Nat, x # y, x < y + win, y < x + win
    PROVE  Bit(x) # Bit(y)
<1>1. ASSUME NEW w \in Nat \ {0}, NEW a \in Nat, NEW b \in Nat, a < b, b < a + w
      PROVE  a % w # b % w
  <2>1. SUFFICES ASSUME a % w = b % w PROVE FALSE
    OBVIOUS
  <2>2. a = (w * (a \div w)) + (a % w) /\ b = (w * (b \div w)) + (b % w)
    OBVIOUS
  <2>3. a \div w \in Int /\ b \div w \in Int /\ a % w \in Int
    OBVIOUS
  <2>4. \A p, q, r \in Int : a = w * p + r /\ b = w * q + r => FALSE
    <3>1. SUFFICES ASSUME NEW p \in Int, NEW q \in Int, NEW r \in Int,
                          a = w * p + r, b = w * q + r
                   PROVE  FALSE
      OBVIOUS
    <3>2. b - a = w * (q - p) /\ q - p \in Int
      BY <3>1
    <3>3. \A d \in Int : d <= 0 => w * d <= 0
      OBVIOUS
    <3>4. \A d \in Int : d >= 1 => w * d >= w
      OBVIOUS
    <3>5. QED BY <1>1, <3>2, <3>3, <3>4
  <2>5. QED BY <2>1, <2>2, <2>3, <2>4
<1>2. win \in Nat \ {0}
  BY WindowAssumption
<1>3. CASE x < y
  BY <1>1, <1>2, <1>3 DEF Bit
<1>4. CASE y < x
  BY <1>1, <1>2, <1>4 DEF Bit
<1>5. QED BY <1>3, <1>4

(* What the wrapping comparison n + win <= max means: too far behind the     *)
(* newest counter, or so close to the end of the range that the sum wraps.   *)
LEMMA TooOldMeans ==
    ASSUME NEW n \in Counter, max \in Counter
    PROVE  TooOld(n) <=> \/ n + win < Mod /\ n + win <= max
                         \/ n + win >= Mod /\ n + win - Mod <= max
<1>1. n \in Nat /\ n < Mod /\ max \in Nat /\ max < Mod /\ win \in Nat \ {0}
      /\ Mod \in Nat /\ Mod > 2 * win
  BY WindowAssumption DEF Counter
<1>2. CASE n + win < Mod
  <2>1. (n + win) % Mod = n + win
    BY <1>1, <1>2
  <2>2. QED BY <1>1, <1>2, <2>1 DEF TooOld
<1>3. CASE n + win >= Mod
  <2>1. (n + win) % Mod = n + win - Mod
    BY <1>1, <1>3
  <2>2. QED BY <1>1, <1>3, <2>1 DEF TooOld
<1>4. QED BY <1>1, <1>2, <1>3

(* The clearing loop of Accept ends: the one counter that would keep it       *)
(* running has been refused by then.                                         *)
LEMMA LoopEnds ==
    ASSUME NEW n \in Counter, max \in Counter, ~ TooOld(n)
    PROVE  ~ Spins(n)
<1>1. n \in Nat /\ n < Mod /\ max \in Nat /\ max < Mod /\ win \in Nat \ {0}
      /\ Mod \in Nat /\ Mod > 2 * win
  BY WindowAssumption DEF Counter
<1>2. QED BY <1>1, TooOldMeans DEF Spins

(* A counter that is accepted lies in the window Accept leaves behind.       *)
LEMMA AcceptedInWindow ==
    ASSUME NEW n \in Counter, max \in Counter, ~ TooOld(n), n <= max
    PROVE  max < n + win
<1>1. n \in Nat /\ n < Mod /\ max \in Nat /\ max < Mod /\ win \in Nat \ {0}
      /\ Mod \in Nat /\ Mod > 2 * win
  BY WindowAssumption DEF Counter
<1>2. QED BY <1>1, TooOldMeans

(* Sliding the window up to n keeps the bits of the counters that stay in it  *)
(* and clears those of the counters that enter it.                           *)
LEMMA SlidExact ==
    ASSUME NEW n \in Counter, max \in Counter, NEW y \in Counter,
           y <= n \/ y <= max, n < y + win, max < y + win
    PROVE  Bit(y) \in Slid(n) <=> Bit(y) \in seen /\ (y <= max)
<1>1. n \in Nat /\ y \in Nat /\ max \in Nat /\ win \in Nat \ {0}
  BY WindowAssumption DEF Counter
<1>2. CASE n <= max
  BY <1>1, <1>2 DEF Slid
<1>3. CASE n > max /\ n - max >= win
  BY <1>1, <1>3 DEF Slid
<1>4. CASE n > max /\ n - max < win
  <2>1. Slid(n) = seen \ {Bit(x) : x \in max + 1 .. n}
    BY <1>1, <1>4 DEF Slid
  <2>2. CASE y > max
    <3>1. y \in max + 1 .. n
      BY <1>1, <1>4, <2>2
    <3>2. QED BY <1>1, <2>1, <2>2, <3>1
  <2>3. CASE y <= max
    <3>1. \A x \in max + 1 .. n : Bit(x) # Bit(y)
      <4>1. SUFFICES ASSUME NEW x \in max + 1 .. n PROVE Bit(x) # Bit(y)
        OBVIOUS
      <4>2. x \in Nat /\ x # y /\ x < y + win /\ y < x + win
        BY <1>1, <2>3
      <4>3. QED BY <1>1, <4>2, BitsDiffer
    <3>2. QED BY <2>1, <2>3, <3>1
  <2>4. QED BY <1>1, <2>2, <2>3
<1>5. QED BY <1>1, <1>2, <1>3, <1>4

----------------------------------------------------------------------------
(* A window that has accepted nothing satisfies the invariant.               *)
LEMMA WindowInitInv == WindowInit => WindowInv
<1>1. 0 \in Counter
  BY WindowAssumption DEF Counter
<1>2. SUFFICES ASSUME WindowInit PROVE WindowInv
  OBVIOUS
<1>3. ~ started /\ started \in BOOLEAN /\ ~ spinning
  BY <1>2, Zenon DEF WindowInit
<1>4. max = 0 /\ seen = {} /\ delivered = [n \in Counter |-> 0]
  BY <1>2 DEF WindowInit
<1>5. WindowTypes /\ Untouched /\ DeliveredOnce
  BY <1>1, <1>3, <1>4 DEF WindowTypes, Untouched, DeliveredOnce
<1>6. QED BY <1>3, <1>5 DEF WindowInv, NothingAbove, BitsExact, AcceptReturns

(* A datagram whose counter is recorded.  First what becomes of the counter   *)
(* itself, then of every other counter in the new window.                    *)
LEMMA AcceptInv ==
    ASSUME WindowInv, NEW n \in Counter, Receive(n, TRUE)
    PROVE  WindowInv'
<1>1. n \in Nat /\ n < Mod /\ max \in Nat /\ max < Mod /\ max \in Counter
      /\ win \in Nat \ {0} /\ Mod \in Nat /\ Mod > 2 * win
  BY WindowAssumption DEF Counter, WindowInv, WindowTypes
<1>2. Accept(n) /\ delivered' = [delivered EXCEPT ![n] = IF Fresh(n) /\ @ < 2 THEN @ + 1 ELSE @]
  BY DEF Receive, Recorded
<1>3. started' = TRUE
  BY <1>2 DEF Accept
<1>4. spinning' = FALSE
  BY <1>1, <1>2, LoopEnds DEF Accept
<1>5. CASE ~ started
  <2>1. max' = n /\ seen' = {Bit(n)} /\ Fresh(n)
    BY <1>2, <1>5 DEF Accept, WindowInv, Untouched, Fresh
  <2>2. delivered' = [m \in Counter |-> IF m = n THEN 1 ELSE 0]
    <3>1. delivered \in [Counter -> Nat] /\ \A m \in Counter : delivered[m] = 0
      BY <1>5 DEF WindowInv, WindowTypes, Untouched
    <3>2. (IF Fresh(n) /\ delivered[n] < 2 THEN delivered[n] + 1 ELSE delivered[n]) = 1
      BY <2>1, <3>1
    <3>3. delivered' = [delivered EXCEPT ![n] = 1]
      BY <1>2, <3>2, Zenon
    <3>4. QED BY <3>1, <3>3
  <2>3. \A m \in Counter : m # n /\ InWindow(m)' => Bit(m) # Bit(n)
    <3>1. SUFFICES ASSUME NEW m \in Counter, m # n, InWindow(m)' PROVE Bit(m) # Bit(n)
      OBVIOUS
    <3>2. m \in Nat /\ m < n + win /\ n < m + win
      BY <1>1, <2>1, <3>1 DEF Counter, InWindow
    <3>3. QED BY <1>1, <3>1, <3>2, BitsDiffer
  <2>4. WindowTypes' /\ Untouched'
    BY <1>1, <1>3, <2>1, <2>2 DEF WindowTypes, Untouched
  <2>5. NothingAbove' /\ DeliveredOnce'
    BY <1>1, <2>1, <2>2 DEF NothingAbove, DeliveredOnce
  <2>6. BitsExact'
    BY <2>1, <2>2, <2>3 DEF BitsExact, Bit
  <2>7. QED BY <1>4, <2>4, <2>5, <2>6 DEF WindowInv, AcceptReturns
<1>6. CASE started /\ TooOld(n)
  <2>1. UNCHANGED <<max, seen>> /\ ~ Fresh(n)
    BY <1>2, <1>6 DEF Accept, Fresh
  <2>2. delivered' = delivered
    BY <1>2, <2>1 DEF WindowInv, WindowTypes
  <2>3. QED BY <1>3, <1>4, <1>6, <2>1, <2>2 DEF WindowInv, WindowTypes, Untouched, NothingAbove, BitsExact,
       InWindow, Bit, DeliveredOnce, AcceptReturns
<1>7. CASE started /\ ~ TooOld(n)
  <2>1. max' = (IF n > max THEN n ELSE max) /\ seen' = Slid(n) \cup {Bit(n)}
    BY <1>2, <1>7 DEF Accept
  <2>2. max' \in Counter /\ n <= max' /\ max <= max' /\ max' \in Nat /\ (max' = max \/ max' = n)
    BY <1>1, <2>1
  <2>3. n <= max => max < n + win
    BY <1>1, <1>7, AcceptedInWindow
  <2>4. Fresh(n) <=> Bit(n) \notin Slid(n)
    BY <1>7 DEF Fresh
  <2>5. Bit(n) \in Slid(n) <=> delivered[n] = 1
    <3>1. n < n + win /\ max < n + win
      BY <1>1, <2>3
    <3>2. Bit(n) \in Slid(n) <=> Bit(n) \in seen /\ n <= max
      BY <1>1, <3>1, SlidExact
    <3>3. CASE n <= max
      BY <1>7, <2>3, <3>2, <3>3 DEF WindowInv, BitsExact, InWindow
    <3>4. CASE n > max
      BY <1>1, <1>7, <3>2, <3>4 DEF WindowInv, NothingAbove
    <3>5. QED BY <1>1, <3>3, <3>4
  <2>6. delivered[n] \in {0, 1}
    BY <1>1 DEF WindowInv, WindowTypes, DeliveredOnce
  <2>7. delivered' = [delivered EXCEPT ![n] = 1]
    <3>1. (IF Fresh(n) /\ delivered[n] < 2 THEN delivered[n] + 1 ELSE delivered[n]) = 1
      BY <2>4, <2>5, <2>6
    <3>2. QED BY <1>2, <3>1, Zenon
  <2>8. WindowTypes' /\ Untouched'
    BY <1>3, <2>2, <2>7 DEF WindowInv, WindowTypes, Untouched
  <2>9. DeliveredOnce'
    BY <2>7 DEF WindowInv, WindowTypes, DeliveredOnce
  <2>10. NothingAbove'
    <3>1. SUFFICES ASSUME NEW m \in Counter, m > max' PROVE delivered'[m] = 0
      BY DEF NothingAbove
    <3>2. m # n /\ m > max
      BY <1>1, <2>2, <3>1 DEF Counter
    <3>3. QED BY <1>7, <2>7, <3>2 DEF WindowInv, WindowTypes, NothingAbove
  <2>11. BitsExact'
    <3>1. SUFFICES ASSUME NEW m \in Counter, m <= max', max' < m + win
                   PROVE  Bit(m) \in seen' <=> delivered'[m] = 1
      BY DEF BitsExact, InWindow, Bit
    <3>2. CASE m = n
      BY <2>1, <2>7, <3>2 DEF WindowInv, WindowTypes
    <3>3. CASE m # n
      <4>1. m \in Nat /\ n < m + win /\ max < m + win /\ m < n + win
        BY <1>1, <2>1, <2>2, <2>3, <3>1 DEF Counter
      <4>2. Bit(m) # Bit(n)
        BY <1>1, <3>3, <4>1, BitsDiffer
      <4>3. m <= n \/ m <= max
        BY <2>2, <3>1
      <4>4. Bit(m) \in Slid(n) <=> Bit(m) \in seen /\ m <= max
        BY <1>1, <4>1, <4>3, SlidExact
      <4>5. delivered'[m] = delivered[m]
        BY <2>7, <3>3 DEF WindowInv, WindowTypes
      <4>6. CASE m <= max
        BY <1>7, <2>1, <4>1, <4>2, <4>4, <4>5, <4>6 DEF WindowInv, BitsExact, InWindow
      <4>7. CASE m > max
        <5>1. delivered[m] = 0
          BY <1>7, <4>7 DEF WindowInv, NothingAbove
        <5>2. ~ (m <= max)
          BY <1>1, <4>1, <4>7
        <5>3. QED BY <2>1, <4>2, <4>4, <4>5, <5>1, <5>2
      <4>8. QED BY <1>1, <4>1, <4>6, <4>7
    <3>4. QED BY <3>2, <3>3
  <2>12. QED BY <1>4, <2>8, <2>9, <2>10, <2>11 DEF WindowInv, AcceptReturns
<1>8. QED BY <1>5, <1>6, <1>7 DEF WindowInv, WindowTypes

(* A forged datagram leaves the window and the deliveries alone.             *)
LEMMA ForgedChangesNothing ==
    ASSUME WindowInv, NEW n \in Counter, Receive(n, FALSE)
    PROVE  UNCHANGED <<started, max, seen, spinning, delivered>>
<1>1. UNCHANGED <<started, max, seen, spinning>>
  BY DEF Receive, Recorded
<1>2. delivered' = delivered
  BY DEF Receive, WindowInv, WindowTypes
<1>3. QED BY <1>1, <1>2

(* Every Accept keeps the invariant.                                         *)
LEMMA WindowStepInv == WindowInv /\ [WindowNext]_windowVars => WindowInv'
<1> SUFFICES ASSUME WindowInv, [WindowNext]_windowVars PROVE WindowInv'
  OBVIOUS
<1>1. ASSUME UNCHANGED <<started, max, seen, spinning, delivered>> PROVE WindowInv'
  BY <1>1 DEF WindowInv, WindowTypes, Untouched, NothingAbove, BitsExact, InWindow, Bit, DeliveredOnce,
     AcceptReturns
<1>2. CASE WindowNext
  <2>1. PICK n \in Counter, genuine \in BOOLEAN : Receive(n, genuine)
    BY <1>2 DEF WindowNext
  <2>2. CASE genuine = TRUE
    BY <2>1, <2>2, AcceptInv
  <2>3. CASE genuine = FALSE
    BY <1>1, <2>1, <2>3, ForgedChangesNothing
  <2>4. QED BY <2>1, <2>2, <2>3
<1>3. CASE UNCHANGED windowVars
  BY <1>1, <1>3 DEF windowVars
<1>4. QED BY <1>2, <1>3

(* The bits of the window say what was accepted, in every behaviour.         *)
THEOREM WindowExact == WindowSpec => []WindowInv
<1>1. QED BY WindowInitInv, WindowStepInv, PTL DEF WindowSpec

----------------------------------------------------------------------------
(* No datagram of a session reaches the client twice: for every window size  *)
(* and counter width, and every order in which the counters arrive.          *)
THEOREM NoReplay == WindowSpec => []DeliveredOnce
<1>1. WindowInv => DeliveredOnce
  BY DEF WindowInv
<1>2. QED BY <1>1, WindowExact, PTL

(* Accept never loops for ever with the window's mutex held.                 *)
THEOREM AcceptTerminates == WindowSpec => []AcceptReturns
<1>1. WindowInv => AcceptReturns
  BY DEF WindowInv
<1>2. QED BY <1>1, WindowExact, PTL

(* And the window refuses nothing it need not: a genuine datagram is dropped  *)
(* only as a replay, as too old, or at the very end of the counter range.    *)
THEOREM NothingElseRefused == WindowSpec => FreshDelivered
<1> DEFINE Excused ==
      call'.genuine /\ ~ call'.ok =>
         \/ delivered[call'.n] = 1
         \/ call'.n + win <= max
         \/ call'.n >= Mod - win
<1>1. ASSUME WindowInv, WindowNext PROVE Excused
  <2>1. PICK n \in Counter, genuine \in BOOLEAN : Receive(n, genuine)
    BY <1>1 DEF WindowNext
  <2>2. call' = [n |-> n, genuine |-> genuine, ok |-> genuine /\ Fresh(n)]
    BY <2>1 DEF Receive
  <2>3. call'.n = n /\ (call'.genuine /\ ~ call'.ok => ~ Fresh(n))
    BY <2>2
  <2>4. SUFFICES ASSUME ~ Fresh(n) PROVE delivered[n] = 1 \/ n + win <= max \/ n >= Mod - win
    BY <2>3
  <2>5. n \in Nat /\ n < Mod /\ max \in Nat /\ max < Mod /\ max \in Counter
        /\ win \in Nat \ {0} /\ Mod \in Nat /\ Mod > 2 * win
    BY <1>1, WindowAssumption DEF Counter, WindowInv, WindowTypes
  <2>6. CASE TooOld(n)
    BY <2>5, <2>6, TooOldMeans
  <2>7. CASE ~ TooOld(n)
    <3>1. started /\ Bit(n) \in Slid(n)
      BY <2>4, <2>7 DEF Fresh
    <3>2. n <= max => max < n + win
      BY <2>5, <2>7, AcceptedInWindow
    <3>3. Bit(n) \in seen /\ n <= max
      BY <2>5, <3>1, <3>2, SlidExact
    <3>4. QED BY <1>1, <3>1, <3>2, <3>3 DEF WindowInv, BitsExact, InWindow
  <2>8. QED BY <2>6, <2>7
<1>2. WindowInv /\ [WindowNext]_windowVars => [Excused]_windowVars
  BY <1>1
<1>3. QED BY <1>2, WindowExact, PTL DEF WindowSpec, FreshDelivered
=============================================================================
