# SplitWire: a TLA+ verification project

SplitWire is a Windows program that sends the traffic of chosen programs and
host names through a WireGuard tunnel and leaves the rest alone. It captures
packets with WinDivert, decides per flow, translates addresses into the tunnel
and back, and runs its own WireGuard client. Its window starts and stops the
tunnel and points the system's PAC setting at a local hostname proxy.

This directory models the parts of the program whose correctness depends on
the order in which things happen, checks them with TLC on small instances and
proves the most important invariants with TLAPS for every size. The
specifications are translated from the Go source; `PROJECT.json` maps every
definition to its lines.

## 1. The system's parts

| Part | Source | State | Operations | What is hard |
|---|---|---|---|---|
| NAT mapper | `internal/nat/nat.go` | two maps over shared mapping objects, a port cursor | `PrepareOutbound`, `RestoreInbound`, `Sweep` | re-use of ports, expiry against late answers, exhaustion |
| WireGuard handshake | `internal/wireguard/client.go` | attempt, timeouts on the path, active path, cookie, two reply channels | `handshake`, `makeInitiation`, `consumeResponse`, `consumeCookie`, `reader` | lost, late, duplicated answers; a dead path and a cookie within five attempts |
| WireGuard sessions | same | session table, current session, two mutexes, `rekeying` flag | `ensureSession`, `SendPacket`, `startBackgroundRekey`, `installSession`, `handleTransport`, `keepalive`, `reaper`, `Close` | five kinds of goroutines sharing keys that are closed at some point |
| Replay window | same | highest counter, bit ring | `replay.Accept` | 64-bit edges, sliding by any distance |
| Send queues | `internal/engine/engine_windows.go` | two bounded channels | tail of `captureLoop`, `sendLoop`, `sendOne`, `Close` | priority without starvation, shutdown with full queues |
| Flow routing | `internal/engine/engine_windows.go`, `flowroute.go`, `proxyroute.go`, `proxydial.go`, `internal/policy` | sticky routes, proxy routes, learned addresses, per-flow TLS state | `captureLoop`, `flowLoop`, `dnsLoop`, `maintenanceLoop`, `resetBrowserTCP` | packets and the events about them arrive through different queues |
| Application lifecycle | `cmd/splitwire/main_windows.go`, `internal/app/session.go`, `internal/browserproxy`, `internal/winutil/proxy_windows.go` | window flags, contexts, session, registry | `beginStart`, `finishStart`, `beginStop`, `finishStop`, `closeWindow`, `app.Start`, `Session.Close` | cancellation in mid-start, closing the window, crashes, settings outside the process |
| Log ring | `internal/loghub/loghub.go` and its window | bounded history, pending delta, two flags | `Write`, `SetNotify`, `DrainAndAck`, `Clear` | coalesced wake-ups, overflow, a full edit control |
| Flow index | `internal/flow` | five maps of ownership, one-slot notification | `Add*`, `Delete*`, `Lookup`, `WaitLookup`, `Sweep` | late CLOSE events, endpoint re-use, stolen wake-ups |
| Policy, domains, DNS, configuration | `internal/policy`, `internal/domain`, `internal/config` | rules, address table with expiry | `Decide`, `DecideHost`, `AddGroups`, `ParseDNSResponse` | overlapping groups, TTL edges |
| Browser discovery | `internal/browserdisc`, `internal/tlshello` | per-flow stream buffer, QUIC windows | `FeedTLS`, `SuppressUnknownQUIC`, `Sweep` | out-of-order segments, sequence wrap-around |
| Reassembly and packets | `internal/reassembly`, `internal/packet` | datagrams in pieces | `PushInfo`, `FragmentForMTU`, `SplitForMTU` | order, duplicates, limits |
| Hostname proxy | `internal/browserproxy` | connections | `handleConnect`, `bridge`, `handleHTTP` | half-close of two directions |
| Cryptography, WinDivert, Win32 | `internal/cryptox`, `internal/windivert`, `cmd/splitwire/win32_windows.go` | none, or outside | | not modelled |

How they interact: `captureLoop` takes a packet from the driver, asks the proxy
routes, the sticky routes, the flow index and the policy for its route, and
either reinjects it or passes it through the NAT into the send queues.
`sendLoop` hands queued packets to the WireGuard client, which waits for a
handshake only if it has no usable session. The client's readers put decrypted
packets into a channel that `wgReceiveLoop` empties through `RestoreInbound`.
`flowLoop`, `socketLoop` and `dnsLoop` apply the driver's events to the tables
`captureLoop` reads. The window's thread starts and stops all of it through
`app.Start` and `Session.Close` and shows what the log ring holds.

## 2. Modules

Each module keeps the control of the code - guards, early returns, the order of
assignments, which lock makes what atomic - and abstracts its data.

**NatMapper** (`MCNatMapper` instantiates it). `byOut` and `byReply` map keys
to objects of a heap, because the code's two maps share `*mapping` pointers: an
answer refreshes through one what `Sweep` reads through the other. Every method
holds the mutex and is one action (`PrepareNew`, `PrepareKnown`, `PrepareFails`,
`PrepareNoTunnel`, `RestoreInbound`, `RestoreMiss`, `Sweep`). The port search is
the set of cursor positions it visits, `FoundAt` the first free one. Ages are
ticks, saturating above the sweep age. `lastSent` is a history variable: the
port and age of the last packet each flow sent.

**SendQueues**. A queue is its length. Each `select` of `captureLoop` and
`sendLoop` is a step; where several cases are ready any may be taken.
`bulkWait` and `urgentWait` count how often a ready packet was passed over.

**WgHandshake**. One `handshake` call at a time (its callers hold `hsMu`) with
the reader, the two reply channels, which survive a call, and a network of
datagrams. Sender indices are drawn in increasing order, which also stands for
the TAI64N timestamp the peer compares. The peer is external. Whether the
network is reliable on one path or lossy on both is chosen once. At any attempt
making or writing the initiation may fail (`SendFails`), which ends the call
without a timeout or a switch of the path; `sendFailed` remembers it.

`KeyExchange` is what a call promises, in four steps: it begins, the peer may
derive a new key, and it ends well with the key the peer derived last or it
fails. `ImplementsExchange` states `Exchange!Spec`, fairness included, under a
mapping that forgets attempts, timers, cookies, channels and the network.

**WgSessions** (`MCWgSessions` has its two worlds). Goroutines as program
counters over a table of sessions with ages. A handshake is one long step that
succeeds or fails, which is what `KeyExchange` says of it. `ensureSession`'s
choice of a session and its use under `ioMu` are separate steps. So are
`handleTransport`'s lookup by index, which a delayed, repeated or forged
datagram can direct at any session of the table, and the decryption; a reader
that looked up a session no peer uses any more (`Outlived`) is "late". `world`,
chosen once, holds the times and whether handshakes may fail.

**ReplayWindow**. `Accept` with a counter of `Mod` values instead of 2^64 and a
window of `win` instead of 2048; sums wrap as the code's do, and the clearing
loop is modelled by what it clears and whether it ends (`Spins`).

**FlowRouting**. One 5-tuple used by successive connections of any program or
of the hostname proxy. `captureLoop` is split where other goroutines may run:
proxy lookup, sticky lookup, attribution, decision, action. `flowLoop` handles
FLOW_DELETED in two steps, since each table has a lock of its own. `world`,
chosen once, says whether a live connection may be silent for 30 minutes
("idle") or a 5-tuple may be used again while the engine still has state of its
last connection ("reuse"). Attribution
returns the owner of this or an earlier connection on the tuple, or nobody,
depending on which events have arrived; that sockets of other tuples may answer
for this one is in `FlowIndex` only.
`left` records which packets of the latest connection left, and how; `missed`
whether one of them was taken for another program's.

**Lifecycle**. The window's thread handles one message at a time; the start
goroutine, the stop goroutine, the proxy's context watcher and `captureLoop`
run beside it; `Session.Close` runs once, on whichever goroutine calls it
first. `hasty` and `edited` remember whether the latest start was interrupted
and whether the user changed the setting after it was read, `closedInStart`
whether the window was closed before `finishStart` had handled the start's
result. A PAC that a dead process left is "stale" from the next launch on. The registry, the
listener and the driver handle are outside the process and a crash treats each
as Windows does.

**LogRing**. Text is a sequence of numbered units, so that a gap or a
repetition is visible. Each Ring method is atomic under its mutex and posts the
wake-up after releasing it; the window's thread is a sequence of steps. The
edit control holds `EditLimit` units: of an append that does not fit it takes
what fits (`Inserted`) and drops the rest, and `cut` remembers that until the
text is replaced or cleared.

**FlowIndex** (`MCFlowIndex`). The system's sockets on one local port are the
truth (`os`); the five maps of the index follow from the events. SOCKET events
of one socket and FLOW events of one 5-tuple arrive in order, all others in any
order (`handled`, `flowQ`), so a CLOSE can come after the port has a new owner.
Each Index method is atomic under its mutex, `signal` a step of its own, since
it follows the unlock. `SnapshotExisting` reads one table after the other while
sockets come and go. `Lookup` is the set of answers the code can give: a Go map
has no order, and two entries may be equally new.

**Datagrams** (`MCDatagrams`). A datagram is a number; a byte's content is the
number of the datagram it comes from, so a mixture is visible. `Push` is
`PushInfo` with its early returns in their order, for both families, which
differ in where the header comes from. A datagram that became whole goes out
DIRECT, to the tunnel or in (`Passes`), cut again where the code does; the
parts actually sent may be fewer (`SentParts`). `Passes` is what happens to a
UDP datagram; TCP to the tunnel goes through `SplitForMTU`, also when it was
reassembled (`prepareTunnelPackets`), and that cut is modelled by
`CaptureLarge`, a TCP packet the adapter would have segmented. IPv6 atomic
fragments and empty last fragments are not generated.

**Policy, TlsStream, Discovery** (`MCDiscovery`). `Policy` has the rules and
the decisions made from them as operators, with the indices by program that the
code compiles; `TlsStream` has `FeedTLS` and `ServerName` as operators on one
state, a stretch of the stream being where it starts and how long it is.
`Discovery` composes them with the address table, successive connections to
port 443 on one 5-tuple and the QUIC windows, and has `captureLoop`, `dnsLoop`,
`bootstrapLoop` and the proxy's handlers as actions. All times are what is left
of them. Whatever needs an attribution gets any program or none (`who`). The
sticky entry is the route and the program it was made for (`Entry`), and stays
for the next connection until FLOW_DELETED is handled; `owed` counts these
events, and one may come in the middle of the next connection's ClientHello.
Each group's bootstrap lookup is a step of its own (`ResolveBootstrap`), with
addresses of its own. `known` and `seeds` are the history the decisions are
compared with: which names were observed for an address, which groups looked it
up, and how long each observation lives. A reset always succeeds here (a failed
one is in `FlowRouting`), and routes are not swept for idleness (in
`FlowRouting` too). `activity` chooses which of DNS,
TLS, QUIC and proxy a behaviour is about; each changes the address table or
reads it, none depends on the steps of another.

Type invariants are stated in the modules with VARIABLES of several kinds. No
run lists them; those of `SendQueues` and `NatMapper` are proved, and the
inductive invariants of the other proofs contain types of their own. `LogRing`
and `ReplayWindow` prefix the names of their specifications (`LogSpec`,
`WindowSpec`), because a proof module extends each together with another module.

## 3. Runs

All runs finish within the limits of a laptop: from seconds to about two
minutes with two workers.

| Run | Question | Bounds |
|---|---|---|
| `nat` | Do the maps agree, do answers reach the sender, is a port kept while in use, does allocation fail only when full? | four outbound keys over 3 local addresses (one family without tunnel), 2 ports in the range, sweep age 1, 3 objects: enough for a collision, exhaustion, wrap of the cursor, expiry and re-use |
| `send_queues` | Does voice traffic leave room for bulk traffic, and do the loops return? | capacities 3 and 2, burst 2, 2 segments: both queues fill up, a burst ends with and without bulk waiting |
| `handshake` | Does the handshake implement `KeyExchange` on a network that loses, duplicates and reorders? Do the attempts suffice if one path is dead and the other delivers? | 2 calls, one datagram in flight beside those kept in the channels; switch after 2 timeouts and 4 attempts instead of 3 and 5, so that timeouts, cookie and response still fit exactly |
| `sessions` | Are keys open while used; is a fresh session never replaced; does a sender ever wait for a periodic rekey; does the table stay small, also after `Close`; does `Close` end? | `Rough`: 3 slots, handshakes fail, goroutines are late, all limits within 2 ticks; `Steady`: 4 slots, the ratios of the code's times (110:170:180) rounded |
| `replay` | Is nothing delivered twice, everything fresh delivered, and does `Accept` return? | window 4, 16 counters: every distance below, at and above the window, up to the largest counter |
| `flow_routing` | One route per connection; no matching ClientHello leaves DIRECT; does DIRECT data stay DIRECT, also when an idle connection's route is swept or the 5-tuple is re-used before its old state is gone? | 2 connections, 2 queued packets, TCP and UDP, group with and without `Apps=*`, each of the three worlds |
| `lifecycle` | Is a window that says "disconnected" clean; do starts and stops end; without a Stop or close in mid-start, do PAC, context and window agree? | 2 launches, crashes, failures and edits of the setting at any time |
| `log_ring` | Is no wake-up lost; is no text lost or repeated while the control has room, and what does a full one show? | ring of 3, an edit control of 6, 10 units, writes up to 4: overflow, writes larger than the ring, appends to a nearly full and to a full control, a clear or an overflow after it |
| `flow_index` | Do the socket maps agree; does a quiet index name the owner; is a wake-up lost? | 2 sockets of 2 programs (one may be older than the handles), 2 flows of both families, 3 bind addresses; ageing, snapshots and waiters in worlds of their own: enough for a late CLOSE, a re-bound port, a stale snapshot row, a stolen wake-up |
| `datagrams` | Do whole datagrams come out intact, is none given up without cause, is the byte account exact, do segments rebuild the stream? | 2 datagrams of 5 units cut in every way at 2-unit boundaries, 2 identifiers, limits of 1 or 2 entries and 7 bytes: fewer than both datagrams need; one disturbed datagram; every sequence number of a modulus of 8 |
| `discovery` | Does every decision follow the rules; is a ClientHello found however it is cut; does a reset end in the tunnel; is QUIC held back briefly only? | 5 rule sets of two groups (by name, by path, `Apps=*`, `Domains=*`, a network), 2 addresses, 2 copies of a program and an unknown one, TTLs of zero, below, at and above a day, at most 2 FLOW_DELETED events outstanding, a ClientHello of 4 units that crosses the modulus 8 after three (the proof has every start); something new is learned while at most one observation is alive, and may then bring four |

Every property of a passing run has a mutant in `PROJECT.json`: a definition
changed as a plausible bug would, for which TLC finds the property violated.

### Disagreements between the code and its documents

`lifecycle_stop_live` is expected to be violated: "Stop also cancels an
in-progress start" - a Stop after the last check of `parent.Err` leaves a
session shown as connected whose context is cancelled: its proxy is closed and
`captureLoop` returns at the next tunnelled packet with the driver handle still
open. `OrderlyStartIsLive` shows that it takes an interrupted start.

Other properties name the case they exempt, where the code does not keep what a
comment or document says, or what one would expect; TLC gives a behaviour as
soon as the exemption is deleted:

- `RouteIsSticky`: "a flow cannot switch DIRECT <-> WireGuard midway through a
  connection" (`CHANGELOG_1.2.2.md`) - a route is swept after 30 idle minutes,
  and the next packet of a tunnelled connection whose address has expired goes
  DIRECT.
- `OneLivePathSuffices`: a path that is dead in such a way that `WriteToUDP`
  reports an error fails the handshake at once, without trying the other path.
- `KeysOpenWhileHeld`: a datagram that names a retired session older than any key
  the peer still uses may be looked up just before the reaper closes the keys it is decrypted with.
- `DecideFollowsRules` counts a bootstrap lookup for the group that made it: of
  two groups with the same domain, one may know an address the other does not.
- `PacPointsAtProxy`: Stop during a start cancels the proxy's own context, and
  its watcher closes the listener before `Session.Close` restores the PAC.
- `WindowCloseRestores`: a window closed during a start has no `gui.session` to
  close, and the process exits with the PAC installed; and so does one whose
  `Restore` failed, which forgets the PAC all the same.
- `UserPacKept`: a PAC set between the two scripts of `InstallSessionPAC` is
  overwritten.
- `HelloKept`, `HelloFound`: a `tlsState` of an earlier connection on the
  5-tuple, which a late packet can create anew, hides the next one's
  ClientHello for 30 seconds; so do bytes sent again after the sequence numbers
  wrapped, a segment the driver's queue let pass, a ClientHello that takes
  longer than the state lives, the FLOW_DELETED of an earlier connection handled
  in mid-ClientHello, and a sticky entry that an earlier connection left without
  an attribution.
- `ResetLeadsToTunnel` is about the program of the sticky entry. When an earlier
  connection of another program left it, the program that was really reset may
  be DIRECT in its next connection, which is then not reset for that again.
- `ArrivesWhole`: an exact duplicate of a fragment counts as an overlap and
  discards the datagram.
- `PassedOnIntact` speaks of what is sent: a datagram whose largest fragment
  was below 576 bytes, or that has DF set and exceeds the limit, is refused by
  `FragmentForMTU`, and a full queue drops parts one by one.
- `IndexTellsTruth` leaves out sockets the index cannot tell apart (0.0.0.0 and
  :: are one key), and flows of a dual-stack UDP socket older than the handles,
  which the system lists in the other family's table.
- `WakeUpNotLost`: the slot is shared, so a waiter for another flow may take the
  wake-up; the first then runs into its 3 ms deadline, after which the code does
  not look again but asks the system's tables.
- `LogShown` and `NoGapNoRepeat`: at the edit control's limit (512 Ki
  characters in the code) `appendEditText` does not trim, what is appended is
  not inserted, and the window stops following until it is cleared or the ring
  overflows. The text shown is still one stretch of the log.

One disagreement is in no property. `README_RU.md:141` sends "ChatGPT.exe +
любой адрес" (any address) to WireGuard, but `decideHostIDs` (`policy.go:117`)
skips groups with `Domains=*`: when another group brings a host into the PAC
file, a request of such a program for it goes through the proxy and DIRECT.
`ProxyRequest` models the answer as the code gives it; a property that agreed
with it would only repeat it.

## 4. Fairness

Liveness is checked under these assumptions only.

- SendQueues: weak fairness of the two loops; strong fairness of `sendLoop`'s
  return, because Go's `select` chooses uniformly among ready cases and so does
  not ignore a closed `ctx.Done()` for ever. `sendOne` returns because
  `SendPacket` is given eight seconds.
- WgHandshake: weak fairness of the goroutine and of a reliable network's
  delivery, strong fairness of the timer's case, for the same reason. It implies
  the fairness of `KeyExchange`: a running handshake ends.
- WgSessions: strong fairness of senders and of exits, since a Go mutex hands
  itself over to a goroutine that has waited for a millisecond and `select`
  is not biased; weak fairness of the others. `NeverStalls` is a safety
  property, with the assumption that the peer answers every handshake and that
  keepalives are configured. `PeerKeeps` is how long a peer sends with a key
  (WireGuard's 180 seconds); it restricts no step and tells which lookups of
  the reader are "late".
- Lifecycle: weak fairness of each goroutine and of the message loop. Nothing is
  assumed of the user, of crashes or of the proxy's watcher.
- FlowIndex, Datagrams, Discovery and FlowRouting have safety properties only.
- LogRing: weak fairness of a logger that is about to post and of the message
  loop. `PostMessage` succeeds: coalescing keeps the queue short.

## 5. Proofs

Each theorem holds for every value of the constants that satisfies the named
assumptions; TLC evaluates these on every run. Bounds such as `MaxConns`,
`MaxLaunches` or `MaxSent` are constants too, so the theorems hold for
behaviours of any length. Every safety property that a passing run checks is
the statement of a theorem.

**NatMapper_proofs**, from `NatAssumption` (ports form a range, `MaxTries` is
its length, every address has one family). `TypeOK /\ MapsAgree` needs
`SentIsMapped`, which ties the history of sent packets to the mapping that
carried them. From it follow `AnswersReachSender`, `PortIsStable` (an action
property) and, with a lemma that the cursor visits the whole range in
`MaxTries` steps, `FailsOnlyWhenFull`.

**Engine_proofs** holds both halves of the packet path.
*Routing*, from `FlowAssumption`: `RouteIsSticky` says only what has left; its
invariant says why nothing else can leave: the packets of a connection come in
order (`InOrder`), what `captureLoop` has read fits where it stands (`Loop`),
and in a calm world a connection is undecided, decided, cut off by a reset or
over (`CalmInv`). `DirectInv` (after DIRECT data no SYN comes, and a route to
the tunnel exists only while the packet that made it is about to be answered by
a reset) gives `DirectStaysDirect` in every world; `HelloInv` (a `tlsState` that
has seen other data has no ClientHello to come) gives `HelloKept`.
*Queues*, from `SendAssumption` (capacities and burst positive): `Position`
bounds `bulkWait` by the place of `sendLoop` - at most `drained` plus the one
urgent packet the blocking select may have taken - and gives `BulkWaitBounded`,
`UrgentWaitBounded` (in no run) and type correctness.

**WireGuard_proofs** holds what is proved of a handshake and of the replay
window. *Handshake*, from `HandshakeAssumption`: no response in the network
or in a channel is newer than what the peer answered (`AnswersKnown`); so the
one that is consumed belongs to the peer's latest key, and every step is a step
of `KeyExchange` or a stutter (`HandshakeIsExchange`, the refinement without
its fairness). `LivePathSuffices` also uses `AttemptsAssumption`: the attempts
cover the timeouts before the switch, the cookie and the response, as the
code's 5 cover 3 + 2. Its invariant counts: on the live path the attempts
already used are at most the timeouts before the switch and one for a cookie,
on the dead one exactly the timeouts, and while an attempt waits on the live
path exactly one datagram is under way, which ends it.
*Replay window*, from `Mod > 2 * win` (2^64 against 2048): inside the
window a bit is set exactly when its counter was delivered, and nothing above
`max` was. The modular core is the lemma that counters less than a window apart
never share a bit. Gives `DeliveredOnce`, `FreshDelivered` and
`AcceptReturns`.

**WgSessions_proofs**. `KeyInv` dates everything a goroutine holds: the age of
a held session is bounded by its age when it was chosen plus the time held, a
retired one was retired no earlier than it was due, and one goroutine at a time
is in a handshake. It gives `KeysOpenWhileHeld` and `FreshNeverReplaced`.
`NeverStalls` needs a bound on the age of the current session for each place of
the rekey goroutine. `TableBounded` needs the true times since retirement,
which the model saturates: the invariant says such times exist, at least
`RekeyAfter` apart and at most `Grace` plus one reaper period, and a pigeonhole
argument bounds their number. Assumptions: `GraceAssumption`, no goroutine is
held up for longer than the grace period and the peer stops using a key in
time (180 s each in the code, and in WireGuard); a reader whose datagram
breaks the second part is "late" and not covered; `KeepaliveAssumption`, for a
peer that answers, keepalives come often enough for a rekey of at most 8 s to
begin and end between 110 s and 170 s. Both are also what the run's worlds
satisfy; without keepalives, or with a goroutine stopped for three minutes, the
code does not promise either property.

**MainWindow_proofs** holds what is proved of the window's thread: what it
starts and stops, and the log it shows.
*Lifecycle*, from `MaxLaunches \in Nat \ {0}`: the properties say what
is true at rest; the invariant says what exists at every line of `app.Start` and
`Session.Close` (`StartOrder`, `CloseOrder`), how the window's flags follow the
two goroutines (`UiFollows`), whose PAC is installed (`PacOwned`) and what an
uninterrupted start implies (`Undisturbed`). Gives all five safety properties;
`WindowCloseRestores` speaks of the registry itself and not of the program's
`installed` flag, which a failed `Restore` clears too.
*Log*: `WakeUpUnderway` needs that a set `notified` flag has its
wake-up underway, and no assumption on sizes. `NoGapNoRepeat` needs that the
bounded history is itself the end of the log (`History`), because an overflow
replaces the window's text by it. `TextHasNoGap` assumes nothing of the sizes:
a control that drops text has been full since, and shows what it held then.

**FlowIndex_proofs**, from `IndexAssumption`: `SocketsAgree` and
`WakeUpNotLost` are inductive together with types (the second needs the first:
deleting a socket leaves no answer that was not there before).
`IndexTellsTruth` needs `TruthInv`: what the index holds of a socket whose
events were handled is the socket as of the last of them (`HeardTruth`), with
no FLOW event left an exact entry is of a socket that has the flow, and a queue
that ends in ESTABLISHED is about such a socket (`FlowTruth`), and an
undisturbed snapshot is sound, and complete for the tables read so far
(`SnapTruth`, `FreshTruth`).

**Discovery_proofs**, from `TimeAssumption`, `RulesAssumption` and
`StreamAssumption` (the order of the code's lifetimes; a program's name has no
path separator and its path has; a ClientHello fits the buffer). Lemmas show
that the indices by name and by path give exactly the groups that select a
program, so that `Decide` without and with the process lookup agree. Four
invariants carry the rest:

- `Learned`: the time left of an address for a group is that of the
  longest-lived observation or lookup that brought it. "Known exactly while an
  observation is alive" alone is not inductive, since an entry must survive the
  expiry of one of several observations. Gives `DecideFollowsRules`.
- `Promise` and `NoDirect`: of the groups that select the program a reset was
  attributed to, one knows the address for at least as long as the reset counts;
  so no direct entry is made for that program, and the one that was there went
  with the reset. Gives `ResetLeadsToTunnel`.
- `QuicWindows`: what is left of both windows of an address is a function of
  the time since its first drop. Gives `QuicDroppedBriefly`.
- `Collecting`: until a watched ClientHello is complete, the buffer holds
  exactly what was sent of it and expects the byte after it, whichever
  connection made the entry it is searched for. Gives
  `HelloFound`, with a lemma on sums of sequence numbers across the wrap.

**Datagrams_proofs**, from `DatagramsAssumption` (lengths and units positive,
finitely many identifiers). The inductive invariant has three layers:

- `Core`: every fragment under way and every piece in the table is part of a
  datagram that was sent under that identifier; pieces of an entry do not
  overlap; an entry knows a header and a length only from one of its pieces
  (`Learnt`), and knows them as soon as it has that piece (`Noted`); the account
  is the sum of the entries. The sum is the size of a disjoint union, so that
  what a sweep or a dropped entry frees follows from the cardinality of finite
  sets and not from an induction. Gives `BytesExact`.
- `Exclusive`: parts of a datagram whose identifier was free are not met by
  parts of another one of that identifier. With `Learnt` an entry holds one
  datagram, its header and its length. With the lemma that `Pieces` partitions
  a payload (every position in one piece, none longer than the limit) it gives
  `PassedOnIntact`.
- `Complete`: the fragments under way of an undisturbed datagram and its pieces
  in the table cover it and do not overlap, so no fragment of it is refused, and
  with `Noted` the last one finds the entry ready. Gives `ArrivesWhole`; its
  base is the lemma that a sender's cuts, wherever they are, cover the datagram.

`SegmentsRebuildStream` comes from the same partition and from arithmetic
modulo `SeqMod`.

Only model-checked: liveness - `LoopsReturn`, `CloseEnds`, `ButtonsComeBack`,
`LogShown` and the fairness in `ImplementsExchange` - which, like ENABLED, is
out of this prover's reach. `ConnectedIsLive` is false (section 3).

## 6. Not modelled, and the plan

Not modelled: cryptographic primitives (arithmetic over bytes, tested against
vectors), the WinDivert and Win32 bindings, parsing and formatting of packets,
DNS names and the configuration file, checksums, the MSS clamp, counters and
logging, the layout of the window. `bridge` and `handleHTTP` move bytes with
`io.Copy` and `net/http`: what can go wrong there is whether a half-close is
forwarded, which depends on the dynamic type of the connection and not on an
order of steps. `.splitwire-hotfix-backup` holds earlier versions of the same
files.

What would come next: a composition of NAT and routing (15 against 30 minutes),
and `FlowIndex`'s answers in place of `FlowRouting`'s open choice.
