----------------------------- MODULE Datagrams -----------------------------
(***************************************************************************)
(* Datagrams through the engine: reassembly of fragments                    *)
(* (internal/reassembly), what is done with a whole datagram on its way out  *)
(* or in (reinjectDirect, prepareTunnelPackets, wgReceiveLoop) and the split *)
(* into fragments or TCP segments (internal/packet).                        *)
(*                                                                         *)
(* Lengths are in small units: Align stands for the 8 bytes fragments are    *)
(* counted in, MinMTU for 576.  The contents of a byte is the number of the  *)
(* datagram it belongs to.  One reassembler stands for captureLoop's and for *)
(* wgReceiveLoop's: they differ in where a whole datagram goes.  The network *)
(* loses, repeats and reorders fragments, and identifiers are used again.    *)
(***************************************************************************)
EXTENDS Integers, FiniteSets, FiniteSetsExt

CONSTANTS
    Ids,         \* values of the identification field
    Lens,        \* payload lengths of datagrams
    HdrLens,     \* [4 and 6 -> lengths of the header chain before the payload]
    FragHdr,     \* length of the IPv6 Fragment header
    Align, MinMTU, TunnelMTU,
    EntryLimits, \* values of maxEntries
    MaxBytes, TTL,
    SeqMod,      \* 2^32, the modulus of TCP sequence numbers
    MaxSent,     \* bound: datagrams sent
    MaxFaults    \* bound: datagrams the network disturbs

ASSUME DatagramsAssumption ==
    /\ Lens \subseteq Nat \ {0} /\ {Align, SeqMod} \subseteq Nat \ {0}
    /\ {FragHdr, MinMTU, TunnelMTU, MaxBytes, TTL, MaxSent, MaxFaults} \subseteq Nat
    /\ IsFiniteSet(Ids)
    /\ \A f \in {4, 6} : HdrLens[f] # {} /\ HdrLens[f] \subseteq Nat \ {0}

VARIABLES
    fam,         \* the address family of everything here
    maxEntries,  \* its limit
    sent,        \* [1..n -> datagram]: what was sent, in order
    flight,      \* [fragment -> copies under way]
    table,       \* [Ids -> entry]: the map m of a reassembler
    bytes,       \* its account of buffered bytes
    reused,      \* datagrams that shared their identifier with another
    disturbed,   \* those, and datagrams that lost, repeated or had no room for a fragment
    done,        \* datagrams that became whole
    out,         \* what this step sent on or refused
    split        \* a large TCP packet and the segments made of it

vars == <<fam, maxEntries, sent, flight, table, bytes, reused, disturbed, done, out, split>>

NoEntry == [pieces |-> {}, hdr |-> 0, df |-> FALSE, last |-> -1, age |-> 0, bytes |-> 0,
            maxPacket |-> 0, used |-> FALSE]
NoOut == [route |-> "none", parts |-> {}, sent |-> {}, data |-> <<>>, limit |-> 0, hdr |-> 0]
NoSplit == [base |-> 0, len |-> 0, fin |-> FALSE, segs |-> {}]

Total(hdr, len) == hdr + (IF fam = 6 THEN FragHdr ELSE 0) + len
Ends(p) == p.off + p.len

----------------------------------------------------------------------------
(* The network.                                                             *)

Cuts(len) == {i * Align : i \in 1 .. ((len - 1) \div Align)}
FragmentsOf(n, id, d, cuts) ==
    {[of |-> n, id |-> id, off |-> c, more |-> c # Max({0} \cup cuts),
      len |-> Min({x \in cuts \cup {d.len} : x > c}) - c] : c \in {0} \cup cuts}
OfDatagram(n) == {f \in DOMAIN flight : f.of = n}
InUse(id) == table[id].used \/ \E f \in DOMAIN flight : f.id = id

\* A sender cuts where it likes; an identifier may still be in use for the last one.
SendDatagram ==
    /\ Cardinality(DOMAIN sent) < MaxSent /\ split = NoSplit
    /\ \E id \in Ids, len \in Lens, hdr \in HdrLens[fam], df \in IF fam = 4 THEN BOOLEAN ELSE {FALSE} :
         \E cuts \in (SUBSET Cuts(len)) \ {{}} :
           LET n == Cardinality(DOMAIN sent) + 1
               d == [id |-> id, len |-> len, hdr |-> hdr, df |-> df]
           IN  /\ sent' = [i \in 1..n |-> IF i = n THEN d ELSE sent[i]]
               /\ flight' = [f \in DOMAIN flight \cup FragmentsOf(n, id, d, cuts) |->
                               IF f.of = n THEN 1 ELSE flight[f]]
               /\ reused' = reused \cup
                     (IF InUse(id) THEN {n} \cup {i \in DOMAIN sent : sent[i].id = id} ELSE {})
               /\ disturbed' = disturbed \cup reused'
    /\ out' = NoOut
    /\ UNCHANGED <<fam, maxEntries, table, bytes, done, split>>

Without(f) == IF flight[f] > 1 THEN [flight EXCEPT ![f] = @ - 1]
              ELSE [g \in DOMAIN flight \ {f} |-> flight[g]]

Lose(f) ==
    /\ Cardinality(disturbed) < MaxFaults
    /\ flight' = Without(f) /\ disturbed' = disturbed \cup {f.of}
    /\ out' = NoOut
    /\ UNCHANGED <<fam, maxEntries, sent, table, bytes, reused, done, split>>

Repeat(f) ==
    /\ Cardinality(disturbed) < MaxFaults
    /\ flight' = [flight EXCEPT ![f] = 2] /\ disturbed' = disturbed \cup {f.of}
    /\ out' = NoOut
    /\ UNCHANGED <<fam, maxEntries, sent, table, bytes, reused, done, split>>

----------------------------------------------------------------------------
(* FragmentForMTU.                                                          *)

Whole(len) == {[off |-> 0, len |-> len]}
MaxPayload(hdr, mtu) == ((mtu - Total(hdr, 0)) \div Align) * Align
Pieces(len, n) == {[off |-> c, len |-> Min({n, len - c})] : c \in {i * n : i \in 0 .. ((len - 1) \div n)}}

PiecesHeaderless(hdr, len, mtu) == Pieces(len, (mtu \div Align) * Align)
PiecesForMTU(hdr, len, mtu) == Pieces(len, MaxPayload(hdr, mtu))

\* The parts, or none if it returns an error.
FragmentForMTU(hdr, len, df, mtu) ==
    IF mtu < MinMTU THEN {}
    ELSE IF hdr + len <= mtu THEN Whole(len)
    ELSE IF df \/ MaxPayload(hdr, mtu) < Align THEN {}
    ELSE PiecesForMTU(hdr, len, mtu)

\* reinjectDirect and wgReceiveLoop restore the shape the datagram came in;
\* prepareTunnelPackets cuts what exceeds the tunnel's MTU.
OutParts(hdr, len, df, mtu) ==
    IF hdr + len <= mtu THEN Whole(len) ELSE FragmentForMTU(hdr, len, df, mtu)

\* A failed Send ends the others of a datagram; a full queue drops parts one by one.
SentParts(route, parts) ==
    IF route = "tunnel" THEN SUBSET parts
    ELSE {{p \in parts : p.off < stop} : stop \in {0} \cup {Ends(q) : q \in parts}}

Passes(e, data) ==
    \E route \in {"direct", "tunnel", "in"} :
      LET limit == IF route = "tunnel" THEN TunnelMTU ELSE e.maxPacket
          parts == OutParts(e.hdr, e.last, e.df, limit)
      IN  \E s \in SentParts(route, parts) :
            out' = [route |-> IF parts = {} THEN "refused" ELSE route, parts |-> parts,
                    sent |-> s, data |-> data, limit |-> limit, hdr |-> e.hdr]

----------------------------------------------------------------------------
(* PushInfo.                                                                *)

Expired == {i \in Ids : table[i].used /\ table[i].age > TTL}
Swept == [i \in Ids |-> IF i \in Expired THEN NoEntry ELSE table[i]]

\* What the entries of some identifiers account for together: the size of a disjoint union.
BytesIn(t, S) == Cardinality(UNION {{i} \X (1 .. t[i].bytes) : i \in S})
FreedBySweep == BytesIn(table, Expired)

OverlapsTouching(e, f) == \E p \in e.pieces : f.off <= Ends(p) /\ p.off <= Ends(f)
Overlaps(e, f) == \E p \in e.pieces : f.off < Ends(p) /\ p.off < Ends(f)

\* The entry with the fragment added.  The IPv6 headers come from the fragment that
\* created the entry, the IPv4 header from the one at offset 0.
Added(e, f) ==
    LET d == sent[f.of]
        heads == IF fam = 6 THEN ~e.used ELSE f.off = 0
    IN  [pieces |-> e.pieces \cup {[off |-> f.off, len |-> f.len, of |-> f.of]},
         hdr |-> IF heads THEN d.hdr ELSE e.hdr, df |-> IF heads THEN d.df ELSE e.df,
         last |-> IF f.more THEN e.last ELSE Ends(f),
         age |-> 0, bytes |-> e.bytes + f.len, used |-> TRUE,
         maxPacket |-> Max({e.maxPacket, Total(d.hdr, f.len)})]

Knows(e) == e.hdr > 0 /\ e.last >= 0
Covered(e) == \A i \in 0 .. e.last - 1 : \E p \in e.pieces : p.off <= i /\ i < Ends(p)
DataOf(e) == [i \in 0 .. e.last - 1 |-> (CHOOSE p \in e.pieces : p.off <= i /\ i < Ends(p)).of]

\* bytes after dropLocked; the fragment itself is counted in entry e.
DroppedBytesKept(before, e) == before
DroppedBytes(before, e) == before - e.bytes

\* The early returns of PushInfo in their order; e is the entry found or created.
Push(f) ==
    LET e     == Swept[f.id]
        a     == Added(e, f)
        room  == bytes - FreedBySweep
        drops == \/ fam = 6 /\ e.used /\ e.hdr # sent[f.of].hdr
                 \/ Overlaps(e, f)
                 \/ room + f.len > MaxBytes
        full  == ~e.used /\ Cardinality({i \in Ids : Swept[i].used}) >= maxEntries
        past  == Knows(a) /\ \E p \in a.pieces : Ends(p) > a.last
        ready == Knows(a) /\ ~past /\ Covered(a)
    IN  /\ flight' = Without(f)
        /\ disturbed' = disturbed
             \cup {p.of : p \in UNION {table[i].pieces : i \in Expired}}
             \cup (IF full THEN {f.of} ELSE {})
             \cup (IF ~full /\ room + f.len > MaxBytes THEN {f.of} \cup {p.of : p \in e.pieces} ELSE {})
        /\ \/ /\ full
              /\ table' = Swept /\ bytes' = room
              /\ out' = NoOut /\ UNCHANGED done
           \/ /\ ~full /\ drops
              /\ table' = [Swept EXCEPT ![f.id] = NoEntry]
              /\ bytes' = DroppedBytes(room, e)
              /\ out' = NoOut /\ UNCHANGED done
           \/ /\ ~full /\ ~drops /\ past
              /\ table' = [Swept EXCEPT ![f.id] = NoEntry]
              /\ bytes' = DroppedBytes(room + f.len, a)
              /\ out' = NoOut /\ UNCHANGED done
           \/ /\ ~full /\ ~drops /\ ~past /\ ~ready
              /\ table' = [Swept EXCEPT ![f.id] = a]
              /\ bytes' = room + f.len
              /\ out' = NoOut /\ UNCHANGED done
           \/ /\ ~full /\ ~drops /\ ready
              /\ table' = [Swept EXCEPT ![f.id] = NoEntry]
              /\ bytes' = DroppedBytes(room + f.len, a)
              /\ done' = done \cup {f.of}
              /\ Passes(a, DataOf(a))
        /\ UNCHANGED <<fam, maxEntries, sent, reused, split>>

\* maintenanceLoop, once a minute.
Sweep ==
    /\ table' = Swept /\ bytes' = bytes - FreedBySweep
    /\ disturbed' = disturbed \cup {p.of : p \in UNION {table[i].pieces : i \in Expired}}
    /\ out' = NoOut
    /\ UNCHANGED <<fam, maxEntries, sent, flight, reused, done, split>>

Tick ==
    /\ \E i \in Ids : table[i].used
    /\ table' = [i \in Ids |-> IF table[i].used /\ table[i].age <= TTL
                               THEN [table[i] EXCEPT !.age = @ + 1] ELSE table[i]]
    /\ out' = NoOut
    /\ UNCHANGED <<fam, maxEntries, sent, flight, bytes, reused, disturbed, done, split>>

----------------------------------------------------------------------------
(* SplitForMTU: a TCP packet the adapter would have segmented, on its way to *)
(* the tunnel.  TcpHdr is the length of its headers, flags but FIN left out. *)

TcpHdr == 1 + CHOOSE h \in HdrLens[fam] : TRUE
FinOnAll(off, len, n, fin) == fin
FinOn(off, len, n, fin) == fin /\ off + n >= len
SplitForMTU(base, len, fin) ==
    LET n == TunnelMTU - TcpHdr
    IN  {[seq |-> (base + p.off) % SeqMod, off |-> p.off, len |-> p.len, fin |-> FinOn(p.off, len, n, fin)] :
           p \in Pieces(len, n)}

CaptureLarge ==
    /\ sent = <<>> /\ TunnelMTU > TcpHdr /\ TunnelMTU >= MinMTU
    /\ \E base \in 0 .. SeqMod - 1, len \in 1 .. SeqMod - 1, fin \in BOOLEAN :
         /\ TcpHdr + len > TunnelMTU
         /\ split' = [base |-> base, len |-> len, fin |-> fin, segs |-> SplitForMTU(base, len, fin)]
    /\ UNCHANGED <<fam, maxEntries, sent, flight, table, bytes, reused, disturbed, done, out>>

----------------------------------------------------------------------------
Init ==
    /\ fam \in {4, 6} /\ maxEntries \in EntryLimits
    /\ sent = <<>> /\ flight = <<>>
    /\ table = [i \in Ids |-> NoEntry] /\ bytes = 0
    /\ reused = {} /\ disturbed = {} /\ done = {} /\ out = NoOut /\ split = NoSplit

Next ==
    \/ SendDatagram \/ CaptureLarge \/ Sweep \/ Tick
    \/ \E f \in DOMAIN flight : Push(f) \/ Lose(f) \/ Repeat(f)

Spec == Init /\ [][Next]_vars

----------------------------------------------------------------------------
(* Properties.                                                              *)

\* The account that refuses fragments at maxBytes is what the entries hold, each of them as
\* many bytes as there are in its pieces: a leak in any of the paths that drop an entry would
\* end in every fragment being refused.
Positions(e) == UNION {p.off .. Ends(p) - 1 : p \in e.pieces}
BytesExact ==
    /\ bytes = BytesIn(table, Ids) /\ bytes \in 0 .. MaxBytes
    /\ \A i \in Ids : table[i].bytes = Cardinality(Positions(table[i]))

\* What is sent on for a reassembled datagram is one datagram as it was sent, if its
\* identifier was not in use for another: its fragments carry every byte once, at its
\* place, none larger than the limit, all but the last of whole units (PushInfo,
\* FragmentForMTU).
PassedOnIntact ==
    out.parts # {} =>
      LET len == Cardinality(DOMAIN out.data)
          n   == out.data[0]
      IN  /\ n \notin reused =>
               /\ len = sent[n].len /\ out.hdr = sent[n].hdr
               /\ \A i \in DOMAIN out.data : out.data[i] = n
          /\ \A i \in 0 .. len - 1 :
               Cardinality({p \in out.parts : p.off <= i /\ i < Ends(p)}) = 1
          /\ \A p \in out.parts :
               IF out.parts = Whole(len) THEN out.hdr + len <= out.limit
               ELSE /\ Total(out.hdr, p.len) <= out.limit
                    /\ p.off % Align = 0 /\ (Ends(p) < len => p.len % Align = 0)
          /\ out.sent \subseteq out.parts

\* A datagram whose fragments all arrived once, in any order and interleaved with any
\* others, became whole unless the reassembler had no room for it or it took too long.
ArrivesWhole ==
    \A n \in DOMAIN sent : (OfDatagram(n) = {} /\ n \notin disturbed) => n \in done

\* The receiver's stream of the segments is the payload of the large packet: every byte at
\* its sequence number, once, across the wrap of the counter, and FIN after the last.
SegmentsRebuildStream ==
    split # NoSplit =>
      /\ \A i \in 0 .. split.len - 1 :
           \E s \in split.segs :
             /\ \E j \in 0 .. s.len - 1 : (s.seq + j) % SeqMod = (split.base + i) % SeqMod /\ s.off + j = i
             /\ \A t \in split.segs \ {s} : i \notin t.off .. Ends(t) - 1
      /\ \A s \in split.segs : TcpHdr + s.len <= TunnelMTU
      /\ {s \in split.segs : s.fin} =
           {s \in split.segs : split.fin /\ (s.seq + s.len) % SeqMod = (split.base + split.len) % SeqMod}
=============================================================================
