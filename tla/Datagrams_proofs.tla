-------------------------- MODULE Datagrams_proofs --------------------------
(***************************************************************************)
(* Proofs about Datagrams: its four invariants hold for every table size,    *)
(* byte limit, set of identifiers, lengths and headers, and for any number of *)
(* datagrams, lost and repeated fragments.                                  *)
(*                                                                         *)
(* The inductive invariant has three layers.  Core: every piece in the table  *)
(* is part of a datagram that was sent under the entry's identifier, pieces   *)
(* of an entry do not overlap, an entry knows its header and its length from   *)
(* one of its pieces and as soon as it has that piece, and the account is the   *)
(* sum of the entries.  Exclusive: a datagram whose identifier was free is not   *)
(* met by parts of another one.  Complete: the fragments under way of an        *)
(* undisturbed datagram and its pieces in the table cover it without overlap,    *)
(* so that its last fragment finds the entry complete.                         *)
(***************************************************************************)
EXTENDS Datagrams, FiniteSetTheorems, WellFoundedInduction, TLAPS

(* The smaller and the larger of two numbers.                                *)
LEMMA SmallerOfTwo ==
    ASSUME NEW x \in Int, NEW y \in Int
    PROVE  Min({x, y}) = IF x < y THEN x ELSE y
<1> DEFINE z == IF x < y THEN x ELSE y
<1>1. z \in {x, y} /\ \A w \in {x, y} : z <= w
  OBVIOUS
<1>2. \A v \in {x, y} : (\A w \in {x, y} : v <= w) => v = z
  OBVIOUS
<1>3. QED BY <1>1, <1>2 DEF Min

LEMMA LargerOfTwo ==
    ASSUME NEW x \in Int, NEW y \in Int
    PROVE  Max({x, y}) = IF x < y THEN y ELSE x
<1> DEFINE z == IF x < y THEN y ELSE x
<1>1. z \in {x, y} /\ \A w \in {x, y} : z >= w
  OBVIOUS
<1>2. \A v \in {x, y} : (\A w \in {x, y} : v >= w) => v = z
  OBVIOUS
<1>3. QED BY <1>1, <1>2 DEF Max

----------------------------------------------------------------------------
(* Cutting into pieces of one length.                                       *)

(* Facts of multiplication.                                                 *)
LEMMA Multiples ==
    ASSUME NEW n \in Nat \ {0}, NEW j \in Int, NEW k \in Int
    PROVE  /\ j * n \in Int
           /\ j <= k => j * n <= k * n
           /\ j < k => j * n + n <= k * n
           /\ j >= 0 => j * n >= 0
<1>1. \A d \in Int : d >= 0 => d * n >= 0
  OBVIOUS
<1>2. \A d \in Int : d >= 1 => d * n >= n
  OBVIOUS
<1>3. k * n - j * n = (k - j) * n
  OBVIOUS
<1>4. j * n \in Int /\ k * n \in Int /\ (k - j) * n \in Int /\ k - j \in Int
  OBVIOUS
<1>5. j <= k => (k - j) * n >= 0
  BY <1>1, <1>4
<1>6. j < k => (k - j) * n >= n
  BY <1>2, <1>4
<1>7. QED BY <1>1, <1>3, <1>4, <1>5, <1>6

LEMMA Division ==
    ASSUME NEW n \in Nat \ {0}, NEW i \in Nat
    PROVE  /\ i \div n \in Nat
           /\ (i \div n) * n <= i /\ i < (i \div n) * n + n
<1>1. i = n * (i \div n) + (i % n) /\ i % n \in 0 .. n - 1
  OBVIOUS
<1>2. i \div n \in Int
  OBVIOUS
<1>3. n * (i \div n) = (i \div n) * n /\ (i \div n) * n \in Int
  BY <1>2
<1>4. (i \div n) * n <= i /\ i < (i \div n) * n + n
  BY <1>1, <1>3
<1>5. i \div n >= 0
  <2>1. SUFFICES ASSUME i \div n < 0 PROVE FALSE
    BY <1>2
  <2>2. (i \div n) * n + n <= 0 * n
    BY <1>2, <2>1, Multiples
  <2>3. QED BY <1>3, <1>4, <2>2
<1>6. QED BY <1>2, <1>4, <1>5

(* The places of the pieces, without Min and set comprehension.                *)
LEMMA PieceAt ==
    ASSUME NEW len \in Nat \ {0}, NEW n \in Nat \ {0}, NEW p
    PROVE  p \in Pieces(len, n) <=>
             \E k \in Nat : /\ k * n < len
                            /\ p = [off |-> k * n, len |-> IF n < len - k * n THEN n ELSE len - k * n]
<1> DEFINE m == (len - 1) \div n
<1>1. m \in Nat /\ m * n <= len - 1 /\ len - 1 < m * n + n
  BY Division
<1>2. ASSUME NEW k \in Nat PROVE k \in 0 .. m <=> k * n < len
  <2>1. k <= m => k * n <= m * n
    BY <1>1, Multiples
  <2>2. m < k => m * n + n <= k * n
    BY <1>1, Multiples
  <2>3. k * n \in Int /\ m * n \in Int
    BY <1>1
  <2> HIDE DEF m
  <2>4. QED BY <1>1, <2>1, <2>2, <2>3
<1>3. ASSUME NEW k \in Nat PROVE Min({n, len - k * n}) = IF n < len - k * n THEN n ELSE len - k * n
  <2>1. len - k * n \in Int
    OBVIOUS
  <2>2. QED BY <2>1, SmallerOfTwo
<1>4. p \in Pieces(len, n) <=> \E k \in 0 .. m : p = [off |-> k * n, len |-> Min({n, len - k * n})]
  BY DEF Pieces
<1> HIDE DEF m
<1>5. \A k : k \in 0 .. m <=> k \in Nat /\ k * n < len
  BY <1>1, <1>2
<1>6. QED BY <1>3, <1>4, <1>5

(* Every position lies in exactly one piece, and no piece is longer than the    *)
(* limit or reaches past the end.                                            *)
LEMMA PiecesPartition ==
    ASSUME NEW len \in Nat \ {0}, NEW n \in Nat \ {0}
    PROVE  /\ \A p \in Pieces(len, n) :
                 /\ p.off \in Nat /\ p.len \in 1 .. n /\ p.off < len /\ Ends(p) <= len
                 /\ p = [off |-> p.off, len |-> p.len]
                 /\ Ends(p) < len => p.len = n
                 /\ Ends(p) = len <=> p.off + n >= len
                 /\ \E k \in Nat : p.off = k * n
           /\ \A p, q \in Pieces(len, n) : p.off = q.off => p = q
           /\ \A i \in 0 .. len - 1 :
                 \E p \in Pieces(len, n) :
                    /\ p.off <= i /\ i < Ends(p)
                    /\ \A q \in Pieces(len, n) : q.off <= i /\ i < Ends(q) => q = p
<1>1. ASSUME NEW p \in Pieces(len, n)
      PROVE  \E k \in Nat : /\ k * n < len /\ p.off = k * n
                            /\ p.len = (IF n < len - k * n THEN n ELSE len - k * n)
                            /\ p = [off |-> p.off, len |-> p.len]
  BY PieceAt
<1>2. ASSUME NEW p \in Pieces(len, n)
      PROVE  /\ p.off \in Nat /\ p.len \in 1 .. n /\ p.off < len /\ Ends(p) <= len
             /\ p = [off |-> p.off, len |-> p.len]
             /\ Ends(p) < len => p.len = n
             /\ Ends(p) = len <=> p.off + n >= len
             /\ \E k \in Nat : p.off = k * n
  <2>1. PICK k \in Nat : /\ k * n < len /\ p.off = k * n
                         /\ p.len = (IF n < len - k * n THEN n ELSE len - k * n)
                         /\ p = [off |-> p.off, len |-> p.len]
    BY <1>1
  <2>2. k * n \in Int /\ k * n >= 0
    BY Multiples
  <2>3. p.off \in Nat /\ p.off < len /\ p.len = (IF n < len - p.off THEN n ELSE len - p.off)
    BY <2>1, <2>2
  <2>4. p.len \in 1 .. n /\ p.off + p.len <= len /\ (p.off + p.len < len => p.len = n)
          /\ (p.off + p.len = len <=> p.off + n >= len)
    BY <2>3
  <2>5. QED BY <2>1, <2>3, <2>4 DEF Ends
<1>3. ASSUME NEW p \in Pieces(len, n), NEW q \in Pieces(len, n), p.off = q.off PROVE p = q
  BY <1>1, <1>3
<1>4. ASSUME NEW i \in 0 .. len - 1
      PROVE  \E p \in Pieces(len, n) :
                /\ p.off <= i /\ i < Ends(p)
                /\ \A q \in Pieces(len, n) : q.off <= i /\ i < Ends(q) => q = p
  <2> DEFINE k == i \div n
             p == [off |-> k * n, len |-> IF n < len - k * n THEN n ELSE len - k * n]
  <2>1. k \in Nat /\ k * n <= i /\ i < k * n + n
    BY Division
  <2> HIDE DEF k
  <2>2. k * n \in Int /\ k * n < len
    BY <2>1
  <2>3. p \in Pieces(len, n)
    BY <2>1, <2>2, PieceAt
  <2>4. p.off <= i /\ i < Ends(p)
    BY <2>1, <2>2 DEF Ends
  <2>5. ASSUME NEW q \in Pieces(len, n), q.off <= i, i < Ends(q) PROVE q = p
    <3>1. PICK j \in Nat : q.off = j * n
      BY <1>2
    <3>2. q.len \in 1 .. n /\ q.off \in Nat
      BY <1>2
    <3>3. j * n <= i /\ i < j * n + n
      BY <2>5, <3>1, <3>2 DEF Ends
    <3>4. j * n \in Int /\ (j < k => j * n + n <= k * n) /\ (k < j => k * n + n <= j * n)
      BY <2>1, Multiples
    <3>5. ~ (j < k) /\ ~ (k < j)
      BY <2>1, <2>2, <3>3, <3>4
    <3>6. j = k
      BY <2>1, <3>5
    <3>7. QED BY <1>3, <2>3, <3>1, <3>6
  <2>6. QED BY <2>3, <2>4, <2>5
<1>5. QED BY <1>2, <1>3, <1>4

----------------------------------------------------------------------------
(* TCP segments.                                                            *)

(* Adding to a sequence number, with and without the wrap.                      *)
LEMMA SeqSum ==
    ASSUME NEW x \in 0 .. SeqMod - 1, NEW d \in 0 .. SeqMod - 1
    PROVE  (x + d) % SeqMod = IF x + d < SeqMod THEN x + d ELSE x + d - SeqMod
BY DatagramsAssumption

LEMMA SeqSumAgain ==
    ASSUME NEW x \in 0 .. SeqMod - 1, NEW d \in 0 .. SeqMod - 1, NEW e \in 0 .. SeqMod - 1,
           d + e < SeqMod
    PROVE  (((x + d) % SeqMod) + e) % SeqMod = (x + (d + e)) % SeqMod
<1>1. SeqMod \in Nat \ {0} /\ d + e \in 0 .. SeqMod - 1
  BY DatagramsAssumption
<1> DEFINE y == (x + d) % SeqMod
<1>2. y = IF x + d < SeqMod THEN x + d ELSE x + d - SeqMod
  BY SeqSum
<1>3. y \in 0 .. SeqMod - 1
  BY <1>1, <1>2
<1> HIDE DEF y
<1>4. (y + e) % SeqMod = IF y + e < SeqMod THEN y + e ELSE y + e - SeqMod
  BY <1>3, SeqSum
<1>5. (x + (d + e)) % SeqMod = IF x + (d + e) < SeqMod THEN x + (d + e) ELSE x + (d + e) - SeqMod
  BY <1>1, SeqSum
<1>6. (y + e) % SeqMod = (x + (d + e)) % SeqMod
  BY <1>1, <1>2, <1>3, <1>4, <1>5
<1>7. QED BY <1>6 DEF y

LEMMA HeaderLength ==
    ASSUME fam \in {4, 6}
    PROVE  TcpHdr \in Nat \ {0}
<1>1. HdrLens[fam] # {} /\ HdrLens[fam] \subseteq Nat \ {0}
  BY DatagramsAssumption
<1>2. (CHOOSE h \in HdrLens[fam] : TRUE) \in HdrLens[fam]
  BY <1>1
<1>3. QED BY <1>1, <1>2 DEF TcpHdr

(* A captured large packet is cut into segments that rebuild it.                *)
LEMMA LargeRebuilt ==
    ASSUME fam \in {4, 6}, CaptureLarge
    PROVE  SegmentsRebuildStream'
<1>1. PICK base \in 0 .. SeqMod - 1, len \in 1 .. SeqMod - 1, fin \in BOOLEAN :
         /\ TcpHdr + len > TunnelMTU
         /\ split' = [base |-> base, len |-> len, fin |-> fin, segs |-> SplitForMTU(base, len, fin)]
  BY DEF CaptureLarge
<1> DEFINE n == TunnelMTU - TcpHdr
           segs == SplitForMTU(base, len, fin)
           Seg(p) == [seq |-> (base + p.off) % SeqMod, off |-> p.off, len |-> p.len,
                      fin |-> FinOn(p.off, len, n, fin)]
<1>2. SeqMod \in Nat \ {0} /\ len \in Nat \ {0} /\ TunnelMTU \in Nat /\ TcpHdr \in Nat \ {0}
  BY DatagramsAssumption, HeaderLength
<1>3. n \in Nat \ {0}
  BY <1>2 DEF CaptureLarge
<1>4. \A s : s \in segs <=> \E p \in Pieces(len, n) : s = Seg(p)
  BY DEF SplitForMTU
<1>5. fam' = fam /\ TcpHdr' = TcpHdr
  BY DEF CaptureLarge, TcpHdr
<1> HIDE DEF n, segs
<1>6. /\ \A p \in Pieces(len, n) :
            /\ p.off \in Nat /\ p.len \in 1 .. n /\ p.off < len /\ Ends(p) <= len
            /\ Ends(p) = len <=> p.off + n >= len
      /\ \A p, q \in Pieces(len, n) : p.off = q.off => p = q
      /\ \A i \in 0 .. len - 1 :
            \E p \in Pieces(len, n) :
               /\ p.off <= i /\ i < Ends(p)
               /\ \A q \in Pieces(len, n) : q.off <= i /\ i < Ends(q) => q = p
  BY <1>2, <1>3, PiecesPartition
<1>7. ASSUME NEW i \in 0 .. len - 1
      PROVE  \E s \in segs :
               /\ \E j \in 0 .. s.len - 1 : (s.seq + j) % SeqMod = (base + i) % SeqMod /\ s.off + j = i
               /\ \A t \in segs \ {s} : i \notin t.off .. Ends(t) - 1
  <2>1. PICK p \in Pieces(len, n) :
           /\ p.off <= i /\ i < Ends(p)
           /\ \A q \in Pieces(len, n) : q.off <= i /\ i < Ends(q) => q = p
    BY <1>6
  <2>2. p.off \in Nat /\ p.len \in Nat
    BY <1>3, <1>6
  <2> DEFINE s == Seg(p)
             j == i - p.off
  <2>3. s \in segs /\ s.len = p.len /\ s.off = p.off /\ s.seq = (base + p.off) % SeqMod
    BY <1>4
  <2>4. j \in 0 .. p.len - 1 /\ p.off + j = i /\ p.off \in 0 .. SeqMod - 1 /\ j \in 0 .. SeqMod - 1
          /\ p.off + j < SeqMod
    BY <1>2, <2>1, <2>2 DEF Ends
  <2> HIDE DEF s, j
  <2>5. (s.seq + j) % SeqMod = (base + i) % SeqMod /\ s.off + j = i /\ j \in 0 .. s.len - 1
    BY <2>3, <2>4, SeqSumAgain
  <2>6. ASSUME NEW t \in segs, t # s PROVE i \notin t.off .. Ends(t) - 1
    <3>1. PICK q \in Pieces(len, n) : t = Seg(q)
      BY <1>4
    <3>2. q # p /\ t.off = q.off /\ t.len = q.len /\ q.off \in Nat /\ q.len \in Nat
      BY <1>3, <1>6, <2>6, <3>1 DEF s
    <3>3. ~ (q.off <= i /\ i < Ends(q))
      BY <2>1, <3>2
    <3>4. QED BY <3>2, <3>3 DEF Ends
  <2>7. QED BY <2>3, <2>5, <2>6
<1>8. ASSUME NEW s \in segs
      PROVE  /\ TcpHdr + s.len <= TunnelMTU
             /\ s.fin <=> fin /\ (s.seq + s.len) % SeqMod = (base + len) % SeqMod
  <2>1. PICK p \in Pieces(len, n) : s = Seg(p)
    BY <1>4
  <2>2. s.len = p.len /\ s.seq = (base + p.off) % SeqMod /\ (s.fin <=> fin /\ p.off + n >= len)
    BY <2>1 DEF FinOn
  <2>3. p.off \in Nat /\ p.len \in 1 .. n /\ p.off < len /\ p.off + p.len <= len
          /\ (p.off + p.len = len <=> p.off + n >= len)
    BY <1>6 DEF Ends
  <2>4. TcpHdr + s.len <= TunnelMTU
    BY <1>2, <1>3, <2>2, <2>3 DEF n
  <2> DEFINE e == p.off + p.len
  <2>5. p.off \in 0 .. SeqMod - 1 /\ p.len \in 0 .. SeqMod - 1 /\ e < SeqMod /\ e \in 1 .. len
          /\ e \in 0 .. SeqMod - 1 /\ len \in 0 .. SeqMod - 1
    BY <1>2, <1>3, <2>3
  <2>6. (s.seq + s.len) % SeqMod = (base + e) % SeqMod
    BY <2>2, <2>5, SeqSumAgain
  <2> HIDE DEF e
  <2>7. (base + e) % SeqMod = (IF base + e < SeqMod THEN base + e ELSE base + e - SeqMod)
    BY <2>5, SeqSum
  <2>8. (base + len) % SeqMod = (IF base + len < SeqMod THEN base + len ELSE base + len - SeqMod)
    BY <2>5, SeqSum
  <2>9. (base + e) % SeqMod = (base + len) % SeqMod <=> e = len
    BY <1>2, <2>5, <2>7, <2>8
  <2>10. QED BY <2>2, <2>3, <2>4, <2>6, <2>9 DEF e
<1>9. split'.base = base /\ split'.len = len /\ split'.fin = fin /\ split'.segs = segs
  BY <1>1 DEF segs
<1>10. /\ \A i \in 0 .. split'.len - 1 :
            \E s \in split'.segs :
              /\ \E j \in 0 .. s.len - 1 :
                   (s.seq + j) % SeqMod = (split'.base + i) % SeqMod /\ s.off + j = i
              /\ \A t \in split'.segs \ {s} : i \notin t.off .. Ends(t) - 1
       /\ \A s \in split'.segs : TcpHdr' + s.len <= TunnelMTU
       /\ {s \in split'.segs : s.fin} =
            {s \in split'.segs : split'.fin /\ (s.seq + s.len) % SeqMod = (split'.base + split'.len) % SeqMod}
  BY <1>5, <1>7, <1>8, <1>9
<1>11. QED BY <1>10 DEF SegmentsRebuildStream, Ends

LEMMA SegmentsKept ==
    ASSUME fam \in {4, 6}, SegmentsRebuildStream, [Next]_vars
    PROVE  fam' = fam /\ SegmentsRebuildStream'
<1>1. ASSUME UNCHANGED <<fam, split>> PROVE SegmentsRebuildStream'
  BY <1>1 DEF SegmentsRebuildStream, TcpHdr, Ends
<1>2. CASE CaptureLarge
  BY <1>2, LargeRebuilt DEF CaptureLarge
<1>3. /\ SendDatagram => UNCHANGED <<fam, split>>
      /\ Sweep => UNCHANGED <<fam, split>>
      /\ Tick => UNCHANGED <<fam, split>>
      /\ \A f : Push(f) => UNCHANGED <<fam, split>>
      /\ \A f : Lose(f) => UNCHANGED <<fam, split>>
      /\ \A f : Repeat(f) => UNCHANGED <<fam, split>>
      /\ UNCHANGED vars => UNCHANGED <<fam, split>>
  BY Zenon DEF SendDatagram, Sweep, Tick, Push, Lose, Repeat, vars
<1>4. QED BY <1>1, <1>2, <1>3 DEF Next

----------------------------------------------------------------------------
(* The account of buffered bytes.                                           *)

Held(t, S) == UNION {{i} \X (1 .. t[i].bytes) : i \in S}

(* What a set of entries holds is finite.                                    *)
LEMMA HeldFinite ==
    ASSUME NEW t, NEW S \in SUBSET Ids, \A i \in S : t[i].bytes \in Nat
    PROVE  IsFiniteSet(Held(t, S)) /\ BytesIn(t, S) \in Nat /\ BytesIn(t, S) = Cardinality(Held(t, S))
<1> DEFINE F == [i \in S |-> {i} \X (1 .. t[i].bytes)]
           U == {F[i] : i \in S}
<1>1. IsFiniteSet(S)
  BY DatagramsAssumption, FS_Subset
<1>2. IsFiniteSet(U)
  <2>1. F \in Surjection(S, U)
    BY DEF Surjection
  <2> HIDE DEF F, U
  <2>2. QED BY <1>1, <2>1, FS_Surjection DEF ExistsSurjection
<1>3. ASSUME NEW i \in S PROVE IsFiniteSet({i} \X (1 .. t[i].bytes))
  <2> DEFINE m == t[i].bytes
  <2>1. m \in Int /\ 1 \in Int
    OBVIOUS
  <2> HIDE DEF m
  <2>2. IsFiniteSet(1 .. m)
    BY <2>1, FS_Interval
  <2>3. IsFiniteSet({i})
    BY FS_Singleton
  <2>4. IsFiniteSet({i} \X (1 .. m))
    BY <2>2, <2>3, FS_Product
  <2>5. QED BY <2>4 DEF m
<1>4. IsFiniteSet(UNION U)
  <2>1. \A V \in U : IsFiniteSet(V)
    BY <1>3
  <2> HIDE DEF U
  <2>2. QED BY <1>2, <2>1, FS_UNION
<1>5. Held(t, S) = UNION U
  BY DEF Held
<1>6. QED BY <1>4, <1>5, FS_CardinalityType DEF BytesIn, Held

LEMMA HeldBy ==
    ASSUME NEW t, NEW S, NEW x
    PROVE  x \in Held(t, S) <=> \E i \in S : x \in {i} \X (1 .. t[i].bytes)
BY Zenon DEF Held

LEMMA BytesApart ==
    ASSUME NEW t, NEW S \in SUBSET Ids, NEW T \in SUBSET Ids, S \cap T = {},
           \A i \in S \cup T : t[i].bytes \in Nat
    PROVE  BytesIn(t, S \cup T) = BytesIn(t, S) + BytesIn(t, T)
<1>1. /\ IsFiniteSet(Held(t, S)) /\ BytesIn(t, S) = Cardinality(Held(t, S)) /\ BytesIn(t, S) \in Nat
      /\ IsFiniteSet(Held(t, T)) /\ BytesIn(t, T) = Cardinality(Held(t, T)) /\ BytesIn(t, T) \in Nat
      /\ BytesIn(t, S \cup T) = Cardinality(Held(t, S \cup T))
  BY HeldFinite
<1>2. Held(t, S \cup T) = Held(t, S) \cup Held(t, T)
  BY HeldBy
<1>3. Held(t, S) \cap Held(t, T) = {}
  <2>1. SUFFICES ASSUME NEW x, x \in Held(t, S), x \in Held(t, T) PROVE FALSE
    BY Zenon
  <2>2. PICK i \in S : x \in {i} \X (1 .. t[i].bytes)
    BY <2>1, HeldBy
  <2>3. PICK j \in T : x \in {j} \X (1 .. t[j].bytes)
    BY <2>1, HeldBy
  <2>4. x[1] = i /\ x[1] = j
    BY <2>2, <2>3
  <2>5. QED BY <2>4
<1>4. Cardinality(Held(t, S) \cup Held(t, T)) =
        Cardinality(Held(t, S)) + Cardinality(Held(t, T)) - Cardinality({})
  BY <1>1, <1>3, FS_Union
<1>5. Cardinality({}) = 0
  BY FS_EmptySet
<1>6. BytesIn(t, S \cup T) = BytesIn(t, S) + BytesIn(t, T) - 0
  BY <1>1, <1>2, <1>4, <1>5, Zenon
<1>7. QED BY <1>1, <1>6

LEMMA BytesOfOne ==
    ASSUME NEW t, NEW i \in Ids, t[i].bytes \in Nat
    PROVE  BytesIn(t, {i}) = t[i].bytes
<1>1. Held(t, {i}) = {i} \X (1 .. t[i].bytes)
  BY HeldBy
<1> DEFINE m == t[i].bytes
<1>2. m \in Nat /\ 1 \in Int /\ m \in Int
  OBVIOUS
<1> HIDE DEF m
<1>3. IsFiniteSet(1 .. m) /\ Cardinality(1 .. m) = IF 1 > m THEN 0 ELSE m - 1 + 1
  BY <1>2, FS_Interval
<1>4. IsFiniteSet({i}) /\ Cardinality({i}) = 1
  BY FS_Singleton
<1>5. Cardinality({i} \X (1 .. m)) = Cardinality({i}) * Cardinality(1 .. m)
  BY <1>3, <1>4, FS_Product
<1>6. Cardinality({i} \X (1 .. m)) = m
  BY <1>2, <1>3, <1>4, <1>5
<1>7. BytesIn(t, {i}) = Cardinality(Held(t, {i}))
  BY HeldFinite
<1>8. QED BY <1>1, <1>6, <1>7 DEF m

LEMMA BytesSame ==
    ASSUME NEW t, NEW u, NEW S \in SUBSET Ids, \A i \in S : t[i].bytes = u[i].bytes
    PROVE  BytesIn(t, S) = BytesIn(u, S)
<1>1. {{i} \X (1 .. t[i].bytes) : i \in S} = {{i} \X (1 .. u[i].bytes) : i \in S}
  OBVIOUS
<1>2. QED BY <1>1 DEF BytesIn

LEMMA BytesOfNone ==
    ASSUME NEW t, NEW S \in SUBSET Ids, \A i \in S : t[i].bytes = 0
    PROVE  BytesIn(t, S) = 0
<1>1. Held(t, S) = {}
  <2>1. SUFFICES ASSUME NEW x \in Held(t, S) PROVE FALSE
    BY Zenon
  <2>2. PICK i \in S : x \in {i} \X (1 .. t[i].bytes)
    BY <2>1, HeldBy
  <2>3. x[2] \in 1 .. 0
    BY <2>2
  <2>4. QED BY <2>3
<1>2. QED BY <1>1, HeldFinite, FS_EmptySet

(* When one entry changes the sum changes by as much.                          *)
LEMMA BytesChange ==
    ASSUME NEW t, NEW u, NEW k \in Ids, \A i \in Ids : t[i].bytes \in Nat, u[k].bytes \in Nat,
           \A i \in Ids : i # k => u[i] = t[i]
    PROVE  /\ BytesIn(t, Ids) \in Nat /\ t[k].bytes <= BytesIn(t, Ids)
           /\ BytesIn(u, Ids) = BytesIn(t, Ids) - t[k].bytes + u[k].bytes
<1> DEFINE R == Ids \ {k}
<1>1. R \in SUBSET Ids /\ {k} \in SUBSET Ids /\ R \cap {k} = {} /\ R \cup {k} = Ids
  OBVIOUS
<1>2. \A i \in Ids : u[i].bytes \in Nat
  OBVIOUS
<1>3. BytesIn(t, R) = BytesIn(u, R)
  BY <1>1, BytesSame
<1> HIDE DEF R
<1>4. BytesIn(t, Ids) = BytesIn(t, R) + t[k].bytes
  <2>1. BytesIn(t, R \cup {k}) = BytesIn(t, R) + BytesIn(t, {k})
    BY <1>1, BytesApart
  <2>2. BytesIn(t, {k}) = t[k].bytes
    BY BytesOfOne
  <2>3. QED BY <1>1, <2>1, <2>2
<1>5. BytesIn(u, Ids) = BytesIn(u, R) + u[k].bytes
  <2>1. BytesIn(u, R \cup {k}) = BytesIn(u, R) + BytesIn(u, {k})
    BY <1>1, <1>2, BytesApart
  <2>2. BytesIn(u, {k}) = u[k].bytes
    BY BytesOfOne
  <2>3. QED BY <1>1, <2>1, <2>2
<1>6. BytesIn(t, R) \in Nat
  BY <1>1, HeldFinite
<1>7. QED BY <1>3, <1>4, <1>5, <1>6

----------------------------------------------------------------------------
(* Least and greatest numbers, and the fragments a sender makes.               *)

LEMMA NatOrder ==
    \E R : IsWellFoundedOn(R, Nat) /\ \A a, b \in Nat : a < b => <<a, b>> \in R
<1>1. \A a, b \in Nat : a < b => <<a, b>> \in OpToRel(<, Nat)
  BY DEF OpToRel
<1>2. QED BY <1>1, NatLessThanWellFounded, Zenon

LEMMA LeastOf ==
    ASSUME NEW T, T \subseteq Nat, T # {}
    PROVE  Min(T) \in T /\ \A y \in T : Min(T) <= y
<1>1. PICK R : IsWellFoundedOn(R, Nat) /\ \A a, b \in Nat : a < b => <<a, b>> \in R
  BY NatOrder
<1>2. IsWellFoundedOn(R, Nat) /\ T \subseteq Nat /\ T # {}
  BY <1>1, Zenon
<1>3. PICK x \in T : \A y \in T : ~ (<<y, x>> \in R)
  BY <1>2, WFMin
<1>4. ASSUME NEW y \in T PROVE x <= y
  <2>1. x \in Nat /\ y \in Nat /\ ~ (y < x)
    BY <1>1, <1>3, Zenon
  <2>2. QED BY <2>1
<1>5. \E m \in T : \A y \in T : m <= y
  BY <1>4
<1>6. QED BY <1>5 DEF Min

LEMMA GreatestOf ==
    ASSUME NEW T, T \subseteq Nat, T # {}, NEW b \in Nat, \A y \in T : y <= b
    PROVE  Max(T) \in T /\ \A y \in T : Max(T) >= y
<1> DEFINE U == {b - y : y \in T}
<1>1. U \subseteq Nat /\ U # {}
  OBVIOUS
<1>2. PICK m \in U : \A u \in U : m <= u
  <2> HIDE DEF U
  <2>1. QED BY <1>1, LeastOf
<1>3. PICK x \in T : m = b - x
  OBVIOUS
<1>4. ASSUME NEW y \in T PROVE x >= y
  <2>1. b - x <= b - y /\ x \in Nat /\ y \in Nat
    BY <1>2, <1>3
  <2>2. QED BY <2>1
<1>5. \E z \in T : \A y \in T : z >= y
  BY <1>4
<1>6. QED BY <1>5 DEF Max

LEMMA CutsInside ==
    ASSUME NEW len \in Nat \ {0}, NEW c \in Cuts(len)
    PROVE  c \in 1 .. len - 1
<1>1. Align \in Nat \ {0}
  BY DatagramsAssumption
<1> DEFINE m == (len - 1) \div Align
<1>2. m \in Nat /\ m * Align <= len - 1
  BY <1>1, Division
<1>3. PICK i \in 1 .. m : c = i * Align
  BY DEF Cuts
<1> HIDE DEF m
<1>4. i \in Int /\ m \in Int /\ i * Align <= m * Align /\ 0 * Align + Align <= i * Align
        /\ i * Align \in Int /\ m * Align \in Int
  BY <1>1, <1>2, <1>3, Multiples
<1>5. QED BY <1>1, <1>2, <1>3, <1>4

(* The fragments of a datagram: each of them within it, the last one marked,    *)
(* no two sharing a byte, and every byte in one of them.                       *)
LEMMA FragmentsCover ==
    ASSUME NEW n, NEW id, NEW d, d.len \in Nat \ {0}, NEW cuts \in SUBSET Cuts(d.len)
    PROVE  LET F == FragmentsOf(n, id, d, cuts)
           IN  /\ \A f \in F : /\ f = [of |-> n, id |-> id, off |-> f.off, more |-> f.more, len |-> f.len]
                               /\ f.off \in Nat /\ f.len \in Nat \ {0} /\ Ends(f) <= d.len
                               /\ f.more \in BOOLEAN /\ (f.more <=> Ends(f) # d.len)
               /\ \A f, g \in F : f # g => Ends(f) <= g.off \/ Ends(g) <= f.off
               /\ \A i \in 0 .. d.len - 1 : \E f \in F : f.off <= i /\ i < Ends(f)
<1> DEFINE len == d.len
           F == FragmentsOf(n, id, d, cuts)
           S == {0} \cup cuts
           After(c) == {x \in cuts \cup {len} : x > c}
           Frag(c) == [of |-> n, id |-> id, off |-> c, more |-> c # Max(S), len |-> Min(After(c)) - c]
<1>1. \A c \in cuts : c \in 1 .. len - 1
  BY CutsInside
<1>2. len \in Nat \ {0} /\ \A c \in S : c \in Nat /\ c < len
  BY <1>1
<1>3. \A f : f \in F <=> \E c \in S : f = Frag(c)
  BY DEF FragmentsOf
<1>4. Max(S) \in S /\ \A c \in S : Max(S) >= c
  <2>1. S \subseteq Nat /\ S # {} /\ \A c \in S : c <= len
    <3>1. \A c \in S : c \in Nat /\ c <= len
      BY <1>2, SMT
    <3>2. 0 \in S
      OBVIOUS
    <3> HIDE DEF S
    <3>3. QED BY <3>1, <3>2
  <2> HIDE DEF S
  <2>2. QED BY <1>2, <2>1, GreatestOf
<1>5. ASSUME NEW c \in S PROVE Min(After(c)) \in After(c) /\ \A y \in After(c) : Min(After(c)) <= y
  <2>1. After(c) \subseteq Nat /\ After(c) # {}
    BY <1>1, <1>2
  <2> HIDE DEF After
  <2>2. QED BY <2>1, LeastOf
<1>6. ASSUME NEW c \in S
      PROVE  /\ Frag(c).off = c /\ c \in Nat /\ Frag(c).len = Min(After(c)) - c
             /\ Min(After(c)) \in Nat /\ Min(After(c)) > c /\ Min(After(c)) <= len
             /\ Ends(Frag(c)) = Min(After(c))
             /\ \A x \in S : x > c => Min(After(c)) <= x
  <2>1. c \in Nat /\ c < len /\ len \in After(c)
    BY <1>2
  <2>2. \A x \in S : x > c => x \in After(c)
    BY <1>2, <2>1
  <2>3. Min(After(c)) \in Nat /\ Min(After(c)) > c
    BY <1>1, <1>2, <1>5
  <2>4. \A y \in After(c) : Min(After(c)) <= y
    BY <1>5
  <2> DEFINE m == Min(After(c))
  <2>5. Frag(c).off = c /\ Frag(c).len = m - c
    OBVIOUS
  <2> HIDE DEF After, m
  <2>6. m \in Nat /\ m > c /\ m <= len /\ \A x \in S : x > c => m <= x
    BY <2>1, <2>2, <2>3, <2>4 DEF m
  <2>7. Ends(Frag(c)) = c + (m - c)
    BY <2>5 DEF Ends
  <2>8. c + (m - c) = m
    BY <2>1, <2>6
  <2>9. QED BY <2>1, <2>5, <2>6, <2>7, <2>8 DEF m
<1>7. ASSUME NEW c \in S
      PROVE  (c # Max(S)) <=> Min(After(c)) # len
  <2>1. CASE c = Max(S)
    <3>1. After(c) = {len}
      <4>1. \A x \in cuts : ~ (x > c)
        <5>1. \A x \in cuts : x \in S
          OBVIOUS
        <5> HIDE DEF S
        <5>2. QED BY <1>2, <1>4, <2>1, <5>1
      <4>2. QED BY <1>2, <4>1
    <3>2. Min(After(c)) \in After(c)
      BY <1>5
    <3>3. QED BY <2>1, <3>1, <3>2
  <2>2. CASE c # Max(S)
    <3>1. Max(S) > c /\ Max(S) \in S /\ Max(S) < len /\ Max(S) \in Nat /\ c \in Nat
      <4> HIDE DEF S
      <4>1. QED BY <1>2, <1>4, <2>2
    <3>2. Min(After(c)) <= Max(S) /\ Min(After(c)) \in Nat
      BY <1>6, <3>1
    <3> HIDE DEF S, After
    <3>3. Min(After(c)) # len
      BY <1>2, <3>1, <3>2
    <3>4. QED BY <2>2, <3>3
  <2>3. QED BY <2>1, <2>2
<1> HIDE DEF F, After
<1>8. ASSUME NEW f \in F
      PROVE  /\ f = [of |-> n, id |-> id, off |-> f.off, more |-> f.more, len |-> f.len]
             /\ f.off \in Nat /\ f.len \in Nat \ {0} /\ Ends(f) <= d.len
             /\ f.more \in BOOLEAN /\ (f.more <=> Ends(f) # d.len)
  <2>1. PICK c \in S : f = Frag(c)
    BY <1>3
  <2> HIDE DEF S
  <2>2. /\ f = [of |-> n, id |-> id, off |-> f.off, more |-> f.more, len |-> f.len]
        /\ f.more = (c # Max(S)) /\ f.off = c /\ f.len = Min(After(c)) - c
    BY <2>1
  <2>3. f.more \in BOOLEAN /\ (f.more <=> Min(After(c)) # len)
    BY <1>7, <2>2
  <2>4. c \in Nat /\ Min(After(c)) \in Nat /\ Min(After(c)) > c /\ Min(After(c)) <= len
          /\ Ends(f) = Min(After(c))
    BY <1>6, <2>1
  <2>5. f.off \in Nat /\ f.len \in Nat \ {0}
    BY <2>2, <2>4
  <2>6. QED BY <2>2, <2>3, <2>4, <2>5
<1>9. ASSUME NEW f \in F, NEW g \in F, f # g PROVE Ends(f) <= g.off \/ Ends(g) <= f.off
  <2>1. PICK c \in S : f = Frag(c)
    BY <1>3
  <2>2. PICK b \in S : g = Frag(b)
    BY <1>3
  <2> HIDE DEF S
  <2>3. f.off = c /\ g.off = b /\ c \in Nat /\ b \in Nat /\ c # b
    BY <1>6, <1>9, <2>1, <2>2
  <2>4. Ends(f) = Min(After(c)) /\ Ends(g) = Min(After(b))
    BY <1>6, <2>1, <2>2
  <2>5. (b > c => Min(After(c)) <= b) /\ (c > b => Min(After(b)) <= c)
    BY <1>6
  <2>6. QED BY <2>3, <2>4, <2>5
<1>10. ASSUME NEW i \in 0 .. len - 1 PROVE \E f \in F : f.off <= i /\ i < Ends(f)
  <2> DEFINE B == {x \in S : x <= i}
             c == Max(B)
  <2>1. B \subseteq Nat /\ B # {} /\ i \in Nat /\ \A y \in B : y <= i
    <3>1. \A x \in S : x \in Nat
      BY <1>2
    <3>2. 0 \in S
      OBVIOUS
    <3> HIDE DEF S
    <3>3. i \in Nat
      BY <1>2
    <3>4. QED BY <3>1, <3>2, <3>3
  <2>2. c \in B /\ \A y \in B : c >= y
    <3> HIDE DEF B
    <3>1. QED BY <2>1, GreatestOf
  <2> HIDE DEF c
  <2>3. c \in S /\ c <= i /\ \A x \in S : x <= i => x <= c
    BY <1>2, <2>2
  <2>4. Frag(c) \in F
    BY <1>3, <2>3
  <2>5. /\ Frag(c).off = c /\ Ends(Frag(c)) = Min(After(c))
        /\ c \in Nat /\ Min(After(c)) > c /\ Min(After(c)) \in Nat
    BY <1>6, <2>3
  <2>6. Min(After(c)) \in S \/ Min(After(c)) = len
    BY <1>5, <2>3 DEF After
  <2> DEFINE m == Min(After(c))
  <2> HIDE DEF m, S
  <2>7. m \in Nat /\ m > c /\ (m \in S \/ m = len)
    BY <2>5, <2>6 DEF m
  <2>8. i < m
    BY <1>2, <2>1, <2>3, <2>5, <2>7
  <2>9. QED BY <2>3, <2>4, <2>5, <2>8 DEF m
<1>11. QED BY <1>8, <1>9, <1>10 DEF F

----------------------------------------------------------------------------
(* The inductive invariant.                                                 *)

Datagram == [id : Ids, len : Nat \ {0}, hdr : Nat \ {0}, df : BOOLEAN]
Fragment == [of : Nat, id : Ids, off : Nat, more : BOOLEAN, len : Nat \ {0}]
Piece == [off : Nat, len : Nat \ {0}, of : Nat]
Entry == [pieces : SUBSET Piece, hdr : Nat, df : BOOLEAN, last : Int, age : Nat, bytes : Nat,
          maxPacket : Nat, used : BOOLEAN]

\* Datagrams are numbered in the order they were sent.
Numbered(s) == \E N \in Nat : DOMAIN s = 1 .. N /\ \A i \in 1 .. N : s[i] \in Datagram

\* A fragment under way is part of its datagram.
PartOf(s, f) ==
    /\ f \in Fragment /\ f.of \in DOMAIN s /\ f.id = s[f.of].id
    /\ Ends(f) <= s[f.of].len /\ (f.more <=> Ends(f) # s[f.of].len)
Flights(s, fl) == \A f \in DOMAIN fl : PartOf(s, f) /\ fl[f] \in {1, 2}

\* The pieces of an entry come from datagrams of its identifier and do not overlap.
Apart(p, q) == Ends(p) <= q.off \/ Ends(q) <= p.off
Filled(s, i, e) ==
    /\ e \in Entry /\ (~ e.used => e = NoEntry)
    /\ \A p \in e.pieces : p.of \in DOMAIN s /\ s[p.of].id = i /\ Ends(p) <= s[p.of].len
    /\ \A p, q \in e.pieces : p # q => Apart(p, q)
    /\ IsFiniteSet(Positions(e)) /\ e.bytes = Cardinality(Positions(e))

\* What an entry knows of the header and the length it knows from one of its pieces, and
\* the piece that tells it has told it.
Learnt(s, e) ==
    /\ e.last # -1 => \E p \in e.pieces : e.last = s[p.of].len
    /\ e.hdr # 0 => \E p \in e.pieces : e.hdr = s[p.of].hdr
Noted(v, s, e) ==
    /\ \A p \in e.pieces : Ends(p) = s[p.of].len => e.last # -1
    /\ v = 6 /\ e.used => e.hdr # 0
    /\ v = 4 => \A p \in e.pieces : p.off = 0 => e.hdr # 0

Holds(v, s, i, e) == Filled(s, i, e) /\ Learnt(s, e) /\ Noted(v, s, e)
Tables(v, s, t) == DOMAIN t = Ids /\ t = [i \in Ids |-> t[i]] /\ \A i \in Ids : Holds(v, s, i, t[i])
Account == bytes = BytesIn(table, Ids) /\ bytes \in 0 .. MaxBytes

Core == fam \in {4, 6} /\ Numbered(sent) /\ Flights(sent, flight) /\ Tables(fam, sent, table) /\ Account

\* Parts of a datagram whose identifier was not used for another are not met by parts of
\* another one of that identifier.
Present(n) == OfDatagram(n) # {} \/ \E p \in table[sent[n].id].pieces : p.of = n
Exclusive ==
    /\ reused \subseteq disturbed
    /\ \A n, m \in DOMAIN sent :
         n \notin reused /\ n # m /\ sent[n].id = sent[m].id => ~ (Present(n) /\ Present(m))

\* What is under way of an undisturbed datagram and what the table holds make it up.
Underway(n) ==
    /\ OfDatagram(n) # {}
    /\ \A f \in OfDatagram(n) : flight[f] = 1
    /\ \A f, g \in OfDatagram(n) : f # g => Apart(f, g)
    /\ \A f \in OfDatagram(n), p \in table[sent[n].id].pieces : p.of = n => Apart(f, p)
    /\ \A i \in 0 .. sent[n].len - 1 :
         \/ \E f \in OfDatagram(n) : f.off <= i /\ i < Ends(f)
         \/ \E p \in table[sent[n].id].pieces : p.of = n /\ p.off <= i /\ i < Ends(p)
Complete == \A n \in DOMAIN sent : n \notin disturbed /\ n \notin done => Underway(n)

----------------------------------------------------------------------------
(* Entries.                                                                 *)

(* An empty place in the table is in order.                                   *)
LEMMA NoEntryHolds ==
    ASSUME NEW v, NEW s, NEW i
    PROVE  Holds(v, s, i, NoEntry) /\ NoEntry.bytes = 0 /\ NoEntry.pieces = {}
<1>1. NoEntry \in Entry /\ NoEntry.pieces = {} /\ NoEntry.used = FALSE /\ NoEntry.bytes = 0
        /\ NoEntry.last = -1 /\ NoEntry.hdr = 0
  BY DEF NoEntry, Entry
<1>2. Positions(NoEntry) = {}
  BY <1>1 DEF Positions
<1>3. IsFiniteSet({}) /\ Cardinality({}) = 0
  BY FS_EmptySet
<1>4. Filled(s, i, NoEntry)
  BY <1>1, <1>2, <1>3 DEF Filled
<1>5. ~ NoEntry.used
  BY Zenon DEF NoEntry
<1>6. Learnt(s, NoEntry) /\ Noted(v, s, NoEntry)
  BY <1>1, <1>5 DEF Learnt, Noted
<1>7. QED BY <1>1, <1>4, <1>6 DEF Holds

(* An entry stays in order when more datagrams are sent.                        *)
LEMMA HoldsOn ==
    ASSUME NEW v, NEW s, NEW u, NEW i, NEW e, DOMAIN s \subseteq DOMAIN u,
           \A n \in DOMAIN s : u[n] = s[n], Holds(v, s, i, e)
    PROVE  Holds(v, u, i, e)
<1>1. \A p \in e.pieces : p.of \in DOMAIN s /\ u[p.of] = s[p.of] /\ p.of \in DOMAIN u
  BY DEF Holds, Filled
<1>2. Filled(u, i, e)
  BY <1>1 DEF Holds, Filled
<1>3. Learnt(u, e)
  BY <1>1 DEF Holds, Learnt
<1>4. Noted(v, u, e)
  BY <1>1 DEF Holds, Noted
<1>5. QED BY <1>2, <1>3, <1>4 DEF Holds

(* A datagram's header, length and identifier.                                 *)
LEMMA SentTypes ==
    ASSUME NEW s, Numbered(s), NEW n \in DOMAIN s
    PROVE  /\ s[n] \in Datagram /\ n \in Nat
           /\ s[n].len \in Nat \ {0} /\ s[n].hdr \in Nat \ {0} /\ s[n].id \in Ids /\ s[n].df \in BOOLEAN
<1>1. PICK N \in Nat : DOMAIN s = 1 .. N /\ \A i \in 1 .. N : s[i] \in Datagram
  BY DEF Numbered
<1>2. n \in Nat /\ s[n] \in Datagram
  BY <1>1
<1>3. QED BY <1>2 DEF Datagram

(* The part of a datagram that a fragment adds to an entry.                     *)
LEMMA PieceOf ==
    ASSUME NEW f \in Fragment
    PROVE  LET p == [off |-> f.off, len |-> f.len, of |-> f.of]
           IN  /\ p \in Piece /\ p.off = f.off /\ p.len = f.len /\ p.of = f.of /\ Ends(p) = Ends(f)
               /\ f.off \in Nat /\ f.len \in Nat \ {0} /\ f.of \in Nat /\ f.id \in Ids
               /\ f.more \in BOOLEAN /\ Ends(f) \in Nat /\ f.off < Ends(f) /\ Ends(f) = f.off + f.len
<1>1. f.off \in Nat /\ f.len \in Nat \ {0} /\ f.of \in Nat /\ f.id \in Ids /\ f.more \in BOOLEAN
  BY DEF Fragment
<1>2. QED BY <1>1 DEF Ends, Piece

LEMMA PieceTypes ==
    ASSUME NEW p \in Piece
    PROVE  /\ p.off \in Nat /\ p.len \in Nat \ {0} /\ Ends(p) \in Nat /\ p.off < Ends(p)
           /\ Ends(p) = p.off + p.len /\ p.of \in Nat
BY DEF Piece, Ends

LEMMA EntryTypes ==
    ASSUME NEW e \in Entry
    PROVE  /\ e.pieces \subseteq Piece /\ e.hdr \in Nat /\ e.df \in BOOLEAN /\ e.last \in Int
           /\ e.age \in Nat /\ e.bytes \in Nat /\ e.maxPacket \in Nat /\ e.used \in BOOLEAN
BY DEF Entry

(* The entry with a fragment that does not overlap it added is in order, and     *)
(* holds the bytes of the fragment more.                                       *)
LEMMA AddedFields ==
    ASSUME NEW e, NEW f
    PROVE  LET heads == IF fam = 6 THEN ~ e.used ELSE f.off = 0
               a == Added(e, f)
           IN  /\ a.pieces = e.pieces \cup {[off |-> f.off, len |-> f.len, of |-> f.of]}
               /\ a.hdr = (IF heads THEN sent[f.of].hdr ELSE e.hdr)
               /\ a.df = (IF heads THEN sent[f.of].df ELSE e.df)
               /\ a.last = (IF f.more THEN e.last ELSE Ends(f))
               /\ a.age = 0 /\ a.bytes = e.bytes + f.len /\ a.used = TRUE
               /\ a.maxPacket = Max({e.maxPacket, Total(sent[f.of].hdr, f.len)})
BY DEF Added

LEMMA AddedTyped ==
    ASSUME fam \in {4, 6}, Numbered(sent), NEW e \in Entry, NEW f, PartOf(sent, f)
    PROVE  Added(e, f) \in Entry
<1> DEFINE a == Added(e, f)
           heads == IF fam = 6 THEN ~ e.used ELSE f.off = 0
           p == [off |-> f.off, len |-> f.len, of |-> f.of]
<1>1. f \in Fragment /\ f.of \in DOMAIN sent
  BY DEF PartOf
<1>2. p \in Piece /\ f.len \in Nat \ {0} /\ f.more \in BOOLEAN /\ Ends(f) \in Nat
  BY <1>1, PieceOf
<1>3. sent[f.of].hdr \in Nat /\ sent[f.of].df \in BOOLEAN
  BY <1>1, SentTypes
<1>4. /\ e.pieces \subseteq Piece /\ e.hdr \in Nat /\ e.df \in BOOLEAN /\ e.last \in Int
      /\ e.bytes \in Nat /\ e.maxPacket \in Nat /\ e.used \in BOOLEAN
  BY EntryTypes
<1>5. Total(sent[f.of].hdr, f.len) \in Nat
  BY <1>2, <1>3, DatagramsAssumption DEF Total
<1>6. Max({e.maxPacket, Total(sent[f.of].hdr, f.len)}) \in Nat
  BY <1>4, <1>5, LargerOfTwo
<1> HIDE DEF p
<1>7. a = [pieces |-> e.pieces \cup {p},
           hdr |-> IF heads THEN sent[f.of].hdr ELSE e.hdr, df |-> IF heads THEN sent[f.of].df ELSE e.df,
           last |-> IF f.more THEN e.last ELSE Ends(f),
           age |-> 0, bytes |-> e.bytes + f.len, used |-> TRUE,
           maxPacket |-> Max({e.maxPacket, Total(sent[f.of].hdr, f.len)})]
  BY DEF Added, p
<1> DEFINE hdr == IF heads THEN sent[f.of].hdr ELSE e.hdr
           df == IF heads THEN sent[f.of].df ELSE e.df
           last == IF f.more THEN e.last ELSE Ends(f)
           len == e.bytes + f.len
           max == Max({e.maxPacket, Total(sent[f.of].hdr, f.len)})
           pieces == e.pieces \cup {p}
<1>8. hdr \in Nat /\ df \in BOOLEAN /\ last \in Int /\ len \in Nat /\ max \in Nat /\ pieces \in SUBSET Piece
  BY <1>2, <1>3, <1>4, <1>6
<1> HIDE DEF heads, hdr, df, last, len, max, pieces
<1>9. a = [pieces |-> pieces, hdr |-> hdr, df |-> df, last |-> last, age |-> 0, bytes |-> len,
           used |-> TRUE, maxPacket |-> max]
  BY <1>7 DEF hdr, df, last, len, max, pieces
<1>10. QED BY <1>8, <1>9 DEF Entry

LEMMA AddedHolds ==
    ASSUME fam \in {4, 6}, Numbered(sent), NEW i \in Ids, NEW e, Holds(fam, sent, i, e),
           NEW f, PartOf(sent, f), f.id = i, ~ Overlaps(e, f)
    PROVE  Holds(fam, sent, i, Added(e, f))
<1> DEFINE a == Added(e, f)
           p == [off |-> f.off, len |-> f.len, of |-> f.of]
           heads == IF fam = 6 THEN ~ e.used ELSE f.off = 0
<1>1. f \in Fragment /\ f.of \in DOMAIN sent /\ sent[f.of].id = i /\ Ends(f) <= sent[f.of].len
        /\ (f.more <=> Ends(f) # sent[f.of].len)
  BY DEF PartOf
<1>2. /\ p \in Piece /\ p.off = f.off /\ p.len = f.len /\ p.of = f.of /\ Ends(p) = Ends(f)
      /\ f.off \in Nat /\ f.len \in Nat \ {0} /\ Ends(f) \in Nat /\ f.off < Ends(f)
      /\ Ends(f) = f.off + f.len /\ f.more \in BOOLEAN
  BY <1>1, PieceOf
<1>3. /\ e \in Entry /\ e.pieces \subseteq Piece /\ e.bytes \in Nat
      /\ \A q \in e.pieces : q.of \in DOMAIN sent /\ sent[q.of].id = i /\ Ends(q) <= sent[q.of].len
      /\ \A q, r \in e.pieces : q # r => Apart(q, r)
      /\ IsFiniteSet(Positions(e)) /\ e.bytes = Cardinality(Positions(e))
  BY EntryTypes DEF Holds, Filled
<1>4. /\ a.pieces = e.pieces \cup {p}
      /\ a.hdr = (IF heads THEN sent[f.of].hdr ELSE e.hdr)
      /\ a.last = (IF f.more THEN e.last ELSE Ends(f))
      /\ a.bytes = e.bytes + f.len /\ a.used = TRUE
  BY AddedFields
<1>5. a \in Entry
  BY <1>3, AddedTyped
<1> HIDE DEF p, a
<1>6. ASSUME NEW q \in e.pieces PROVE Apart(q, p) /\ Apart(p, q)
  <2>1. ~ (f.off < Ends(q) /\ q.off < Ends(f))
    BY DEF Overlaps
  <2>2. q.off \in Nat /\ Ends(q) \in Nat
    BY <1>3, PieceTypes
  <2>3. Ends(q) <= f.off \/ Ends(f) <= q.off
    BY <1>2, <2>1, <2>2
  <2>4. QED BY <1>2, <2>3 DEF Apart
<1>7. Positions(a) = Positions(e) \cup (f.off .. Ends(f) - 1)
  <2>1. p.off .. Ends(p) - 1 = f.off .. Ends(f) - 1
    BY <1>2
  <2>2. QED BY <1>4, <2>1, Zenon DEF Positions
<1>8. Positions(e) \cap (f.off .. Ends(f) - 1) = {}
  <2>1. SUFFICES ASSUME NEW x, x \in Positions(e), x \in f.off .. Ends(f) - 1 PROVE FALSE
    BY Zenon
  <2>2. PICK q \in e.pieces : x \in q.off .. Ends(q) - 1
    BY <2>1 DEF Positions
  <2>3. Ends(q) <= p.off \/ Ends(p) <= q.off
    BY <1>6 DEF Apart
  <2>4. q.off \in Nat /\ Ends(q) \in Nat
    BY <1>3, PieceTypes
  <2>5. QED BY <1>2, <2>1, <2>2, <2>3, <2>4
<1>9. IsFiniteSet(Positions(a)) /\ Cardinality(Positions(a)) = e.bytes + f.len
  <2> DEFINE lo == f.off
             hi == Ends(f) - 1
             I == lo .. hi
  <2>1. lo \in Int /\ hi \in Int /\ lo <= hi /\ hi - lo + 1 = f.len
    BY <1>2
  <2> HIDE DEF lo, hi
  <2>2. IsFiniteSet(lo .. hi) /\ Cardinality(lo .. hi) = IF lo > hi THEN 0 ELSE hi - lo + 1
    BY <2>1, FS_Interval
  <2>3. IsFiniteSet(I) /\ Cardinality(I) = f.len
    BY <2>1, <2>2
  <2>4. Positions(a) = Positions(e) \cup I /\ Positions(e) \cap I = {}
    BY <1>7, <1>8 DEF lo, hi
  <2> HIDE DEF I
  <2>5. IsFiniteSet(Positions(e) \cup I)
          /\ Cardinality(Positions(e) \cup I) =
               Cardinality(Positions(e)) + Cardinality(I) - Cardinality(Positions(e) \cap I)
    BY <1>3, <2>3, FS_Union
  <2>6. Cardinality({}) = 0
    BY FS_EmptySet
  <2>7. Cardinality(Positions(a)) = e.bytes + f.len - 0
    BY <1>3, <2>3, <2>4, <2>5, <2>6, Zenon
  <2>8. QED BY <1>2, <1>3, <2>4, <2>5, <2>7
<1>10. Filled(sent, i, a)
  <2>1. \A q \in a.pieces : q.of \in DOMAIN sent /\ sent[q.of].id = i /\ Ends(q) <= sent[q.of].len
    BY <1>1, <1>2, <1>3, <1>4
  <2>2. \A q, r \in a.pieces : q # r => Apart(q, r)
    BY <1>3, <1>4, <1>6
  <2>3. a.used
    BY <1>4
  <2>4. a.bytes = Cardinality(Positions(a))
    BY <1>4, <1>9
  <2>5. QED BY <1>5, <1>9, <2>1, <2>2, <2>3, <2>4 DEF Filled
<1>11. Learnt(sent, e) /\ Noted(fam, sent, e)
  BY DEF Holds
<1>12. Learnt(sent, a)
  <2>1. ASSUME a.last # -1 PROVE \E q \in a.pieces : a.last = sent[q.of].len
    <3>1. CASE f.more
      BY <1>4, <1>11, <2>1, <3>1 DEF Learnt
    <3>2. CASE ~ f.more
      BY <1>1, <1>2, <1>4, <3>2
    <3>3. QED BY <3>1, <3>2
  <2>2. ASSUME a.hdr # 0 PROVE \E q \in a.pieces : a.hdr = sent[q.of].hdr
    <3>1. CASE heads
      BY <1>2, <1>4, <3>1
    <3>2. CASE ~ heads
      BY <1>4, <1>11, <2>2, <3>2 DEF Learnt
    <3>3. QED BY <3>1, <3>2
  <2>3. QED BY <2>1, <2>2 DEF Learnt
<1>13. Noted(fam, sent, a)
  <2>1. sent[f.of].hdr # 0
    BY <1>1, SentTypes
  <2>2. ASSUME NEW q \in a.pieces, Ends(q) = sent[q.of].len PROVE a.last # -1
    <3>1. CASE q = p
      BY <1>1, <1>2, <1>4, <2>2, <3>1
    <3>2. CASE q \in e.pieces
      <4>1. e.last # -1
        BY <1>11, <2>2, <3>2 DEF Noted
      <4>2. Ends(f) # -1
        BY <1>2
      <4>3. QED BY <1>4, <4>1, <4>2
    <3>3. QED BY <1>4, <3>1, <3>2
  <2>3. fam = 6 => a.hdr # 0
    BY <1>4, <1>11, <2>1 DEF Noted
  <2>4. ASSUME fam = 4, NEW q \in a.pieces, q.off = 0 PROVE a.hdr # 0
    <3>1. CASE q = p
      BY <1>2, <1>4, <2>1, <2>4, <3>1
    <3>2. CASE q \in e.pieces
      <4>1. e.hdr # 0
        BY <1>11, <2>4, <3>2 DEF Noted
      <4>2. QED BY <1>4, <2>1, <4>1
    <3>3. QED BY <1>4, <3>1, <3>2
  <2>5. QED BY <2>2, <2>3, <2>4 DEF Noted
<1>14. QED BY <1>10, <1>12, <1>13 DEF Holds, a

----------------------------------------------------------------------------
(* Steps keep the table and the account in order.                             *)

LEMMA EntryOf ==
    ASSUME NEW v, NEW s, NEW t, Tables(v, s, t), NEW i \in Ids
    PROVE  /\ Holds(v, s, i, t[i]) /\ Filled(s, i, t[i]) /\ t[i] \in Entry
           /\ t[i].bytes \in Nat /\ t[i].pieces \subseteq Piece
BY EntryTypes DEF Tables, Holds, Filled

(* The sweep frees what it subtracts.                                         *)
LEMMA SweptHolds ==
    ASSUME Core
    PROVE  /\ Tables(fam, sent, Swept)
           /\ bytes - FreedBySweep = BytesIn(Swept, Ids)
           /\ bytes - FreedBySweep \in 0 .. MaxBytes
<1>1. Tables(fam, sent, table) /\ bytes = BytesIn(table, Ids) /\ bytes \in 0 .. MaxBytes /\ MaxBytes \in Nat
  BY DatagramsAssumption DEF Core, Account
<1>2. Expired \in SUBSET Ids /\ \A i \in Expired : Swept[i] = NoEntry
  BY DEF Expired, Swept
<1>3. \A i \in Ids \ Expired : Swept[i] = table[i]
  BY DEF Swept
<1>4. DOMAIN Swept = Ids /\ Swept = [i \in Ids |-> Swept[i]]
  BY DEF Swept
<1>5. \A i \in Ids : Holds(fam, sent, i, Swept[i])
  BY <1>1, <1>2, <1>3, EntryOf, NoEntryHolds
<1>6. Tables(fam, sent, Swept)
  BY <1>4, <1>5 DEF Tables
<1> DEFINE R == Ids \ Expired
<1>7. \A i \in Ids : table[i].bytes \in Nat /\ Swept[i].bytes \in Nat
  BY <1>1, <1>6, EntryOf
<1>8. R \in SUBSET Ids /\ Expired \cap R = {} /\ Expired \cup R = Ids
  BY <1>2
<1> HIDE DEF R
<1>9. BytesIn(table, Expired \cup R) = BytesIn(table, Expired) + BytesIn(table, R)
  BY <1>2, <1>7, <1>8, BytesApart
<1>10. BytesIn(Swept, Expired \cup R) = BytesIn(Swept, Expired) + BytesIn(Swept, R)
  BY <1>2, <1>7, <1>8, BytesApart
<1>11. BytesIn(Swept, Expired) = 0
  BY <1>2, NoEntryHolds, BytesOfNone
<1>12. BytesIn(Swept, R) = BytesIn(table, R)
  <2>1. \A i \in R : Swept[i].bytes = table[i].bytes
    BY <1>3 DEF R
  <2>2. QED BY <1>8, <2>1, BytesSame
<1>13. BytesIn(table, Expired) \in Nat /\ BytesIn(table, R) \in Nat
  BY <1>2, <1>7, <1>8, HeldFinite
<1>14. QED BY <1>1, <1>6, <1>8, <1>9, <1>10, <1>11, <1>12, <1>13 DEF FreedBySweep

Found(f) == Swept[f.id]
Grown(f) == Added(Swept[f.id], f)
Room == bytes - FreedBySweep
Drops(f) ==
    \/ fam = 6 /\ Found(f).used /\ Found(f).hdr # sent[f.of].hdr
    \/ Overlaps(Found(f), f)
    \/ Room + f.len > MaxBytes
Full(f) == ~ Found(f).used /\ Cardinality({i \in Ids : Swept[i].used}) >= maxEntries
Past(f) == Knows(Grown(f)) /\ \E p \in Grown(f).pieces : Ends(p) > Grown(f).last
Ready(f) == Knows(Grown(f)) /\ ~ Past(f) /\ Covered(Grown(f))

(* PushInfo by its outcomes.                                                  *)
LEMMA PushCases ==
    ASSUME NEW f, Push(f)
    PROVE  /\ flight' = Without(f)
           /\ disturbed' = disturbed
                \cup {p.of : p \in UNION {table[i].pieces : i \in Expired}}
                \cup (IF Full(f) THEN {f.of} ELSE {})
                \cup (IF ~ Full(f) /\ Room + f.len > MaxBytes
                      THEN {f.of} \cup {p.of : p \in Found(f).pieces} ELSE {})
           /\ UNCHANGED <<fam, maxEntries, sent, reused, split>>
           /\ \/ /\ Full(f) /\ table' = Swept /\ bytes' = Room /\ out' = NoOut /\ done' = done
              \/ /\ ~ Full(f) /\ Drops(f)
                 /\ table' = [Swept EXCEPT ![f.id] = NoEntry]
                 /\ bytes' = DroppedBytes(Room, Found(f)) /\ out' = NoOut /\ done' = done
              \/ /\ ~ Full(f) /\ ~ Drops(f) /\ Past(f)
                 /\ table' = [Swept EXCEPT ![f.id] = NoEntry]
                 /\ bytes' = DroppedBytes(Room + f.len, Grown(f)) /\ out' = NoOut /\ done' = done
              \/ /\ ~ Full(f) /\ ~ Drops(f) /\ ~ Past(f) /\ ~ Ready(f)
                 /\ table' = [Swept EXCEPT ![f.id] = Grown(f)]
                 /\ bytes' = Room + f.len /\ out' = NoOut /\ done' = done
              \/ /\ ~ Full(f) /\ ~ Drops(f) /\ Ready(f)
                 /\ table' = [Swept EXCEPT ![f.id] = NoEntry]
                 /\ bytes' = DroppedBytes(Room + f.len, Grown(f))
                 /\ done' = done \cup {f.of} /\ Passes(Grown(f), DataOf(Grown(f)))
BY Zenon DEF Push, Full, Drops, Past, Ready, Found, Grown, Room

(* The entry it leaves is none, the one found, or that with the fragment, and the *)
(* account changes by the difference.                                         *)
LEMMA PushOutcome ==
    ASSUME Core, NEW f \in DOMAIN flight, Push(f)
    PROVE  /\ f.id \in Ids /\ PartOf(sent, f)
           /\ \E x : /\ table' = [Swept EXCEPT ![f.id] = x]
                     /\ Holds(fam, sent, f.id, x)
                     /\ bytes' = Room - Found(f).bytes + x.bytes /\ bytes' \in 0 .. MaxBytes
                     /\ \/ x = NoEntry
                        \/ x = Found(f) /\ Full(f)
                        \/ x = Grown(f) /\ ~ Full(f) /\ ~ Drops(f) /\ ~ Past(f) /\ ~ Ready(f)
<1>1. PartOf(sent, f) /\ fam \in {4, 6} /\ Numbered(sent)
  BY DEF Core, Flights
<1>2. f \in Fragment
  BY <1>1 DEF PartOf
<1>3. f.id \in Ids /\ f.len \in Nat
  BY <1>2, PieceOf
<1>4. Tables(fam, sent, Swept) /\ Room = BytesIn(Swept, Ids) /\ Room \in 0 .. MaxBytes /\ MaxBytes \in Nat
  BY SweptHolds, DatagramsAssumption DEF Room
<1>5. Holds(fam, sent, f.id, Found(f)) /\ Found(f) \in Entry /\ Found(f).bytes \in Nat
  BY <1>3, <1>4, EntryOf DEF Found
<1>6. Found(f).bytes <= Room
  <2>1. \A i \in Ids : Swept[i].bytes \in Nat
    BY <1>4, EntryOf
  <2>2. QED BY <1>3, <1>4, <2>1, BytesChange DEF Found
<1>7. Grown(f).bytes = Found(f).bytes + f.len
  BY AddedFields DEF Grown, Found
<1>8. Holds(fam, sent, f.id, NoEntry) /\ NoEntry.bytes = 0
  BY NoEntryHolds
<1>9. ~ Drops(f) => Holds(fam, sent, f.id, Grown(f)) /\ Room + f.len <= MaxBytes
  <2>1. ASSUME ~ Drops(f) PROVE ~ Overlaps(Found(f), f) /\ ~ (Room + f.len > MaxBytes)
    BY <2>1, Zenon DEF Drops
  <2>2. ~ Drops(f) => Room + f.len <= MaxBytes
    BY <1>3, <1>4, <2>1
  <2>3. ~ Drops(f) => Holds(fam, sent, f.id, Grown(f))
    BY <1>1, <1>3, <1>5, <2>1, AddedHolds DEF Grown, Found
  <2>4. QED BY <2>2, <2>3
<1>10. CASE Full(f) /\ table' = Swept /\ bytes' = Room
  <2>1. [Swept EXCEPT ![f.id] = Found(f)] = Swept
    BY <1>3 DEF Found, Swept
  <2>2. bytes' = Room - Found(f).bytes + Found(f).bytes
    BY <1>4, <1>5, <1>10
  <2>3. QED BY <1>1, <1>3, <1>4, <1>5, <1>10, <2>1, <2>2
<1>11. CASE table' = [Swept EXCEPT ![f.id] = NoEntry] /\ bytes' = DroppedBytes(Room, Found(f))
  <2>1. bytes' = Room - Found(f).bytes + NoEntry.bytes /\ bytes' \in 0 .. MaxBytes
    BY <1>4, <1>5, <1>6, <1>8, <1>11 DEF DroppedBytes
  <2>2. QED BY <1>1, <1>3, <1>8, <1>11, <2>1
<1>12. CASE table' = [Swept EXCEPT ![f.id] = NoEntry] /\ bytes' = DroppedBytes(Room + f.len, Grown(f))
  <2>1. bytes' = Room - Found(f).bytes + NoEntry.bytes /\ bytes' \in 0 .. MaxBytes
    BY <1>3, <1>4, <1>5, <1>6, <1>7, <1>8, <1>12 DEF DroppedBytes
  <2>2. QED BY <1>1, <1>3, <1>8, <1>12, <2>1
<1>13. CASE /\ ~ Full(f) /\ ~ Drops(f) /\ ~ Past(f) /\ ~ Ready(f)
            /\ table' = [Swept EXCEPT ![f.id] = Grown(f)] /\ bytes' = Room + f.len
  <2>1. bytes' = Room - Found(f).bytes + Grown(f).bytes /\ bytes' \in 0 .. MaxBytes
    BY <1>3, <1>4, <1>5, <1>6, <1>7, <1>9, <1>13
  <2>2. QED BY <1>1, <1>3, <1>9, <1>13, <2>1
<1>14. QED BY <1>10, <1>11, <1>12, <1>13, PushCases, Zenon

(* Taking one copy of a fragment out of flight.                                *)
LEMMA WithoutOne ==
    ASSUME NEW f \in DOMAIN flight, \A g \in DOMAIN flight : flight[g] \in {1, 2}
    PROVE  /\ DOMAIN Without(f) \subseteq DOMAIN flight
           /\ \A g \in DOMAIN Without(f) : Without(f)[g] \in {1, 2} /\ (g # f => Without(f)[g] = flight[g])
           /\ \A g \in DOMAIN flight : g # f => g \in DOMAIN Without(f)
           /\ flight[f] = 1 => f \notin DOMAIN Without(f)
<1>1. CASE flight[f] > 1
  <2>1. flight[f] = 2 /\ flight[f] - 1 = 1
    BY <1>1
  <2>2. Without(f) = [flight EXCEPT ![f] = flight[f] - 1]
    BY <1>1 DEF Without
  <2>3. Without(f) = [flight EXCEPT ![f] = 1]
    BY <2>1, <2>2
  <2>4. QED BY <2>1, <2>3
<1>2. CASE ~ (flight[f] > 1)
  <2>1. Without(f) = [g \in DOMAIN flight \ {f} |-> flight[g]]
    BY <1>2 DEF Without
  <2>2. QED BY <2>1
<1>3. QED BY <1>1, <1>2

LEMMA PushKeepsCore ==
    ASSUME Core, NEW f \in DOMAIN flight, Push(f)
    PROVE  Core'
<1>1. f.id \in Ids /\ PartOf(sent, f)
  BY PushOutcome
<1>2. PICK x : /\ table' = [Swept EXCEPT ![f.id] = x]
               /\ Holds(fam, sent, f.id, x)
               /\ bytes' = Room - Found(f).bytes + x.bytes /\ bytes' \in 0 .. MaxBytes
  BY PushOutcome
<1>3. flight' = Without(f) /\ fam' = fam /\ sent' = sent
  BY PushCases
<1>4. Tables(fam, sent, Swept) /\ Room = BytesIn(Swept, Ids)
  BY SweptHolds DEF Room
<1>5. fam \in {4, 6} /\ Numbered(sent) /\ Flights(sent, flight)
  BY DEF Core
<1>6. Flights(sent, flight')
  <2>1. \A g \in DOMAIN flight : flight[g] \in {1, 2} /\ PartOf(sent, g)
    BY <1>5 DEF Flights
  <2>2. QED BY <1>3, <2>1, WithoutOne DEF Flights
<1>7. DOMAIN Swept = Ids
  BY DEF Swept
<1>8. /\ DOMAIN table' = Ids /\ table' = [i \in Ids |-> table'[i]] /\ table'[f.id] = x
      /\ \A i \in Ids : i # f.id => table'[i] = Swept[i]
  BY <1>1, <1>2, <1>7
<1>9. \A i \in Ids : Holds(fam, sent, i, table'[i])
  BY <1>2, <1>4, <1>8, EntryOf
<1>10. Tables(fam, sent, table')
  BY <1>8, <1>9 DEF Tables
<1>11. BytesIn(table', Ids) = BytesIn(Swept, Ids) - Swept[f.id].bytes + table'[f.id].bytes
  <2>1. \A i \in Ids : Swept[i].bytes \in Nat
    BY <1>4, EntryOf
  <2>2. table'[f.id].bytes \in Nat
    BY <1>1, <1>10, EntryOf
  <2> DEFINE t == Swept
             u == table'
             k == f.id
  <2>3. k \in Ids /\ (\A i \in Ids : t[i].bytes \in Nat) /\ u[k].bytes \in Nat
          /\ \A i \in Ids : i # k => u[i] = t[i]
    BY <1>1, <1>8, <2>1, <2>2
  <2> HIDE DEF t, u, k
  <2>4. BytesIn(u, Ids) = BytesIn(t, Ids) - t[k].bytes + u[k].bytes
    BY <2>3, BytesChange
  <2>5. QED BY <2>4 DEF t, u, k
<1>12. bytes' = BytesIn(table', Ids) /\ bytes' \in 0 .. MaxBytes
  BY <1>2, <1>4, <1>8, <1>11 DEF Found
<1>13. QED
  <2>1. Account'
    BY <1>12 DEF Account
  <2>2. Tables(fam, sent, table)'
    BY <1>3, <1>10
  <2>3. QED BY <1>3, <1>5, <1>6, <2>1, <2>2 DEF Core

(* Sending: a datagram of the next number, its fragments under way once.          *)
LEMMA SendFacts ==
    ASSUME Core, SendDatagram
    PROVE  \E n \in Nat \ {0}, d \in Datagram :
             \E cuts \in SUBSET Cuts(d.len) :
               /\ DOMAIN sent = 1 .. n - 1 /\ DOMAIN sent' = 1 .. n
               /\ sent'[n] = d /\ \A i \in 1 .. n - 1 : sent'[i] = sent[i]
               /\ flight' = [f \in DOMAIN flight \cup FragmentsOf(n, d.id, d, cuts) |->
                               IF f.of = n THEN 1 ELSE flight[f]]
               /\ reused' = reused \cup
                     (IF InUse(d.id) THEN {n} \cup {i \in DOMAIN sent : sent[i].id = d.id} ELSE {})
               /\ disturbed' = disturbed \cup reused' /\ out' = NoOut
               /\ UNCHANGED <<fam, maxEntries, table, bytes, done, split>>
<1>1. PICK N \in Nat : DOMAIN sent = 1 .. N /\ \A i \in 1 .. N : sent[i] \in Datagram
  BY DEF Core, Numbered
<1>2. Cardinality(DOMAIN sent) = N
  <2>1. 1 \in Int /\ N \in Int
    OBVIOUS
  <2>2. Cardinality(1 .. N) = IF 1 > N THEN 0 ELSE N - 1 + 1
    BY <2>1, FS_Interval
  <2>3. QED BY <1>1, <2>2
<1> DEFINE n == N + 1
<1>3. PICK id \in Ids, len \in Lens, hdr \in HdrLens[fam], df \in IF fam = 4 THEN BOOLEAN ELSE {FALSE} :
         \E cuts \in (SUBSET Cuts(len)) \ {{}} :
           LET m == Cardinality(DOMAIN sent) + 1
               d == [id |-> id, len |-> len, hdr |-> hdr, df |-> df]
           IN  /\ sent' = [i \in 1..m |-> IF i = m THEN d ELSE sent[i]]
               /\ flight' = [f \in DOMAIN flight \cup FragmentsOf(m, id, d, cuts) |->
                               IF f.of = m THEN 1 ELSE flight[f]]
               /\ reused' = reused \cup
                     (IF InUse(id) THEN {m} \cup {i \in DOMAIN sent : sent[i].id = id} ELSE {})
               /\ disturbed' = disturbed \cup reused'
  BY Zenon DEF SendDatagram
<1>4. PICK cuts \in (SUBSET Cuts(len)) \ {{}} :
         LET m == Cardinality(DOMAIN sent) + 1
             d == [id |-> id, len |-> len, hdr |-> hdr, df |-> df]
         IN  /\ sent' = [i \in 1..m |-> IF i = m THEN d ELSE sent[i]]
             /\ flight' = [f \in DOMAIN flight \cup FragmentsOf(m, id, d, cuts) |->
                             IF f.of = m THEN 1 ELSE flight[f]]
             /\ reused' = reused \cup
                   (IF InUse(id) THEN {m} \cup {i \in DOMAIN sent : sent[i].id = id} ELSE {})
             /\ disturbed' = disturbed \cup reused'
  BY <1>3, Zenon
<1> DEFINE d == [id |-> id, len |-> len, hdr |-> hdr, df |-> df]
<1>5. d \in Datagram /\ d.id = id /\ d.len = len
  <2>1. fam \in {4, 6} /\ len \in Nat \ {0} /\ hdr \in Nat \ {0} /\ df \in BOOLEAN
    BY DatagramsAssumption DEF Core
  <2>2. QED BY <2>1 DEF Datagram
<1>6. n \in Nat \ {0} /\ n - 1 = N
  OBVIOUS
<1>7. cuts \in SUBSET Cuts(d.len)
  BY <1>5
<1> HIDE DEF d, n
<1>8. /\ sent' = [i \in 1..n |-> IF i = n THEN d ELSE sent[i]]
      /\ flight' = [f \in DOMAIN flight \cup FragmentsOf(n, d.id, d, cuts) |->
                      IF f.of = n THEN 1 ELSE flight[f]]
      /\ reused' = reused \cup
            (IF InUse(d.id) THEN {n} \cup {i \in DOMAIN sent : sent[i].id = d.id} ELSE {})
      /\ disturbed' = disturbed \cup reused'
  BY <1>2, <1>4, <1>5, Zenon DEF d, n
<1>9. DOMAIN sent = 1 .. n - 1 /\ DOMAIN sent' = 1 .. n /\ sent'[n] = d
        /\ \A i \in 1 .. n - 1 : sent'[i] = sent[i]
  BY <1>1, <1>6, <1>8
<1>10. out' = NoOut /\ UNCHANGED <<fam, maxEntries, table, bytes, done, split>>
  BY DEF SendDatagram
<1>11. QED BY <1>5, <1>6, <1>7, <1>8, <1>9, <1>10, Zenon

(* The fragments of a new datagram are parts of it and of no older one.            *)
LEMMA NewFragments ==
    ASSUME NEW n \in Nat \ {0}, NEW d \in Datagram, NEW cuts \in SUBSET Cuts(d.len)
    PROVE  LET F == FragmentsOf(n, d.id, d, cuts)
           IN  /\ d.len \in Nat \ {0} /\ d.id \in Ids
               /\ \A f \in F : /\ f \in Fragment /\ f.of = n /\ f.id = d.id /\ Ends(f) <= d.len
                               /\ (f.more <=> Ends(f) # d.len)
               /\ \A f, g \in F : f # g => Apart(f, g)
               /\ \A i \in 0 .. d.len - 1 : \E f \in F : f.off <= i /\ i < Ends(f)
<1> DEFINE F == FragmentsOf(n, d.id, d, cuts)
<1>1. d.len \in Nat \ {0} /\ d.id \in Ids
  BY DEF Datagram
<1>2. /\ \A f \in F : /\ f = [of |-> n, id |-> d.id, off |-> f.off, more |-> f.more, len |-> f.len]
                      /\ f.off \in Nat /\ f.len \in Nat \ {0} /\ Ends(f) <= d.len
                      /\ f.more \in BOOLEAN /\ (f.more <=> Ends(f) # d.len)
      /\ \A f, g \in F : f # g => Ends(f) <= g.off \/ Ends(g) <= f.off
      /\ \A i \in 0 .. d.len - 1 : \E f \in F : f.off <= i /\ i < Ends(f)
  BY <1>1, FragmentsCover
<1> HIDE DEF F
<1>3. \A f \in F : f \in Fragment /\ f.of = n /\ f.id = d.id
  <2>1. SUFFICES ASSUME NEW f \in F PROVE f \in Fragment /\ f.of = n /\ f.id = d.id
    OBVIOUS
  <2>2. PICK off \in Nat, more \in BOOLEAN, len \in Nat \ {0} :
           f = [of |-> n, id |-> d.id, off |-> off, more |-> more, len |-> len]
    BY <1>2
  <2>3. QED BY <1>1, <2>2 DEF Fragment
<1>4. QED BY <1>1, <1>2, <1>3 DEF F, Apart

LEMMA SendKeepsCore ==
    ASSUME Core, SendDatagram
    PROVE  Core'
<1>1. PICK n \in Nat \ {0}, d \in Datagram :
         \E cuts \in SUBSET Cuts(d.len) :
           /\ DOMAIN sent = 1 .. n - 1 /\ DOMAIN sent' = 1 .. n
           /\ sent'[n] = d /\ \A i \in 1 .. n - 1 : sent'[i] = sent[i]
           /\ flight' = [f \in DOMAIN flight \cup FragmentsOf(n, d.id, d, cuts) |->
                           IF f.of = n THEN 1 ELSE flight[f]]
           /\ UNCHANGED <<fam, table, bytes>>
  BY SendFacts, Zenon
<1>2. PICK cuts \in SUBSET Cuts(d.len) :
           flight' = [f \in DOMAIN flight \cup FragmentsOf(n, d.id, d, cuts) |->
                           IF f.of = n THEN 1 ELSE flight[f]]
  BY <1>1, Zenon
<1>3. DOMAIN sent = 1 .. n - 1 /\ DOMAIN sent' = 1 .. n /\ sent'[n] = d
        /\ (\A i \in 1 .. n - 1 : sent'[i] = sent[i])
        /\ UNCHANGED <<fam, table, bytes>>
  BY <1>1, Zenon
<1>4. fam \in {4, 6} /\ Numbered(sent) /\ Flights(sent, flight) /\ Tables(fam, sent, table) /\ Account
  BY DEF Core
<1>5. DOMAIN sent \subseteq DOMAIN sent' /\ (\A i \in DOMAIN sent : sent'[i] = sent[i]) /\ n \in DOMAIN sent'
        /\ n \notin DOMAIN sent
  BY <1>3
<1>6. Numbered(sent')
  <2>1. \A i \in DOMAIN sent : sent[i] \in Datagram
    BY <1>4, SentTypes
  <2>2. \A i \in 1 .. n : sent'[i] \in Datagram
    BY <1>3, <2>1
  <2>3. n \in Nat
    OBVIOUS
  <2>4. QED BY <1>3, <2>2, <2>3 DEF Numbered
<1> DEFINE F == FragmentsOf(n, d.id, d, cuts)
<1>7. \A f \in F : /\ f \in Fragment /\ f.of = n /\ f.id = d.id /\ Ends(f) <= d.len
                   /\ (f.more <=> Ends(f) # d.len)
  BY NewFragments
<1>8. flight' = [f \in DOMAIN flight \cup F |-> IF f.of = n THEN 1 ELSE flight[f]]
  BY <1>2
<1> HIDE DEF F
<1>9. Flights(sent', flight')
  <2>1. DOMAIN flight' = DOMAIN flight \cup F
    BY <1>8
  <2>2. ASSUME NEW f \in F PROVE PartOf(sent', f) /\ flight'[f] \in {1, 2}
    BY <1>3, <1>5, <1>7, <1>8 DEF PartOf
  <2>3. ASSUME NEW f \in DOMAIN flight PROVE PartOf(sent', f) /\ flight'[f] \in {1, 2}
    <3>1. PartOf(sent, f) /\ flight[f] \in {1, 2}
      BY <1>4 DEF Flights
    <3>2. f.of \in DOMAIN sent /\ f.of # n /\ sent'[f.of] = sent[f.of] /\ f.of \in DOMAIN sent'
      BY <1>5, <3>1 DEF PartOf
    <3>3. QED BY <1>8, <3>1, <3>2 DEF PartOf
  <2>4. QED BY <2>1, <2>2, <2>3 DEF Flights
<1>10. Tables(fam, sent', table)
  <2>1. \A i \in Ids : Holds(fam, sent', i, table[i])
    BY <1>4, <1>5, HoldsOn DEF Tables
  <2>2. QED BY <1>4, <2>1 DEF Tables
<1>11. Account'
  BY <1>3, <1>4 DEF Account
<1>12. QED BY <1>3, <1>4, <1>6, <1>9, <1>10, <1>11 DEF Core

LEMMA SweepKeepsCore ==
    ASSUME Core, Sweep
    PROVE  Core'
<1>1. table' = Swept /\ bytes' = bytes - FreedBySweep /\ UNCHANGED <<fam, sent, flight>>
  BY DEF Sweep
<1>2. Tables(fam, sent, Swept) /\ bytes - FreedBySweep = BytesIn(Swept, Ids)
        /\ bytes - FreedBySweep \in 0 .. MaxBytes
  BY SweptHolds
<1>3. Account'
  BY <1>1, <1>2 DEF Account
<1>4. QED BY <1>1, <1>2, <1>3 DEF Core

LEMMA TickKeepsCore ==
    ASSUME Core, Tick
    PROVE  Core' /\ \A i \in Ids : table'[i].pieces = table[i].pieces
<1> DEFINE Older(e) == IF e.used /\ e.age <= TTL THEN [e EXCEPT !.age = @ + 1] ELSE e
<1>1. table' = [i \in Ids |-> Older(table[i])] /\ UNCHANGED <<fam, sent, flight, bytes>>
  BY DEF Tick
<1>2. Tables(fam, sent, table) /\ bytes = BytesIn(table, Ids) /\ bytes \in 0 .. MaxBytes
  BY DEF Core, Account
<1>3. ASSUME NEW i, NEW e, Holds(fam, sent, i, e)
      PROVE  /\ Holds(fam, sent, i, Older(e)) /\ Older(e).bytes = e.bytes
             /\ Older(e).pieces = e.pieces
  <2>1. CASE ~ (e.used /\ e.age <= TTL)
    BY <1>3, <2>1
  <2>2. CASE e.used /\ e.age <= TTL
    <3>1. e \in Entry /\ e.age \in Nat
      BY <1>3, EntryTypes DEF Holds, Filled
    <3> DEFINE o == [e EXCEPT !.age = e.age + 1]
    <3>2. Older(e) = o
      BY <2>2
    <3>3. /\ o \in Entry /\ o.pieces = e.pieces /\ o.bytes = e.bytes /\ o.used = e.used
          /\ o.hdr = e.hdr /\ o.last = e.last
      BY <3>1 DEF Entry
    <3> HIDE DEF o
    <3>4. Positions(o) = Positions(e)
      BY <3>3 DEF Positions
    <3>5. Filled(sent, i, o)
      BY <1>3, <2>2, <3>3, <3>4 DEF Holds, Filled
    <3>6. Learnt(sent, o)
      BY <1>3, <3>3 DEF Holds, Learnt
    <3>7. Noted(fam, sent, o)
      BY <1>3, <3>3 DEF Holds, Noted
    <3>8. QED BY <3>2, <3>3, <3>5, <3>6, <3>7 DEF Holds
  <2>3. QED BY <2>1, <2>2
<1> HIDE DEF Older
<1>4. \A i \in Ids : /\ Holds(fam, sent, i, table'[i]) /\ table'[i].bytes = table[i].bytes
                     /\ table'[i].pieces = table[i].pieces
  <2>1. ASSUME NEW i \in Ids
        PROVE  /\ Holds(fam, sent, i, table'[i]) /\ table'[i].bytes = table[i].bytes
               /\ table'[i].pieces = table[i].pieces
    <3>1. table'[i] = Older(table[i]) /\ Holds(fam, sent, i, table[i])
      BY <1>1, <1>2, EntryOf
    <3>2. QED BY <1>3, <3>1
  <2>2. QED BY <2>1
<1>5. Tables(fam, sent, table')
  BY <1>1, <1>4 DEF Tables
<1>6. BytesIn(table', Ids) = BytesIn(table, Ids)
  <2> DEFINE t == table'
             u == table
             S == Ids
  <2>1. S \in SUBSET Ids /\ \A i \in S : t[i].bytes = u[i].bytes
    BY <1>4
  <2> HIDE DEF t, u, S
  <2>2. BytesIn(t, S) = BytesIn(u, S)
    BY <2>1, BytesSame
  <2>3. QED BY <2>2 DEF t, u, S
<1>7. Account'
  BY <1>1, <1>2, <1>6 DEF Account
<1>8. QED BY <1>1, <1>4, <1>5, <1>7 DEF Core

LEMMA NetworkKeepsCore ==
    ASSUME Core, NEW f \in DOMAIN flight, Lose(f) \/ Repeat(f)
    PROVE  Core'
<1>1. UNCHANGED <<fam, sent, table, bytes>>
  BY DEF Lose, Repeat
<1>2. \A g \in DOMAIN flight : flight[g] \in {1, 2} /\ PartOf(sent, g)
  BY DEF Core, Flights
<1>3. CASE Lose(f)
  <2>1. flight' = Without(f)
    BY <1>3 DEF Lose
  <2>2. Flights(sent, flight')
    BY <1>2, <2>1, WithoutOne DEF Flights
  <2>3. QED BY <1>1, <2>2 DEF Core, Account
<1>4. CASE Repeat(f)
  <2>1. flight' = [flight EXCEPT ![f] = 2]
    BY <1>4 DEF Repeat
  <2>2. Flights(sent, flight')
    BY <1>2, <2>1 DEF Flights
  <2>3. QED BY <1>1, <2>2 DEF Core, Account
<1>5. QED BY <1>3, <1>4

LEMMA CoreInit ==
    ASSUME Init
    PROVE  Core
<1>1. DOMAIN sent = {} /\ DOMAIN flight = {}
  BY DEF Init
<1>2. Numbered(sent)
  <2>1. 0 \in Nat /\ 1 .. 0 = {}
    OBVIOUS
  <2>2. QED BY <1>1, <2>1 DEF Numbered
<1>3. Flights(sent, flight)
  BY <1>1 DEF Flights
<1>4. Tables(fam, sent, table) /\ \A i \in Ids : table[i] = NoEntry
  BY NoEntryHolds DEF Init, Tables
<1>5. BytesIn(table, Ids) = 0
  <2>1. \A i \in Ids : table[i].bytes = 0
    BY <1>4, NoEntryHolds
  <2> DEFINE t == table
             S == Ids
  <2>2. S \in SUBSET Ids /\ \A i \in S : t[i].bytes = 0
    BY <2>1
  <2> HIDE DEF t, S
  <2>3. BytesIn(t, S) = 0
    BY <2>2, BytesOfNone
  <2>4. QED BY <2>3 DEF t, S
<1>6. Account
  BY <1>5, DatagramsAssumption DEF Init, Account
<1>7. QED BY <1>2, <1>3, <1>4, <1>6 DEF Init, Core

LEMMA CoreStep ==
    ASSUME Core, [Next]_vars
    PROVE  Core'
<1>1. ASSUME UNCHANGED <<fam, sent, flight, table, bytes>> PROVE Core'
  BY <1>1 DEF Core, Account
<1>2. CASE CaptureLarge
  BY <1>1, <1>2 DEF CaptureLarge
<1>3. CASE UNCHANGED vars
  BY <1>1, <1>3 DEF vars
<1>4. ASSUME NEW f \in DOMAIN flight, Push(f) \/ Lose(f) \/ Repeat(f) PROVE Core'
  BY <1>4, PushKeepsCore, NetworkKeepsCore
<1>5. QED BY <1>2, <1>3, <1>4, SendKeepsCore, SweepKeepsCore, TickKeepsCore DEF Next

----------------------------------------------------------------------------
(* What is passed on.                                                       *)

(* A multiple leaves no remainder, and the multiple below a number is below it.      *)
LEMMA Aligned ==
    ASSUME NEW n \in Nat \ {0}, NEW k \in Int
    PROVE  (k * n) % n = 0
<1> DEFINE y == k * n
           q == y \div n
           r == y % n
<1>1. y \in Int
  OBVIOUS
<1>2. y = n * q + r /\ r \in 0 .. n - 1 /\ q \in Int
  <2> HIDE DEF y
  <2>1. QED BY <1>1
<1>3. q * n \in Int /\ n * q = q * n
  BY <1>2
<1> HIDE DEF q, r
<1>4. (q < k => q * n + n <= k * n) /\ (k < q => k * n + n <= q * n)
  BY <1>2, Multiples
<1>5. ~ (q < k) /\ ~ (k < q)
  BY <1>1, <1>2, <1>3, <1>4
<1>6. q = k
  BY <1>2, <1>5
<1>7. r = 0
  BY <1>1, <1>2, <1>3, <1>6
<1>8. QED BY <1>7 DEF r

LEMMA MultipleBelow ==
    ASSUME NEW n \in Nat \ {0}, NEW i \in Int
    PROVE  i \div n \in Int /\ (i \div n) * n \in Int /\ (i \div n) * n <= i
<1>1. i = n * (i \div n) + (i % n) /\ i % n \in 0 .. n - 1
  OBVIOUS
<1>2. i \div n \in Int
  OBVIOUS
<1>3. n * (i \div n) = (i \div n) * n /\ (i \div n) * n \in Int
  BY <1>2
<1>4. QED BY <1>1, <1>2, <1>3

LEMMA OneOf ==
    ASSUME NEW S, NEW p, p \in S, \A q \in S : q = p
    PROVE  Cardinality(S) = 1
<1>1. S = {p}
  OBVIOUS
<1>2. QED BY <1>1, FS_Singleton

(* The parts a datagram is sent on in carry each byte once and fit the limit.       *)
LEMMA PartsRight ==
    ASSUME fam \in {4, 6}, NEW hdr \in Nat, NEW len \in Nat \ {0}, NEW df, NEW mtu \in Nat,
           OutParts(hdr, len, df, mtu) # {}
    PROVE  LET parts == OutParts(hdr, len, df, mtu)
           IN  /\ \A i \in 0 .. len - 1 : Cardinality({p \in parts : p.off <= i /\ i < Ends(p)}) = 1
               /\ \A p \in parts :
                    IF parts = Whole(len) THEN hdr + len <= mtu
                    ELSE /\ Total(hdr, p.len) <= mtu
                         /\ p.off % Align = 0 /\ (Ends(p) < len => p.len % Align = 0)
<1> DEFINE parts == OutParts(hdr, len, df, mtu)
<1>1. CASE hdr + len <= mtu
  <2> DEFINE w == [off |-> 0, len |-> len]
  <2>1. parts = {w} /\ parts = Whole(len)
    BY <1>1 DEF OutParts, Whole
  <2>2. w.off = 0 /\ Ends(w) = len
    BY DEF Ends
  <2> HIDE DEF w, parts
  <2>3. ASSUME NEW i \in 0 .. len - 1
        PROVE  Cardinality({p \in parts : p.off <= i /\ i < Ends(p)}) = 1
    <3> DEFINE S == {p \in parts : p.off <= i /\ i < Ends(p)}
    <3>1. w \in S /\ \A q \in S : q = w
      BY <2>1, <2>2
    <3> HIDE DEF S
    <3>2. Cardinality(S) = 1
      BY <3>1, OneOf
    <3>3. QED BY <3>2 DEF S
  <2>4. QED BY <1>1, <2>1, <2>3 DEF parts
<1>2. CASE ~ (hdr + len <= mtu)
  <2> DEFINE n == MaxPayload(hdr, mtu)
             T == Total(hdr, 0)
             q == (mtu - T) \div Align
  <2>1. Align \in Nat \ {0} /\ FragHdr \in Nat
    BY DatagramsAssumption
  <2>2. T \in Nat /\ T >= hdr /\ \A x \in Nat : Total(hdr, x) = T + x
    BY <2>1 DEF Total
  <2> HIDE DEF T
  <2>3. mtu - T \in Int
    BY <2>2
  <2>4. q \in Int /\ n \in Int /\ n = q * Align /\ n <= mtu - T
    BY <2>1, <2>3, MultipleBelow DEF MaxPayload, T
  <2>5. parts = Pieces(len, n) /\ ~ (n < Align)
    BY <1>2 DEF OutParts, FragmentForMTU, PiecesForMTU
  <2> HIDE DEF n, q, parts
  <2>6. n \in Nat \ {0} /\ n < len
    BY <1>2, <2>1, <2>2, <2>4, <2>5
  <2>7. /\ \A p \in parts :
             /\ p.off \in Nat /\ p.len \in 1 .. n /\ p.off < len /\ Ends(p) <= len
             /\ Ends(p) < len => p.len = n
             /\ \E k \in Nat : p.off = k * n
        /\ \A i \in 0 .. len - 1 :
             \E p \in parts :
                /\ p.off <= i /\ i < Ends(p)
                /\ \A r \in parts : r.off <= i /\ i < Ends(r) => r = p
    BY <2>5, <2>6, PiecesPartition
  <2>8. parts # Whole(len)
    <3>1. SUFFICES ASSUME parts = Whole(len) PROVE FALSE
      OBVIOUS
    <3> DEFINE w == [off |-> 0, len |-> len]
    <3>2. w \in parts /\ w.len = len
      BY <3>1 DEF Whole
    <3> HIDE DEF w
    <3>3. w.len \in 1 .. n
      BY <2>7, <3>2
    <3>4. QED BY <2>6, <3>2, <3>3
  <2>9. ASSUME NEW i \in 0 .. len - 1
        PROVE  Cardinality({p \in parts : p.off <= i /\ i < Ends(p)}) = 1
    <3>1. PICK p \in parts : /\ p.off <= i /\ i < Ends(p)
                             /\ \A r \in parts : r.off <= i /\ i < Ends(r) => r = p
      BY <2>7
    <3> DEFINE S == {r \in parts : r.off <= i /\ i < Ends(r)}
    <3>2. p \in S /\ \A r \in S : r = p
      BY <3>1
    <3> HIDE DEF S
    <3>3. Cardinality(S) = 1
      BY <3>2, OneOf
    <3>4. QED BY <3>3 DEF S
  <2>10. ASSUME NEW p \in parts
         PROVE  /\ Total(hdr, p.len) <= mtu
                /\ p.off % Align = 0 /\ (Ends(p) < len => p.len % Align = 0)
    <3>1. p.len \in 1 .. n /\ (Ends(p) < len => p.len = n)
      BY <2>7
    <3>2. p.len \in Nat /\ Total(hdr, p.len) = T + p.len
      BY <2>2, <2>6, <3>1
    <3>3. Total(hdr, p.len) <= mtu
      BY <2>2, <2>4, <2>6, <3>1, <3>2
    <3>4. PICK k \in Nat : p.off = k * n
      BY <2>7
    <3>5. k * q \in Int /\ k * (q * Align) = (k * q) * Align
      BY <2>1, <2>4
    <3>6. ((k * q) * Align) % Align = 0 /\ (q * Align) % Align = 0
      BY <2>1, <2>4, <3>5, Aligned
    <3>7. p.off % Align = 0 /\ n % Align = 0
      BY <2>4, <3>4, <3>5, <3>6
    <3>8. QED BY <3>1, <3>3, <3>7
  <2>11. QED BY <2>8, <2>9, <2>10 DEF parts
<1>3. QED BY <1>1, <1>2

(* The first sends of a failing series, or any of those to a queue, are some of them. *)
LEMMA SentAreParts ==
    ASSUME NEW route, NEW parts, NEW s \in SentParts(route, parts)
    PROVE  s \subseteq parts
BY DEF SentParts

(* The pieces of an entry that gets a fragment are of one datagram, if the          *)
(* identifier of one of them was used for it alone; its length and header are.       *)
LEMMA OneDatagram ==
    ASSUME Core, Exclusive, NEW f \in DOMAIN flight, ~ Overlaps(Found(f), f),
           NEW p \in Grown(f).pieces, p.of \notin reused
    PROVE  /\ p.of \in DOMAIN sent /\ sent[p.of].id = f.id
           /\ \A q \in Grown(f).pieces : q.of = p.of
           /\ Grown(f).last \in {-1, sent[p.of].len}
           /\ Grown(f).hdr \in {0, sent[p.of].hdr}
<1>1. fam \in {4, 6} /\ Numbered(sent) /\ PartOf(sent, f) /\ Tables(fam, sent, Swept)
  BY SweptHolds DEF Core, Flights
<1>2. f \in Fragment /\ f.of \in DOMAIN sent /\ f.id = sent[f.of].id
  BY <1>1 DEF PartOf
<1>3. f.id \in Ids
  BY <1>2, PieceOf
<1>4. Holds(fam, sent, f.id, Found(f))
  BY <1>1, <1>3, EntryOf DEF Found
<1>5. Holds(fam, sent, f.id, Grown(f))
  BY <1>1, <1>3, <1>4, AddedHolds DEF Found, Grown
<1>6. \A q \in Grown(f).pieces : q.of \in DOMAIN sent /\ sent[q.of].id = f.id
  BY <1>5 DEF Holds, Filled
<1>7. ASSUME NEW q \in Grown(f).pieces PROVE Present(q.of)
  <2>1. q \in Found(f).pieces \/ q = [off |-> f.off, len |-> f.len, of |-> f.of]
    <3>1. Grown(f).pieces = Found(f).pieces \cup {[off |-> f.off, len |-> f.len, of |-> f.of]}
      BY DEF Grown, Found, Added
    <3>2. QED BY <3>1, Zenon
  <2>2. CASE q = [off |-> f.off, len |-> f.len, of |-> f.of]
    <3>1. q.of = f.of /\ f \in OfDatagram(f.of)
      BY <2>2 DEF OfDatagram
    <3>2. QED BY <3>1 DEF Present
  <2>3. CASE q \in Found(f).pieces
    <3>1. q \in table[f.id].pieces
      BY <1>3, <2>3, NoEntryHolds DEF Found, Swept
    <3>2. QED BY <1>6, <3>1 DEF Present
  <2>4. QED BY <2>1, <2>2, <2>3
<1>8. \A q \in Grown(f).pieces : q.of = p.of
  BY <1>6, <1>7 DEF Exclusive
<1>9. Learnt(sent, Grown(f))
  BY <1>5 DEF Holds
<1>10. QED BY <1>6, <1>8, <1>9 DEF Learnt

LEMMA PassedRight ==
    ASSUME Core, Exclusive, NEW f \in DOMAIN flight, ~ Drops(f), Ready(f),
           Passes(Grown(f), DataOf(Grown(f))), UNCHANGED <<fam, sent, reused>>
    PROVE  PassedOnIntact'
<1> DEFINE a == Grown(f)
           data == DataOf(a)
           len == a.last
<1>1. ~ Overlaps(Found(f), f) /\ fam \in {4, 6} /\ Numbered(sent) /\ PartOf(sent, f)
        /\ Tables(fam, sent, Swept)
  BY SweptHolds DEF Core, Flights, Drops
<1>2. f \in Fragment /\ f.of \in DOMAIN sent
  BY <1>1 DEF PartOf
<1>3. f.id \in Ids
  BY <1>2, PieceOf
<1>4. Holds(fam, sent, f.id, a)
  <2>1. Holds(fam, sent, f.id, Found(f))
    BY <1>1, <1>3, EntryOf DEF Found
  <2>2. QED BY <1>1, <1>3, <2>1, AddedHolds DEF Found, Grown
<1>5. a \in Entry /\ a.hdr \in Nat /\ a.df \in BOOLEAN /\ a.last \in Int /\ a.maxPacket \in Nat
        /\ a.pieces \subseteq Piece
  BY <1>4, EntryTypes DEF Holds, Filled
<1>6. a.hdr > 0 /\ a.last >= 0 /\ \A i \in 0 .. a.last - 1 : \E p \in a.pieces : p.off <= i /\ i < Ends(p)
  BY DEF Ready, Knows, Covered
<1>7. len \in Nat \ {0}
  <2>1. a.last # -1
    BY <1>5, <1>6
  <2>2. PICK p \in a.pieces : a.last = sent[p.of].len
    BY <1>4, <2>1 DEF Holds, Learnt
  <2>3. p.of \in DOMAIN sent
    BY <1>4 DEF Holds, Filled
  <2>4. QED BY <1>1, <2>2, <2>3, SentTypes
<1>8. PICK route \in {"direct", "tunnel", "in"} :
         LET limit == IF route = "tunnel" THEN TunnelMTU ELSE a.maxPacket
             parts == OutParts(a.hdr, a.last, a.df, limit)
         IN  \E s \in SentParts(route, parts) :
               out' = [route |-> IF parts = {} THEN "refused" ELSE route, parts |-> parts,
                       sent |-> s, data |-> data, limit |-> limit, hdr |-> a.hdr]
  BY Zenon DEF Passes
<1> DEFINE limit == IF route = "tunnel" THEN TunnelMTU ELSE a.maxPacket
           parts == OutParts(a.hdr, a.last, a.df, limit)
<1>9. limit \in Nat
  BY <1>5, DatagramsAssumption
<1>10. PICK s \in SentParts(route, parts) :
         out' = [route |-> IF parts = {} THEN "refused" ELSE route, parts |-> parts,
                 sent |-> s, data |-> data, limit |-> limit, hdr |-> a.hdr]
  BY <1>8, Zenon
<1>11. DOMAIN data = 0 .. len - 1 /\ Cardinality(DOMAIN data) = len
  <2>1. DOMAIN data = 0 .. len - 1
    BY DEF DataOf
  <2> DEFINE m == len - 1
  <2>2. m \in Int /\ 0 \in Int /\ m >= 0 /\ m + 1 = len
    BY <1>7
  <2> HIDE DEF m
  <2>3. Cardinality(0 .. m) = IF 0 > m THEN 0 ELSE m - 0 + 1
    BY <2>2, FS_Interval
  <2>4. Cardinality(0 .. m) = len
    BY <2>2, <2>3
  <2>5. QED BY <2>1, <2>4 DEF m
<1>12. ASSUME NEW i \in 0 .. len - 1 PROVE \E p \in a.pieces : data[i] = p.of /\ p.off <= i /\ i < Ends(p)
  <2>1. data[i] = (CHOOSE p \in a.pieces : p.off <= i /\ i < Ends(p)).of
    BY DEF DataOf
  <2>2. \E p \in a.pieces : p.off <= i /\ i < Ends(p)
    BY <1>6
  <2>3. QED BY <2>1, <2>2, Zenon
<1> HIDE DEF limit, parts, data
<1>13. ASSUME data[0] \notin reused
       PROVE  /\ len = sent[data[0]].len /\ a.hdr = sent[data[0]].hdr
              /\ \A i \in DOMAIN data : data[i] = data[0]
  <2>1. 0 \in 0 .. len - 1
    BY <1>7
  <2>2. PICK p \in a.pieces : data[0] = p.of
    BY <1>12, <2>1
  <2>3. /\ \A q \in a.pieces : q.of = p.of
        /\ a.last \in {-1, sent[p.of].len} /\ a.hdr \in {0, sent[p.of].hdr}
    BY <1>1, <1>13, <2>2, OneDatagram
  <2>4. \A i \in DOMAIN data : data[i] = p.of
    BY <1>11, <1>12, <2>3
  <2>5. a.last # -1 /\ a.hdr # 0
    BY <1>5, <1>6
  <2>6. QED BY <2>2, <2>3, <2>4, <2>5
<1>14. ASSUME parts # {}
       PROVE  /\ \A i \in 0 .. len - 1 : Cardinality({p \in parts : p.off <= i /\ i < Ends(p)}) = 1
              /\ \A p \in parts :
                   IF parts = Whole(len) THEN a.hdr + len <= limit
                   ELSE /\ Total(a.hdr, p.len) <= limit
                        /\ p.off % Align = 0 /\ (Ends(p) < len => p.len % Align = 0)
  BY <1>1, <1>5, <1>7, <1>9, <1>14, PartsRight DEF parts
<1>15. s \subseteq parts
  BY SentAreParts
<1>16. out'.parts = parts /\ out'.sent = s /\ out'.data = data /\ out'.limit = limit /\ out'.hdr = a.hdr
  BY <1>10
<1>17. fam' = fam /\ sent' = sent /\ reused' = reused
  OBVIOUS
<1> DEFINE L == Cardinality(DOMAIN out'.data)
<1>18. L = len
  BY <1>11, <1>16
<1> HIDE DEF a, len, L
<1>19. out'.parts # {} =>
         /\ out'.data[0] \notin reused' =>
               /\ L = sent'[out'.data[0]].len /\ out'.hdr = sent'[out'.data[0]].hdr
               /\ \A i \in DOMAIN out'.data : out'.data[i] = out'.data[0]
         /\ \A i \in 0 .. L - 1 : Cardinality({p \in out'.parts : p.off <= i /\ i < Ends(p)}) = 1
         /\ \A p \in out'.parts :
              IF out'.parts = Whole(L) THEN out'.hdr + L <= out'.limit
              ELSE /\ Total(out'.hdr, p.len) <= out'.limit
                   /\ p.off % Align = 0 /\ (Ends(p) < L => p.len % Align = 0)
         /\ out'.sent \subseteq out'.parts
  BY <1>13, <1>14, <1>15, <1>16, <1>17, <1>18
<1>20. \A x, y : Total(x, y)' = Total(x, y)
  BY <1>17 DEF Total
<1>21. QED BY <1>17, <1>19, <1>20, Zenon DEF PassedOnIntact, L, Ends, Whole, Total

----------------------------------------------------------------------------
(* Datagrams keep apart.                                                    *)

(* A push adds no piece but that of its fragment.                              *)
LEMMA PushPieces ==
    ASSUME Core, NEW f \in DOMAIN flight, Push(f), NEW i \in Ids, NEW p \in table'[i].pieces
    PROVE  p \in table[i].pieces \/ (i = f.id /\ p = [off |-> f.off, len |-> f.len, of |-> f.of])
<1>1. PICK x : /\ table' = [Swept EXCEPT ![f.id] = x]
               /\ x = NoEntry \/ x = Found(f) \/ x = Grown(f)
  BY PushOutcome, Zenon
<1>2. \A q \in Swept[i].pieces : q \in table[i].pieces
  BY NoEntryHolds DEF Swept
<1>3. DOMAIN Swept = Ids
  BY DEF Swept
<1>4. CASE i # f.id
  BY <1>1, <1>2, <1>3, <1>4
<1>5. CASE i = f.id
  <2>1. table'[i] = x /\ Found(f) = Swept[i]
    BY <1>1, <1>3, <1>5 DEF Found
  <2>2. Grown(f).pieces = Found(f).pieces \cup {[off |-> f.off, len |-> f.len, of |-> f.of]}
    BY DEF Grown, Found, Added
  <2>3. NoEntry.pieces = {}
    BY DEF NoEntry
  <2>4. p \in x.pieces
    BY <2>1, Zenon
  <2>5. CASE x = NoEntry
    BY <2>3, <2>4, <2>5, Zenon
  <2>6. CASE x = Found(f)
    BY <1>2, <2>1, <2>4, <2>6, Zenon
  <2>7. CASE x = Grown(f)
    BY <1>2, <1>5, <2>1, <2>2, <2>4, <2>7, Zenon
  <2>8. QED BY <1>1, <2>5, <2>6, <2>7
<1>6. QED BY <1>4, <1>5

LEMMA ExclusiveStays ==
    ASSUME Exclusive, UNCHANGED <<sent, reused>>, disturbed \subseteq disturbed',
           \A n \in DOMAIN sent : Present(n)' => Present(n)
    PROVE  Exclusive'
<1>1. reused' \subseteq disturbed'
  BY DEF Exclusive
<1>2. ASSUME NEW n \in DOMAIN sent', NEW m \in DOMAIN sent', n \notin reused', n # m,
             sent'[n].id = sent'[m].id
      PROVE  ~ (Present(n)' /\ Present(m)')
  BY <1>2 DEF Exclusive
<1>3. QED BY <1>1, <1>2 DEF Exclusive

LEMMA PushKeepsExclusive ==
    ASSUME Core, Exclusive, NEW f \in DOMAIN flight, Push(f)
    PROVE  Exclusive'
<1>1. flight' = Without(f) /\ UNCHANGED <<sent, reused>> /\ disturbed \subseteq disturbed'
  <2>1. flight' = Without(f) /\ UNCHANGED <<sent, reused>>
    BY PushCases, Zenon
  <2>2. disturbed \subseteq disturbed'
    BY PushCases, Zenon
  <2>3. QED BY <2>1, <2>2
<1>2. \A g \in DOMAIN flight : flight[g] \in {1, 2} /\ PartOf(sent, g)
  BY DEF Core, Flights
<1>3. DOMAIN flight' \subseteq DOMAIN flight
  BY <1>1, <1>2, WithoutOne
<1>4. ASSUME NEW n \in DOMAIN sent, Present(n)' PROVE Present(n)
  <2>1. CASE OfDatagram(n)' # {}
    BY <1>3, <2>1 DEF OfDatagram, Present
  <2>2. CASE \E p \in table'[sent'[n].id].pieces : p.of = n
    <3>1. PICK p \in table'[sent[n].id].pieces : p.of = n
      BY <1>1, <2>2
    <3>2. sent[n].id \in Ids
      BY SentTypes DEF Core
    <3>3. p \in table[sent[n].id].pieces \/ p = [off |-> f.off, len |-> f.len, of |-> f.of]
      BY <3>1, <3>2, PushPieces, Zenon
    <3>4. CASE p = [off |-> f.off, len |-> f.len, of |-> f.of]
      <4>1. f.of = n
        BY <3>1, <3>4
      <4>2. QED BY <4>1 DEF Present, OfDatagram
    <3>5. QED BY <3>1, <3>3, <3>4 DEF Present
  <2>3. QED BY <1>4, <2>1, <2>2 DEF Present
<1>5. QED BY <1>1, <1>4, ExclusiveStays

LEMMA OthersKeepExclusive ==
    ASSUME Core, Exclusive, Sweep \/ Tick \/ \E f \in DOMAIN flight : Lose(f) \/ Repeat(f)
    PROVE  Exclusive'
<1>1. UNCHANGED <<sent, reused>> /\ disturbed \subseteq disturbed'
  BY Zenon DEF Sweep, Tick, Lose, Repeat
<1>2. \A g \in DOMAIN flight : flight[g] \in {1, 2} /\ PartOf(sent, g)
  BY DEF Core, Flights
<1>3. DOMAIN flight' \subseteq DOMAIN flight
  <2>1. \A f \in DOMAIN flight : Lose(f) => DOMAIN flight' \subseteq DOMAIN flight
    BY <1>2, WithoutOne DEF Lose
  <2>2. \A f \in DOMAIN flight : Repeat(f) => DOMAIN flight' \subseteq DOMAIN flight
    BY DEF Repeat
  <2>3. Sweep \/ Tick => flight' = flight
    BY DEF Sweep, Tick
  <2>4. QED BY <2>1, <2>2, <2>3
<1>4. \A i \in Ids : table'[i].pieces \subseteq table[i].pieces
  <2>1. Sweep => \A i \in Ids : table'[i].pieces \subseteq table[i].pieces
    BY NoEntryHolds DEF Sweep, Swept
  <2>2. Tick => \A i \in Ids : table'[i].pieces \subseteq table[i].pieces
    BY TickKeepsCore
  <2>3. \A f : Lose(f) \/ Repeat(f) => table' = table
    BY DEF Lose, Repeat
  <2>4. QED BY <2>1, <2>2, <2>3
<1>5. ASSUME NEW n \in DOMAIN sent, Present(n)' PROVE Present(n)
  <2>1. sent[n].id \in Ids /\ sent'[n].id = sent[n].id
    BY <1>1, SentTypes DEF Core
  <2>2. QED BY <1>3, <1>4, <1>5, <2>1 DEF Present, OfDatagram
<1>6. QED BY <1>1, <1>5, ExclusiveStays

LEMMA SendKeepsExclusive ==
    ASSUME Core, Exclusive, SendDatagram
    PROVE  Exclusive'
<1>1. PICK n \in Nat \ {0}, d \in Datagram :
         \E cuts \in SUBSET Cuts(d.len) :
           /\ DOMAIN sent = 1 .. n - 1 /\ DOMAIN sent' = 1 .. n
           /\ sent'[n] = d /\ \A i \in 1 .. n - 1 : sent'[i] = sent[i]
           /\ flight' = [f \in DOMAIN flight \cup FragmentsOf(n, d.id, d, cuts) |->
                           IF f.of = n THEN 1 ELSE flight[f]]
           /\ reused' = reused \cup
                 (IF InUse(d.id) THEN {n} \cup {i \in DOMAIN sent : sent[i].id = d.id} ELSE {})
           /\ disturbed' = disturbed \cup reused' /\ table' = table
  BY SendFacts, Zenon
<1>2. PICK cuts \in SUBSET Cuts(d.len) :
           flight' = [f \in DOMAIN flight \cup FragmentsOf(n, d.id, d, cuts) |->
                           IF f.of = n THEN 1 ELSE flight[f]]
  BY <1>1, Zenon
<1>3. DOMAIN sent = 1 .. n - 1 /\ DOMAIN sent' = 1 .. n /\ sent'[n] = d
        /\ (\A i \in 1 .. n - 1 : sent'[i] = sent[i])
        /\ disturbed' = disturbed \cup reused' /\ table' = table
        /\ reused' = reused \cup
                 (IF InUse(d.id) THEN {n} \cup {i \in DOMAIN sent : sent[i].id = d.id} ELSE {})
  BY <1>1, Zenon
<1> DEFINE F == FragmentsOf(n, d.id, d, cuts)
<1>4. \A f \in F : f.of = n
  BY NewFragments
<1>5. DOMAIN flight' = DOMAIN flight \cup F
  BY <1>2
<1> HIDE DEF F
<1>6. ASSUME NEW m \in 1 .. n - 1 PROVE Present(m)' => Present(m)
  <2>1. m # n /\ sent'[m] = sent[m]
    BY <1>3
  <2>2. OfDatagram(m)' = OfDatagram(m)
    BY <1>4, <1>5, <2>1 DEF OfDatagram
  <2>3. QED BY <1>3, <2>1, <2>2 DEF Present
<1>7. ASSUME NEW m \in 1 .. n - 1, sent[m].id = d.id, ~ InUse(d.id) PROVE ~ Present(m)
  <2>1. \A f \in DOMAIN flight : f.of = m => f.id = d.id
    BY <1>7 DEF Core, Flights, PartOf
  <2>2. OfDatagram(m) = {}
    BY <1>7, <2>1 DEF OfDatagram, InUse
  <2>3. d.id \in Ids /\ ~ table[d.id].used
    BY <1>7 DEF InUse, Datagram
  <2>4. table[d.id] = NoEntry
    <3>1. Filled(sent, d.id, table[d.id])
      BY <2>3, EntryOf DEF Core
    <3>2. QED BY <2>3, <3>1 DEF Filled
  <2>5. table[sent[m].id].pieces = {}
    BY <1>7, <2>4, NoEntryHolds
  <2>6. QED BY <2>2, <2>5 DEF Present
<1>8. ASSUME NEW x \in 1 .. n, NEW y \in 1 .. n, x \notin reused', x # y, sent'[x].id = sent'[y].id
      PROVE  ~ (Present(x)' /\ Present(y)')
  <2>1. CASE x = n
    <3>1. y \in 1 .. n - 1 /\ sent[y].id = d.id /\ ~ InUse(d.id)
      BY <1>3, <1>8, <2>1
    <3>2. QED BY <1>6, <1>7, <3>1
  <2>2. CASE y = n
    <3>1. x \in 1 .. n - 1 /\ sent[x].id = d.id
      BY <1>3, <1>8, <2>2
    <3>2. ~ InUse(d.id)
      BY <1>3, <1>8, <3>1
    <3>3. QED BY <1>6, <1>7, <3>1, <3>2
  <2>3. CASE x # n /\ y # n
    <3>1. x \in 1 .. n - 1 /\ y \in 1 .. n - 1
      BY <2>3
    <3>2. x \in DOMAIN sent /\ y \in DOMAIN sent /\ sent[x].id = sent[y].id /\ x \notin reused
      BY <1>3, <1>8, <3>1
    <3>3. ~ (Present(x) /\ Present(y))
      BY <1>8, <3>2 DEF Exclusive
    <3>4. QED BY <1>6, <3>1, <3>3
  <2>4. QED BY <2>1, <2>2, <2>3
<1>9. reused' \subseteq disturbed'
  BY <1>3
<1>10. QED BY <1>3, <1>8, <1>9 DEF Exclusive

LEMMA ExclusiveStep ==
    ASSUME Core, Exclusive, [Next]_vars
    PROVE  Exclusive'
<1>1. ASSUME UNCHANGED <<sent, flight, table, reused, disturbed>> PROVE Exclusive'
  BY <1>1 DEF Exclusive, Present, OfDatagram
<1>2. CASE CaptureLarge
  BY <1>1, <1>2 DEF CaptureLarge
<1>3. CASE UNCHANGED vars
  BY <1>1, <1>3 DEF vars
<1>4. ASSUME NEW f \in DOMAIN flight, Push(f) \/ Lose(f) \/ Repeat(f) PROVE Exclusive'
  BY <1>4, PushKeepsExclusive, OthersKeepExclusive
<1>5. QED BY <1>2, <1>3, <1>4, SendKeepsExclusive, OthersKeepExclusive DEF Next

LEMMA PassedStep ==
    ASSUME Core, Exclusive, PassedOnIntact, [Next]_vars
    PROVE  PassedOnIntact'
<1>1. ASSUME UNCHANGED <<fam, out, sent, reused>> PROVE PassedOnIntact'
  BY <1>1 DEF PassedOnIntact, Ends, Whole, Total
<1>2. ASSUME out' = NoOut PROVE PassedOnIntact'
  BY <1>2 DEF PassedOnIntact, NoOut
<1>3. CASE CaptureLarge
  BY <1>1, <1>3 DEF CaptureLarge
<1>4. CASE UNCHANGED vars
  BY <1>1, <1>4 DEF vars
<1>5. SendDatagram \/ Sweep \/ Tick => out' = NoOut
  BY Zenon DEF SendDatagram, Sweep, Tick
<1>6. \A f : Lose(f) \/ Repeat(f) => out' = NoOut
  BY Zenon DEF Lose, Repeat
<1>7. ASSUME NEW f \in DOMAIN flight, Push(f) PROVE PassedOnIntact'
  <2>1. \/ out' = NoOut
        \/ /\ ~ Drops(f) /\ Ready(f) /\ Passes(Grown(f), DataOf(Grown(f)))
           /\ UNCHANGED <<fam, sent, reused>>
    BY <1>7, PushCases, Zenon
  <2>2. QED BY <1>2, <2>1, PassedRight
<1>8. QED BY <1>2, <1>3, <1>4, <1>5, <1>6, <1>7 DEF Next

----------------------------------------------------------------------------
(* An undisturbed datagram becomes whole.                                     *)

(* A datagram no part of which moves is under way as before.                     *)
LEMMA UnderwayStays ==
    ASSUME NEW m, Underway(m), sent'[m] = sent[m], OfDatagram(m)' = OfDatagram(m),
           \A f \in OfDatagram(m) : flight'[f] = flight[f],
           \A p : p.of = m => (p \in table'[sent[m].id].pieces <=> p \in table[sent[m].id].pieces)
    PROVE  Underway(m)'
<1> DEFINE O == OfDatagram(m)
           i == sent[m].id
<1>1. OfDatagram(m)' = O /\ sent'[m].id = i /\ sent'[m].len = sent[m].len
  OBVIOUS
<1>2. O # {} /\ (\A f \in O : flight'[f] = 1) /\ (\A f, g \in O : f # g => Apart(f, g))
  BY DEF Underway
<1>3. \A f \in O, p \in table'[i].pieces : p.of = m => Apart(f, p)
  BY DEF Underway
<1>4. \A k \in 0 .. sent[m].len - 1 :
         \/ \E f \in O : f.off <= k /\ k < Ends(f)
         \/ \E p \in table'[i].pieces : p.of = m /\ p.off <= k /\ k < Ends(p)
  BY DEF Underway
<1> HIDE DEF O, i
<1>5. QED BY <1>1, <1>2, <1>3, <1>4, Zenon DEF Underway, Apart, Ends

(* The sweep takes no piece of a datagram it does not disturb.                    *)
LEMMA SweptPieces ==
    ASSUME NEW m, NEW i \in Ids, m \notin {p.of : p \in UNION {table[j].pieces : j \in Expired}},
           NEW p, p.of = m
    PROVE  p \in Swept[i].pieces <=> p \in table[i].pieces
<1>1. CASE i \in Expired
  <2>1. p \notin table[i].pieces
    BY <1>1
  <2>2. Swept[i] = NoEntry
    BY <1>1 DEF Swept
  <2>3. QED BY <2>1, <2>2, NoEntryHolds
<1>2. CASE i \notin Expired
  BY <1>2 DEF Swept
<1>3. QED BY <1>1, <1>2

LEMMA OthersKeepComplete ==
    ASSUME Core, Complete, Sweep \/ Tick \/ \E f \in DOMAIN flight : Lose(f) \/ Repeat(f)
    PROVE  Complete'
<1>1. sent' = sent /\ done' = done /\ disturbed \subseteq disturbed'
  BY Zenon DEF Sweep, Tick, Lose, Repeat
<1>2. ASSUME NEW m \in DOMAIN sent, m \notin disturbed', m \notin done PROVE Underway(m)'
  <2>1. Underway(m) /\ sent[m].id \in Ids
    BY <1>1, <1>2, SentTypes DEF Complete, Core
  <2>2. CASE Sweep
    <3>1. table' = Swept /\ flight' = flight
            /\ m \notin {p.of : p \in UNION {table[j].pieces : j \in Expired}}
      BY <1>2, <2>2, Zenon DEF Sweep
    <3>2. \A p : p.of = m => (p \in table'[sent[m].id].pieces <=> p \in table[sent[m].id].pieces)
      BY <2>1, <3>1, SweptPieces
    <3>3. OfDatagram(m)' = OfDatagram(m) /\ \A f \in OfDatagram(m) : flight'[f] = flight[f]
      BY <3>1 DEF OfDatagram
    <3>4. QED BY <1>1, <2>1, <3>2, <3>3, UnderwayStays
  <2>3. CASE Tick
    <3>1. flight' = flight /\ table'[sent[m].id].pieces = table[sent[m].id].pieces
      BY <2>1, <2>3, TickKeepsCore DEF Tick
    <3>2. \A p : p.of = m => (p \in table'[sent[m].id].pieces <=> p \in table[sent[m].id].pieces)
      BY <3>1
    <3>3. OfDatagram(m)' = OfDatagram(m) /\ \A f \in OfDatagram(m) : flight'[f] = flight[f]
      BY <3>1 DEF OfDatagram
    <3>4. QED BY <1>1, <2>1, <3>2, <3>3, UnderwayStays
  <2>4. ASSUME NEW f \in DOMAIN flight, Lose(f) \/ Repeat(f) PROVE Underway(m)'
    <3>1. f.of # m /\ table' = table
      BY <1>2, <2>4, Zenon DEF Lose, Repeat
    <3>2. \A g \in DOMAIN flight : flight[g] \in {1, 2}
      BY DEF Core, Flights
    <3>3. OfDatagram(m)' = OfDatagram(m) /\ \A g \in OfDatagram(m) : flight'[g] = flight[g]
      <4>1. CASE Lose(f)
        <5>1. flight' = Without(f)
          BY <4>1 DEF Lose
        <5>2. /\ DOMAIN flight' \subseteq DOMAIN flight
              /\ \A g \in DOMAIN flight : g # f => g \in DOMAIN flight' /\ flight'[g] = flight[g]
          BY <3>2, <5>1, WithoutOne
        <5>3. QED BY <3>1, <5>2 DEF OfDatagram
      <4>2. CASE Repeat(f)
        <5>1. flight' = [flight EXCEPT ![f] = 2]
          BY <4>2 DEF Repeat
        <5>2. QED BY <3>1, <5>1 DEF OfDatagram
      <4>3. QED BY <2>4, <4>1, <4>2
    <3>4. \A p : p.of = m => (p \in table'[sent[m].id].pieces <=> p \in table[sent[m].id].pieces)
      BY <3>1
    <3>5. QED BY <1>1, <2>1, <3>3, <3>4, UnderwayStays
  <2>5. QED BY <2>2, <2>3, <2>4
<1>3. QED BY <1>1, <1>2 DEF Complete

LEMMA SendKeepsComplete ==
    ASSUME Core, Complete, SendDatagram
    PROVE  Complete'
<1>1. PICK n \in Nat \ {0}, d \in Datagram :
         \E cuts \in SUBSET Cuts(d.len) :
           /\ DOMAIN sent = 1 .. n - 1 /\ DOMAIN sent' = 1 .. n
           /\ sent'[n] = d /\ \A i \in 1 .. n - 1 : sent'[i] = sent[i]
           /\ flight' = [f \in DOMAIN flight \cup FragmentsOf(n, d.id, d, cuts) |->
                           IF f.of = n THEN 1 ELSE flight[f]]
           /\ disturbed' = disturbed \cup reused' /\ UNCHANGED <<table, done>>
  BY SendFacts, Zenon
<1>2. PICK cuts \in SUBSET Cuts(d.len) :
           flight' = [f \in DOMAIN flight \cup FragmentsOf(n, d.id, d, cuts) |->
                           IF f.of = n THEN 1 ELSE flight[f]]
  BY <1>1, Zenon
<1>3. DOMAIN sent = 1 .. n - 1 /\ DOMAIN sent' = 1 .. n /\ sent'[n] = d
        /\ (\A i \in 1 .. n - 1 : sent'[i] = sent[i])
        /\ disturbed \subseteq disturbed' /\ UNCHANGED <<table, done>>
  BY <1>1, Zenon
<1> DEFINE F == FragmentsOf(n, d.id, d, cuts)
<1>4. /\ d.len \in Nat \ {0} /\ d.id \in Ids
      /\ \A f \in F : f.of = n
      /\ \A f, g \in F : f # g => Apart(f, g)
      /\ \A i \in 0 .. d.len - 1 : \E f \in F : f.off <= i /\ i < Ends(f)
  <2>1. /\ d.len \in Nat \ {0} /\ d.id \in Ids
        /\ \A f \in F : f.of = n
    BY NewFragments
  <2>2. \A f, g \in F : f # g => Apart(f, g)
    BY NewFragments
  <2>3. \A i \in 0 .. d.len - 1 : \E f \in F : f.off <= i /\ i < Ends(f)
    BY <2>1, FragmentsCover
  <2>4. QED BY <2>1, <2>2, <2>3
<1>5. flight' = [f \in DOMAIN flight \cup F |-> IF f.of = n THEN 1 ELSE flight[f]]
  BY <1>2
<1> HIDE DEF F
<1>6. DOMAIN flight' = DOMAIN flight \cup F
  BY <1>5
<1>7. n \notin DOMAIN sent
  BY <1>3
<1>8. \A f \in DOMAIN flight : f.of \in DOMAIN sent
  BY DEF Core, Flights, PartOf
<1>9. ASSUME NEW m \in 1 .. n - 1, m \notin disturbed', m \notin done PROVE Underway(m)'
  <2>1. m # n /\ sent'[m] = sent[m] /\ Underway(m)
    BY <1>3, <1>9 DEF Complete
  <2>2. OfDatagram(m)' = OfDatagram(m)
    BY <1>4, <1>6, <2>1 DEF OfDatagram
  <2>3. \A f \in OfDatagram(m) : flight'[f] = flight[f]
    BY <1>5, <2>1 DEF OfDatagram
  <2>4. \A p : p.of = m => (p \in table'[sent[m].id].pieces <=> p \in table[sent[m].id].pieces)
    BY <1>3
  <2>5. QED BY <2>1, <2>2, <2>3, <2>4, UnderwayStays
<1>10. Underway(n)'
  <2>1. OfDatagram(n)' = F
    <3>1. \A f \in DOMAIN flight : f.of # n
      BY <1>7, <1>8
    <3>2. QED BY <1>4, <1>6, <3>1 DEF OfDatagram
  <2>2. F # {} /\ \A f \in F : flight'[f] = 1
    <3>1. 0 \in 0 .. d.len - 1
      BY <1>4
    <3>2. \E f \in F : f.off <= 0 /\ 0 < Ends(f)
      BY <1>4, <3>1
    <3>3. QED BY <1>4, <1>5, <3>2
  <2>3. \A p \in table'[d.id].pieces : p.of # n
    <3>1. Filled(sent, d.id, table[d.id])
      BY <1>4, EntryOf DEF Core
    <3>2. QED BY <1>3, <1>7, <3>1 DEF Filled
  <2>4. sent'[n] = d
    BY <1>3
  <2>5. QED BY <1>4, <2>1, <2>2, <2>3, <2>4 DEF Underway, Apart, Ends
<1>11. ASSUME NEW m \in DOMAIN sent', m \notin disturbed', m \notin done' PROVE Underway(m)'
  <2>1. m = n \/ m \in 1 .. n - 1
    BY <1>3
  <2>2. m \notin done
    BY <1>3, <1>11
  <2>3. QED BY <1>9, <1>10, <1>11, <2>1, <2>2
<1>12. QED BY <1>11 DEF Complete

(* A push of another datagram's fragment leaves it alone.                         *)
LEMMA PushOfAnother ==
    ASSUME Core, Exclusive, Complete, NEW f \in DOMAIN flight, Push(f),
           NEW m \in DOMAIN sent, m # f.of, m \notin disturbed', m \notin done'
    PROVE  Underway(m)'
<1>1. /\ flight' = Without(f) /\ UNCHANGED <<sent, reused>> /\ m \notin disturbed /\ m \notin done
      /\ m \notin {p.of : p \in UNION {table[j].pieces : j \in Expired}}
  <2>1. flight' = Without(f) /\ UNCHANGED <<sent, reused>>
    BY PushCases, Zenon
  <2>2. m \notin disturbed /\ m \notin {p.of : p \in UNION {table[j].pieces : j \in Expired}}
    BY PushCases, Zenon
  <2>3. m \notin done
    BY PushCases, Zenon
  <2>4. QED BY <2>1, <2>2, <2>3
<1>2. Underway(m) /\ sent[m].id \in Ids
  BY <1>1, SentTypes DEF Complete, Core
<1>3. PartOf(sent, f) /\ \A g \in DOMAIN flight : flight[g] \in {1, 2}
  BY DEF Core, Flights
<1>4. sent[m].id # f.id
  <2>1. SUFFICES ASSUME sent[m].id = f.id PROVE FALSE
    OBVIOUS
  <2>2. f.of \in DOMAIN sent /\ sent[f.of].id = f.id /\ Present(f.of) /\ Present(m)
    BY <1>2, <1>3 DEF PartOf, Present, OfDatagram, Underway
  <2>3. m \notin reused
    BY <1>1 DEF Exclusive
  <2>4. QED BY <2>1, <2>2, <2>3 DEF Exclusive
<1>5. table'[sent[m].id] = Swept[sent[m].id]
  <2>1. PICK x : table' = [Swept EXCEPT ![f.id] = x]
    BY PushOutcome
  <2>2. DOMAIN Swept = Ids
    BY DEF Swept
  <2>3. QED BY <1>2, <1>4, <2>1, <2>2
<1>6. \A p : p.of = m => (p \in table'[sent[m].id].pieces <=> p \in table[sent[m].id].pieces)
  BY <1>1, <1>2, <1>5, SweptPieces
<1>7. OfDatagram(m)' = OfDatagram(m) /\ \A g \in OfDatagram(m) : flight'[g] = flight[g]
  <2>1. /\ DOMAIN flight' \subseteq DOMAIN flight
        /\ \A g \in DOMAIN flight : g # f => g \in DOMAIN flight' /\ flight'[g] = flight[g]
    BY <1>1, <1>3, WithoutOne
  <2>2. QED BY <2>1 DEF OfDatagram
<1>8. QED BY <1>1, <1>2, <1>6, <1>7, UnderwayStays

(* A fragment of an undisturbed datagram is not refused for what is in the table.    *)
LEMMA NoConflict ==
    ASSUME Core, Exclusive, NEW f \in DOMAIN flight, f.of \notin reused, Underway(f.of),
           Room + f.len <= MaxBytes
    PROVE  ~ Drops(f) /\ \A q \in Found(f).pieces : q.of = f.of
<1>1. PartOf(sent, f) /\ Numbered(sent) /\ fam \in {4, 6} /\ Tables(fam, sent, Swept)
        /\ Tables(fam, sent, table) /\ Room \in Int /\ MaxBytes \in Nat
  BY SweptHolds, DatagramsAssumption DEF Core, Flights, Room
<1>2. f \in Fragment /\ f.of \in DOMAIN sent /\ sent[f.of].id = f.id
  BY <1>1 DEF PartOf
<1>3. f.id \in Ids /\ f.off \in Nat /\ Ends(f) \in Nat /\ f.len \in Nat
  BY <1>2, PieceOf
<1>4. Holds(fam, sent, f.id, Found(f))
  BY <1>1, <1>3, EntryOf DEF Found
<1>5. \A q \in Found(f).pieces : q \in table[f.id].pieces
  BY <1>3, NoEntryHolds DEF Found, Swept
<1>6. ASSUME NEW q \in Found(f).pieces PROVE q.of = f.of
  <2>1. q.of \in DOMAIN sent /\ sent[q.of].id = f.id
    BY <1>4 DEF Holds, Filled
  <2>2. Present(q.of)
    BY <1>5, <2>1 DEF Present
  <2>3. Present(f.of)
    BY DEF Present, OfDatagram
  <2>4. QED BY <1>2, <2>1, <2>2, <2>3 DEF Exclusive
<1>7. ~ Overlaps(Found(f), f)
  <2>1. SUFFICES ASSUME NEW q \in Found(f).pieces, f.off < Ends(q), q.off < Ends(f) PROVE FALSE
    BY DEF Overlaps
  <2>2. Apart(f, q)
    <3>1. f \in OfDatagram(f.of) /\ q \in table[sent[f.of].id].pieces /\ q.of = f.of
      BY <1>2, <1>5, <1>6 DEF OfDatagram
    <3>2. QED BY <3>1 DEF Underway
  <2>3. q.off \in Nat /\ Ends(q) \in Nat
    BY <1>4, EntryTypes, PieceTypes DEF Holds, Filled
  <2>4. QED BY <1>3, <2>1, <2>2, <2>3 DEF Apart
<1>8. ~ (fam = 6 /\ Found(f).used /\ Found(f).hdr # sent[f.of].hdr)
  BY <1>4, <1>6 DEF Holds, Noted, Learnt
<1>9. ~ (Room + f.len > MaxBytes)
  BY <1>1, <1>3
<1>10. QED BY <1>6, <1>7, <1>8, <1>9, Zenon DEF Drops

(* A push of its own fragment: the rest remains under way, and the last is ready.     *)
LEMMA PushOfOwn ==
    ASSUME Core, Exclusive, Complete, NEW f \in DOMAIN flight, Push(f),
           f.of \notin disturbed', f.of \notin done'
    PROVE  Underway(f.of)'
<1> DEFINE m == f.of
           i == f.id
           a == Grown(f)
           b == [off |-> f.off, len |-> f.len, of |-> f.of]
<1>1. /\ flight' = Without(f) /\ UNCHANGED <<fam, sent, reused>> /\ m \notin disturbed /\ m \notin done
      /\ m \notin {p.of : p \in UNION {table[j].pieces : j \in Expired}} /\ ~ Full(f)
  <2>1. flight' = Without(f) /\ UNCHANGED <<fam, sent, reused>>
    BY PushCases, Zenon
  <2>2. m \notin disturbed /\ m \notin {p.of : p \in UNION {table[j].pieces : j \in Expired}}
    BY PushCases, Zenon
  <2>3. m \notin done
    BY PushCases, Zenon
  <2>4. ~ Full(f)
    BY PushCases, Zenon
  <2>5. QED BY <2>1, <2>2, <2>3, <2>4
<1>2. ~ (Room + f.len > MaxBytes)
  <2>1. ~ Full(f) /\ Room + f.len > MaxBytes => m \in disturbed'
    BY PushCases, Zenon
  <2>2. QED BY <1>1, <2>1
<1>3. PartOf(sent, f) /\ Numbered(sent) /\ fam \in {4, 6} /\ Tables(fam, sent, Swept) /\ Room \in Int
        /\ MaxBytes \in Nat /\ \A g \in DOMAIN flight : flight[g] \in {1, 2}
  BY SweptHolds, DatagramsAssumption DEF Core, Flights, Room
<1>4. f \in Fragment /\ m \in DOMAIN sent /\ sent[m].id = i
  BY <1>3 DEF PartOf
<1>5. /\ i \in Ids /\ f.off \in Nat /\ Ends(f) \in Nat /\ f.len \in Nat
      /\ b.off = f.off /\ b.of = m /\ Ends(b) = Ends(f)
  BY <1>4, PieceOf
<1>6. Underway(m) /\ m \notin reused /\ sent[m].len \in Nat \ {0}
  BY <1>1, <1>3, <1>4, SentTypes DEF Complete, Exclusive
<1>7. ~ Drops(f) /\ \A q \in Found(f).pieces : q.of = m
  <2>1. Room + f.len <= MaxBytes
    BY <1>2, <1>3, <1>5
  <2>2. QED BY <1>6, <2>1, NoConflict
<1>8. a.pieces = Found(f).pieces \cup {b} /\ a.used
  BY DEF Grown, Found, Added
<1>9. ~ Overlaps(Found(f), f)
  BY <1>7, Zenon DEF Drops
<1>10. Holds(fam, sent, i, a)
  <2>1. Holds(fam, sent, i, Found(f))
    BY <1>3, <1>5, EntryOf DEF Found
  <2>2. QED BY <1>3, <1>5, <1>9, <2>1, AddedHolds DEF Found, Grown
<1>11. a.last \in {-1, sent[m].len} /\ \A q \in a.pieces : q.of = m
  <2>1. b \in a.pieces /\ b.of \notin reused /\ b.of = m
    BY <1>5, <1>6, <1>8
  <2>2. QED BY <1>9, <2>1, OneDatagram
<1>12. /\ a.hdr \in Nat /\ a.last \in Int /\ Noted(fam, sent, a)
       /\ \A q \in a.pieces : q \in Piece /\ Ends(q) <= sent[m].len
  BY <1>10, <1>11, EntryTypes DEF Holds, Filled
<1> HIDE DEF a, b, m, i
<1>13. ~ Past(f)
  <2>1. SUFFICES ASSUME a.last >= 0, NEW p \in a.pieces, Ends(p) > a.last PROVE FALSE
    BY DEF Past, Knows, a
  <2>2. a.last = sent[m].len
    BY <1>11, <2>1
  <2>3. Ends(p) <= sent[m].len /\ Ends(p) \in Nat
    BY <1>12, PieceTypes
  <2>4. QED BY <1>6, <2>1, <2>2, <2>3
<1>14. ~ Ready(f) /\ table' = [Swept EXCEPT ![i] = a]
  <2>1. ~ Ready(f)
    <3>1. Ready(f) => done' = done \cup {f.of}
      BY <1>1, <1>7, <1>13, PushCases, Zenon
    <3>2. QED BY <3>1
  <2>2. QED BY <1>1, <1>7, <1>13, <2>1, PushCases, Zenon DEF a, i
<1>15. table'[i] = a
  BY <1>5, <1>14 DEF Swept
<1>16. \A p : p.of = m => (p \in Found(f).pieces <=> p \in table[i].pieces)
  BY <1>1, <1>5, SweptPieces DEF Found, i
<1>17. /\ f \in OfDatagram(m) /\ flight[f] = 1
       /\ OfDatagram(m)' = OfDatagram(m) \ {f}
       /\ \A g \in OfDatagram(m)' : flight'[g] = 1
  <2>1. f \in OfDatagram(m)
    BY DEF OfDatagram, m
  <2>2. flight[f] = 1
    BY <1>6, <2>1 DEF Underway
  <2>3. /\ DOMAIN flight' \subseteq DOMAIN flight /\ f \notin DOMAIN flight'
        /\ \A g \in DOMAIN flight : g # f => g \in DOMAIN flight' /\ flight'[g] = flight[g]
    BY <1>1, <1>3, <2>2, WithoutOne
  <2>4. OfDatagram(m)' = OfDatagram(m) \ {f}
    BY <2>3 DEF OfDatagram
  <2>5. \A g \in OfDatagram(m) \ {f} : flight'[g] = 1
    BY <1>6, <2>3 DEF OfDatagram, Underway
  <2>6. QED BY <2>1, <2>2, <2>4, <2>5
<1> DEFINE O == OfDatagram(m) \ {f}
<1>18. \A g \in O, p \in a.pieces : Apart(g, p)
  <2>1. SUFFICES ASSUME NEW g \in O, NEW p \in a.pieces PROVE Apart(g, p)
    OBVIOUS
  <2>2. CASE p = b
    <3>1. Apart(g, f)
      BY <1>6, <1>17 DEF Underway
    <3>2. QED BY <1>5, <2>2, <3>1 DEF Apart
  <2>3. CASE p \in Found(f).pieces
    <3>1. p \in table[sent[m].id].pieces /\ p.of = m
      BY <1>4, <1>7, <1>16, <2>3
    <3>2. QED BY <1>6, <3>1 DEF Underway
  <2>4. QED BY <1>8, <2>2, <2>3
<1>19. ASSUME NEW k \in 0 .. sent[m].len - 1
       PROVE  \/ \E g \in O : g.off <= k /\ k < Ends(g)
              \/ \E p \in a.pieces : p.of = m /\ p.off <= k /\ k < Ends(p)
  <2>1. \/ \E g \in OfDatagram(m) : g.off <= k /\ k < Ends(g)
        \/ \E p \in table[sent[m].id].pieces : p.of = m /\ p.off <= k /\ k < Ends(p)
    BY <1>6 DEF Underway
  <2>2. CASE \E g \in OfDatagram(m) : g.off <= k /\ k < Ends(g)
    <3>1. PICK g \in OfDatagram(m) : g.off <= k /\ k < Ends(g)
      BY <2>2
    <3>2. CASE g = f
      <4>1. b.off <= k /\ k < Ends(b) /\ b \in a.pieces /\ b.of = m
        BY <1>5, <1>8, <3>1, <3>2
      <4>2. QED BY <4>1
    <3>3. QED BY <3>1, <3>2
  <2>3. CASE \E p \in table[sent[m].id].pieces : p.of = m /\ p.off <= k /\ k < Ends(p)
    BY <1>4, <1>8, <1>16, <2>3
  <2>4. QED BY <2>1, <2>2, <2>3
<1>20. O # {}
  <2>1. SUFFICES ASSUME O = {} PROVE FALSE
    OBVIOUS
  <2>2. \A k \in 0 .. sent[m].len - 1 : \E p \in a.pieces : p.off <= k /\ k < Ends(p)
    BY <1>19, <2>1
  <2>3. a.hdr # 0
    <3>1. 0 \in 0 .. sent[m].len - 1
      BY <1>6
    <3>2. PICK p \in a.pieces : p.off <= 0 /\ 0 < Ends(p)
      BY <2>2, <3>1
    <3>3. p.off = 0
      BY <1>12, <3>2, PieceTypes
    <3>4. QED BY <1>3, <1>8, <1>12, <3>3 DEF Noted
  <2>4. a.last = sent[m].len
    <3> DEFINE k == sent[m].len - 1
    <3>1. k \in 0 .. sent[m].len - 1
      BY <1>6
    <3>2. PICK p \in a.pieces : p.off <= k /\ k < Ends(p)
      BY <2>2, <3>1
    <3>3. Ends(p) = sent[m].len
      BY <1>6, <1>12, <3>2, PieceTypes
    <3>4. a.last # -1
      BY <1>11, <1>12, <3>3 DEF Noted
    <3>5. QED BY <1>11, <3>4
  <2>5. Knows(a) /\ Covered(a)
    BY <1>6, <1>12, <2>2, <2>3, <2>4 DEF Knows, Covered
  <2>6. QED BY <1>13, <1>14, <2>5 DEF Ready, a
<1>21. \A g, h \in O : g # h => Apart(g, h)
  BY <1>6 DEF Underway
<1>22. sent' = sent /\ sent[m].id = i
  BY <1>1, <1>4
<1> HIDE DEF O
<1>23. OfDatagram(m)' = O
  BY <1>17 DEF O
<1>24. \A g \in O : flight'[g] = 1
  BY <1>17, <1>23
<1>25. Underway(m)'
  BY <1>15, <1>18, <1>19, <1>20, <1>21, <1>22, <1>23, <1>24, Zenon DEF Underway, Apart, Ends
<1>26. QED BY <1>25 DEF m

LEMMA CompleteStep ==
    ASSUME Core, Exclusive, Complete, [Next]_vars
    PROVE  Complete'
<1>1. ASSUME UNCHANGED <<sent, flight, table, disturbed, done>> PROVE Complete'
  BY <1>1 DEF Complete, Underway, OfDatagram, Apart, Ends
<1>2. CASE CaptureLarge
  BY <1>1, <1>2 DEF CaptureLarge
<1>3. CASE UNCHANGED vars
  BY <1>1, <1>3 DEF vars
<1>4. ASSUME NEW f \in DOMAIN flight, Push(f) PROVE Complete'
  <2>1. sent' = sent
    BY <1>4, PushCases
  <2>2. ASSUME NEW m \in DOMAIN sent, m \notin disturbed', m \notin done' PROVE Underway(m)'
    <3>1. CASE m = f.of
      BY <1>4, <2>2, <3>1, PushOfOwn
    <3>2. CASE m # f.of
      BY <1>4, <2>2, <3>2, PushOfAnother
    <3>3. QED BY <3>1, <3>2
  <2>3. QED BY <2>1, <2>2 DEF Complete
<1>5. ASSUME NEW f \in DOMAIN flight, Lose(f) \/ Repeat(f) PROVE Complete'
  BY <1>5, OthersKeepComplete
<1>6. QED BY <1>2, <1>3, <1>4, <1>5, SendKeepsComplete, OthersKeepComplete DEF Next

----------------------------------------------------------------------------
(* The theorems.                                                            *)

Inv == Core /\ Exclusive /\ Complete /\ PassedOnIntact /\ SegmentsRebuildStream

LEMMA InvInit ==
    ASSUME Init
    PROVE  Inv
<1>1. DOMAIN sent = {} /\ reused = {} /\ disturbed = {} /\ out = NoOut /\ split = NoSplit
  BY DEF Init
<1>2. Exclusive /\ Complete
  BY <1>1 DEF Exclusive, Complete
<1>3. PassedOnIntact
  BY <1>1 DEF PassedOnIntact, NoOut
<1>4. SegmentsRebuildStream
  BY <1>1 DEF SegmentsRebuildStream
<1>5. QED BY <1>2, <1>3, <1>4, CoreInit DEF Inv

LEMMA InvStep ==
    ASSUME Inv, [Next]_vars
    PROVE  Inv'
<1>1. Core /\ Exclusive /\ Complete /\ PassedOnIntact /\ SegmentsRebuildStream /\ fam \in {4, 6}
  BY DEF Inv, Core
<1>2. Core' /\ Exclusive' /\ Complete' /\ PassedOnIntact' /\ SegmentsRebuildStream'
  BY <1>1, CoreStep, ExclusiveStep, CompleteStep, PassedStep, SegmentsKept
<1>3. QED BY <1>2 DEF Inv

LEMMA InvAlways == Spec => []Inv
<1>1. Init => Inv
  BY InvInit
<1>2. Inv /\ [Next]_vars => Inv'
  BY InvStep
<1>3. QED BY <1>1, <1>2, PTL DEF Spec

(* The account of buffered bytes is what the entries of the table hold, byte for     *)
(* byte, and within maxBytes, on every path by which PushInfo and the sweep keep or   *)
(* drop an entry.                                                            *)
THEOREM AccountIsExact == Spec => []BytesExact
<1>1. Inv => BytesExact
  <2>1. ASSUME Inv PROVE BytesExact
    <3>1. Tables(fam, sent, table) /\ Account
      BY <2>1 DEF Inv, Core
    <3>2. \A i \in Ids : table[i].bytes = Cardinality(Positions(table[i]))
      BY <3>1, EntryOf DEF Filled
    <3>3. QED BY <3>1, <3>2 DEF BytesExact, Account
  <2>2. QED BY <2>1
<1>2. QED BY <1>1, InvAlways, PTL

(* What reinjectDirect, prepareTunnelPackets and wgReceiveLoop send on for a datagram  *)
(* that PushInfo made whole is that datagram: each byte once, from one datagram unless *)
(* its identifier was in use for two, in parts within the limit.                     *)
THEOREM PassesOnIntact == Spec => []PassedOnIntact
<1>1. Inv => PassedOnIntact
  BY DEF Inv
<1>2. QED BY <1>1, InvAlways, PTL

(* A datagram whose fragments all reached PushInfo once, with room and in time, and     *)
(* whose identifier no other used, became whole, in whatever order they came.          *)
THEOREM BecomesWhole == Spec => []ArrivesWhole
<1>1. Inv => ArrivesWhole
  BY DEF Inv, Complete, Underway, ArrivesWhole
<1>2. QED BY <1>1, InvAlways, PTL

(* The segments SplitForMTU makes of a large TCP packet rebuild its stream, across the  *)
(* wrap of the sequence number, and FIN is on the last alone.                        *)
THEOREM StreamRebuilt == Spec => []SegmentsRebuildStream
<1>1. Inv => SegmentsRebuildStream
  BY DEF Inv
<1>2. QED BY <1>1, InvAlways, PTL
=============================================================================
