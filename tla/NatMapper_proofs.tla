-------------------------- MODULE NatMapper_proofs --------------------------
(***************************************************************************)
(* Proofs about the tunnel-side NAT, for any number of addresses, ports,   *)
(* remotes, interfaces and any sweep age.                                  *)
(*                                                                         *)
(* AnswersReachSender is not inductive: it follows from MapsAgree and from *)
(* SentIsMapped, which says that Sweep cannot have removed the mapping of  *)
(* a flow that sent within the sweep age.                                  *)
(***************************************************************************)
EXTENDS NatMapper, TLAPS, WellFoundedInduction

(* A flow that sent within the sweep age still has the mapping its latest  *)
(* packet was translated with, and that mapping is at least as fresh.      *)
SentIsMapped ==
    \A k \in DOMAIN lastSent :
       /\ k \in DOMAIN byOut
       /\ heap[byOut[k]].tport = lastSent[k].tport
       /\ heap[byOut[k]].meta = lastSent[k].meta
       /\ heap[byOut[k]].idle <= lastSent[k].idle

IInv == TypeOK /\ MapsAgree /\ SentIsMapped

----------------------------------------------------------------------------
(* Walking MaxTries steps from any cursor visits every port of the range:  *)
(* the bound of the search loop is exactly the size of the range.          *)
LEMMA CursorCovers ==
    ASSUME NEW c \in FirstPort .. LastPort, NEW p \in FirstPort .. LastPort
    PROVE  \E n \in 0 .. MaxTries - 1 : Cursor(c, n) = p
<1>1. CASE p >= c
  <2>1. p - c \in 0 .. MaxTries - 1 /\ Cursor(c, p - c) = p
    BY <1>1, NatAssumption DEF Cursor
  <2> QED BY <2>1
<1>2. CASE p < c
  <2>1. /\ p - c + MaxTries \in 0 .. MaxTries - 1
        /\ Cursor(c, p - c + MaxTries) = p
    BY <1>2, NatAssumption DEF Cursor
  <2> QED BY <2>1
<1> QED BY <1>1, <1>2, NatAssumption

(* The cursor never leaves the range.                                      *)
LEMMA CursorInRange ==
    ASSUME NEW c \in FirstPort .. LastPort, NEW n \in 0 .. MaxTries
    PROVE  Cursor(c, n) \in FirstPort .. LastPort
BY NatAssumption DEF Cursor

(* Some well-founded relation on Nat contains less-than.                   *)
LEMMA NatOrder ==
    \E R : IsWellFoundedOn(R, Nat) /\ \A x, y \in Nat : y < x => <<y, x>> \in R
<1>1. IsWellFoundedOn(OpToRel(<, Nat), Nat)
  BY NatLessThanWellFounded
<1>2. \A x, y \in Nat : y < x => <<y, x>> \in OpToRel(<, Nat)
  BY DEF OpToRel
<1> QED BY <1>1, <1>2, Zenon

(* A nonempty set of naturals has a least element.                         *)
LEMMA NatLeast ==
    ASSUME NEW T, T \subseteq Nat, T # {}
    PROVE  \E x \in T : \A y \in T : x <= y
<1>1. PICK R : /\ IsWellFoundedOn(R, Nat)
               /\ \A x, y \in Nat : y < x => <<y, x>> \in R
  BY NatOrder
<1>2. PICK x \in T : \A y \in T : ~ (<<y, x>> \in R)
  BY <1>1, WFMin
<1>3. ASSUME NEW y \in T PROVE x <= y
  <2>1. x \in Nat /\ y \in Nat
    OBVIOUS
  <2>2. ~ (y < x)
    BY <2>1, <1>1, <1>2, Zenon
  <2> QED BY <2>1, <2>2
<1> QED BY <1>3

(* The search loop of a flow that does not run out of ports stops.         *)
LEMMA SearchStops ==
    ASSUME NEW k, ~ Free(k, k.lport), ~ Exhausted(k)
    PROVE  \E n \in 0 .. MaxTries - 1 : FoundAt(k, n)
<1> DEFINE T == {n \in 0 .. MaxTries - 1 : Free(k, Cursor(next, n))}
<1>1. T \subseteq Nat /\ T # {}
  BY DEF Exhausted
<1> HIDE DEF T
<1>2. PICK n \in T : \A m \in T : n <= m
  BY <1>1, NatLeast
<1> USE DEF T
<1>3. n \in 0 .. MaxTries - 1 /\ Free(k, Cursor(next, n))
  OBVIOUS
<1>4. ASSUME NEW m \in 0 .. n - 1 PROVE ~ Free(k, Cursor(next, m))
  <2>1. m \in 0 .. MaxTries - 1 /\ m < n
    BY <1>3, NatAssumption
  <2>2. m \notin T
    BY <1>2, <1>3, <2>1
  <2> QED BY <2>1, <2>2
<1> QED BY <1>3, <1>4 DEF FoundAt

(* What PrepareOutbound gives a new flow: a port whose reply key is unused, *)
(* and a cursor within the range.                                          *)
LEMMA PortIsFree ==
    ASSUME TypeOK, NEW k \in OutKeys, ~ Exhausted(k)
    PROVE  /\ TunnelPort(k) \in Ports
           /\ Free(k, TunnelPort(k))
           /\ NextCursor(k) \in FirstPort .. LastPort
<1>1. CASE Free(k, k.lport)
  BY <1>1, NatAssumption DEF TunnelPort, NextCursor, TypeOK, OutKeys
<1>2. CASE ~ Free(k, k.lport)
  <2> DEFINE n == CHOOSE i \in 0 .. MaxTries - 1 : FoundAt(k, i)
  <2>1. n \in 0 .. MaxTries - 1 /\ FoundAt(k, n)
    BY <1>2, SearchStops
  <2> HIDE DEF n
  <2>2. Free(k, Cursor(next, n))
    BY <2>1 DEF FoundAt
  <2>3. /\ Cursor(next, n) \in FirstPort .. LastPort
        /\ Cursor(next, n + 1) \in FirstPort .. LastPort
    BY <2>1, CursorInRange, NatAssumption DEF TypeOK
  <2> USE DEF n
  <2>4. TunnelPort(k) = Cursor(next, n) /\ NextCursor(k) = Cursor(next, n + 1)
    BY <1>2 DEF TunnelPort, NextCursor
  <2> HIDE DEF n
  <2> QED BY <2>2, <2>3, <2>4, NatAssumption
<1> QED BY <1>1, <1>2

(* PrepareOutbound's search fails only when the whole range is taken.      *)
THEOREM FailsOnlyWhenFullInv == TypeOK => FailsOnlyWhenFull
<1> SUFFICES ASSUME TypeOK, NEW k \in OutKeys, Exhausted(k),
                    NEW p \in FirstPort .. LastPort
             PROVE  ~ Free(k, p)
  BY DEF FailsOnlyWhenFull
<1>1. PICK n \in 0 .. MaxTries - 1 : Cursor(next, n) = p
  BY CursorCovers DEF TypeOK
<1> QED BY <1>1 DEF Exhausted

----------------------------------------------------------------------------
(* The empty mapper satisfies the inductive invariant.                     *)
LEMMA InitInv == Init => IInv
BY NatAssumption
   DEF Init, IInv, TypeOK, MapsAgree, SentIsMapped

(* PrepareOutbound of a new flow preserves the invariant.                  *)
LEMMA NewInv ==
    ASSUME IInv, NEW k \in OutKeys, NEW meta \in Metas, PrepareNew(k, meta)
    PROVE  IInv'
<1> DEFINE o == NewObject
           tp == TunnelPort(k)
           r == ReplyKey(k, tp)
           m == [local |-> k.local, lport |-> k.lport, tport |-> tp,
                 meta |-> meta, idle |-> 0]
<1>1. o \in Objects /\ o \notin DOMAIN heap
  BY DEF NewObject, Unused, PrepareNew
<1>2. tp \in Ports /\ r \notin DOMAIN byReply /\ next' \in FirstPort .. LastPort
  BY PortIsFree DEF IInv, PrepareNew, Free
<1>3. m \in Mapping /\ r \in ReplyKeys
  BY <1>2, NatAssumption DEF Mapping, OutKeys, ReplyKeys, ReplyKey, Tun, Tunnels, PrepareNew
<1>4. /\ m.local = k.local /\ m.lport = k.lport /\ m.tport = tp
      /\ m.meta = meta /\ m.idle = 0
  OBVIOUS
<1>5. k \notin DOMAIN byOut
  BY DEF PrepareNew
<1> HIDE DEF m, o, tp, r
<1>6. /\ DOMAIN byOut' = DOMAIN byOut \cup {k} /\ byOut'[k] = o
      /\ \A x \in DOMAIN byOut : byOut'[x] = byOut[x]
  BY <1>5 DEF PrepareNew, With, o
<1>7. /\ DOMAIN byReply' = DOMAIN byReply \cup {r} /\ byReply'[r] = o
      /\ \A x \in DOMAIN byReply : byReply'[x] = byReply[x]
  BY <1>2 DEF PrepareNew, With, o, r, tp
<1>8. /\ DOMAIN heap' = DOMAIN heap \cup {o} /\ heap'[o] = m
      /\ \A x \in DOMAIN heap : heap'[x] = heap[x]
  BY <1>1 DEF PrepareNew, With, o, m, tp
<1>9. /\ DOMAIN lastSent' = DOMAIN lastSent \cup {k}
      /\ lastSent'[k] = [tport |-> tp, meta |-> meta, idle |-> 0]
      /\ \A x \in DOMAIN lastSent \ {k} : lastSent'[x] = lastSent[x]
  BY DEF PrepareNew, With, Sent, tp
<1>10. TypeOK'
  BY <1>1, <1>2, <1>3, <1>6, <1>7, <1>8, <1>9, NatAssumption DEF IInv, TypeOK
<1>11. MapsAgree'
  <2>1. ASSUME NEW x \in DOMAIN byOut'
        PROVE  /\ heap'[byOut'[x]].local = x.local /\ heap'[byOut'[x]].lport = x.lport
               /\ ReplyKey(x, heap'[byOut'[x]].tport) \in DOMAIN byReply'
               /\ byReply'[ReplyKey(x, heap'[byOut'[x]].tport)] = byOut'[x]
    <3>1. CASE x = k
      BY <3>1, <1>4, <1>6, <1>7, <1>8 DEF r
    <3>2. CASE x \in DOMAIN byOut
      BY <3>2, <1>6, <1>7, <1>8 DEF IInv, TypeOK, MapsAgree
    <3> QED BY <1>6, <3>1, <3>2
  <2>2. ASSUME NEW x \in DOMAIN byReply'
        PROVE  \E y \in DOMAIN byOut' :
                  byOut'[y] = byReply'[x] /\ x = ReplyKey(y, heap'[byOut'[y]].tport)
    <3>1. CASE x = r
      BY <3>1, <1>4, <1>6, <1>7, <1>8 DEF r
    <3>2. CASE x \in DOMAIN byReply
      BY <3>2, <1>6, <1>7, <1>8 DEF IInv, TypeOK, MapsAgree
    <3> QED BY <1>7, <3>1, <3>2
  <2>3. ASSUME NEW x \in DOMAIN byOut', NEW y \in DOMAIN byOut', byOut'[x] = byOut'[y]
        PROVE  x = y
    BY <2>3, <1>1, <1>6 DEF IInv, TypeOK, MapsAgree
  <2> QED BY <2>1, <2>2, <2>3 DEF MapsAgree, ReplyKey, Tun
<1>12. SentIsMapped'
  BY <1>4, <1>5, <1>6, <1>8, <1>9 DEF IInv, TypeOK, SentIsMapped
<1> QED BY <1>10, <1>11, <1>12 DEF IInv

(* Refreshing mappings in place leaves the agreement of the maps alone.    *)
LEMMA RefreshKeepsMaps ==
    ASSUME TypeOK, MapsAgree, UNCHANGED <<byOut, byReply>>,
           \A x \in DOMAIN heap : /\ heap'[x].local = heap[x].local
                                  /\ heap'[x].lport = heap[x].lport
                                  /\ heap'[x].tport = heap[x].tport
    PROVE  MapsAgree'
<1>1. \A k \in DOMAIN byOut : /\ heap'[byOut[k]].local = heap[byOut[k]].local
                              /\ heap'[byOut[k]].lport = heap[byOut[k]].lport
                              /\ heap'[byOut[k]].tport = heap[byOut[k]].tport
  BY DEF TypeOK
<1> QED BY <1>1 DEF MapsAgree, ReplyKey, Tun

(* PrepareOutbound of a known flow preserves the invariant.                *)
LEMMA KnownInv ==
    ASSUME IInv, NEW k \in OutKeys, NEW meta \in Metas, PrepareKnown(k, meta)
    PROVE  IInv'
<1> DEFINE o == byOut[k]
<1>1. k \in DOMAIN byOut /\ o \in DOMAIN heap /\ heap[o] \in Mapping
  BY DEF PrepareKnown, IInv, TypeOK
<1>2. /\ DOMAIN heap' = DOMAIN heap
      /\ heap'[o] = [local |-> heap[o].local, lport |-> heap[o].lport,
                     tport |-> heap[o].tport, meta |-> meta, idle |-> 0]
      /\ \A x \in DOMAIN heap \ {o} : heap'[x] = heap[x]
  BY <1>1 DEF PrepareKnown, Refreshed
<1>3. /\ DOMAIN lastSent' = DOMAIN lastSent \cup {k}
      /\ lastSent'[k] = [tport |-> heap[o].tport, meta |-> meta, idle |-> 0]
      /\ \A x \in DOMAIN lastSent \ {k} : lastSent'[x] = lastSent[x]
  BY DEF PrepareKnown, With, Sent
<1>4. byOut' = byOut /\ byReply' = byReply /\ next' = next
  BY DEF PrepareKnown
<1> HIDE DEF o
<1>5. heap'[o] \in Mapping
  BY <1>1, <1>2, NatAssumption DEF Mapping
<1>6. \A x \in DOMAIN heap : /\ heap'[x].local = heap[x].local
                              /\ heap'[x].lport = heap[x].lport
                              /\ heap'[x].tport = heap[x].tport
  BY <1>2
<1>7. TypeOK'
  BY <1>1, <1>2, <1>3, <1>4, <1>5, NatAssumption DEF IInv, TypeOK, Mapping
<1>8. MapsAgree'
  BY <1>4, <1>6, RefreshKeepsMaps DEF IInv
<1>9. SentIsMapped'
  <2> SUFFICES ASSUME NEW x \in DOMAIN lastSent'
               PROVE  /\ x \in DOMAIN byOut
                      /\ heap'[byOut[x]].tport = lastSent'[x].tport
                      /\ heap'[byOut[x]].meta = lastSent'[x].meta
                      /\ heap'[byOut[x]].idle <= lastSent'[x].idle
    BY <1>4 DEF SentIsMapped
  <2>1. CASE x = k
    BY <2>1, <1>1, <1>2, <1>3 DEF o
  <2>2. CASE x # k
    <3>1. x \in DOMAIN lastSent /\ lastSent'[x] = lastSent[x]
      BY <2>2, <1>3
    <3>2. byOut[x] \in DOMAIN heap \ {o}
      BY <2>2, <3>1, <1>1 DEF IInv, TypeOK, MapsAgree, SentIsMapped, o
    <3> QED BY <3>1, <3>2, <1>2 DEF IInv, SentIsMapped
  <2> QED BY <2>1, <2>2
<1> QED BY <1>7, <1>8, <1>9 DEF IInv

(* RestoreInbound preserves the invariant.                                 *)
LEMMA RestoreInv ==
    ASSUME IInv, NEW r \in ReplyKeys, RestoreInbound(r)
    PROVE  IInv'
<1> DEFINE o == byReply[r]
<1>1. o \in DOMAIN heap /\ heap[o] \in Mapping
  BY DEF RestoreInbound, IInv, TypeOK
<1>2. /\ DOMAIN heap' = DOMAIN heap
      /\ heap'[o] = [local |-> heap[o].local, lport |-> heap[o].lport,
                     tport |-> heap[o].tport, meta |-> heap[o].meta, idle |-> 0]
      /\ \A x \in DOMAIN heap \ {o} : heap'[x] = heap[x]
  BY <1>1 DEF RestoreInbound, Refreshed
<1>3. UNCHANGED <<byOut, byReply, next, lastSent>>
  BY DEF RestoreInbound
<1> HIDE DEF o
<1>4. heap'[o] \in Mapping
  BY <1>1, <1>2, NatAssumption DEF Mapping
<1>5. \A x \in DOMAIN heap : /\ heap'[x].local = heap[x].local
                              /\ heap'[x].lport = heap[x].lport
                              /\ heap'[x].tport = heap[x].tport
                              /\ heap'[x].meta = heap[x].meta
  BY <1>2
<1>6. \A x \in DOMAIN heap : heap'[x].idle = heap[x].idle \/ heap'[x].idle = 0
  BY <1>2
<1>7. TypeOK'
  BY <1>1, <1>2, <1>3, <1>4 DEF IInv, TypeOK
<1>8. MapsAgree'
  BY <1>3, <1>5, RefreshKeepsMaps DEF IInv
<1>9. SentIsMapped'
  BY <1>2, <1>3, <1>5, <1>6, NatAssumption DEF IInv, TypeOK, SentIsMapped
<1> QED BY <1>7, <1>8, <1>9 DEF IInv

(* Sweep preserves the invariant.                                          *)
LEMMA SweepInv ==
    ASSUME IInv, Sweep
    PROVE  IInv'
<1>1. /\ DOMAIN byOut' = DOMAIN byOut \ Stale
      /\ \A k \in DOMAIN byOut' : byOut'[k] = byOut[k]
  BY DEF Sweep, Without
<1>2. /\ DOMAIN byReply' = DOMAIN byReply \ StaleReplies
      /\ \A r \in DOMAIN byReply' : byReply'[r] = byReply[r]
  BY DEF Sweep, Without
<1>3. /\ DOMAIN heap' \subseteq DOMAIN heap
      /\ \A o \in DOMAIN heap' : heap'[o] = heap[o]
      /\ \A o \in DOMAIN heap : (\A k \in Stale : o # byOut[k]) => o \in DOMAIN heap'
      /\ \A r \in DOMAIN byReply' : byReply[r] \in DOMAIN heap => byReply[r] \in DOMAIN heap'
  BY <1>2 DEF Sweep, Without
<1>4. UNCHANGED <<next, lastSent>>
  BY DEF Sweep
<1>5. \A k \in DOMAIN byOut' : byOut[k] \in DOMAIN heap'
  BY <1>1, <1>3 DEF IInv, TypeOK, MapsAgree, Stale
<1>6. \A k \in DOMAIN byOut' : ReplyKey(k, heap[byOut[k]].tport) \notin StaleReplies
  <2> SUFFICES ASSUME NEW k \in DOMAIN byOut', NEW x \in Stale,
                      ReplyKey(k, heap[byOut[k]].tport) = ReplyKey(x, heap[byOut[x]].tport)
               PROVE  FALSE
    BY DEF StaleReplies
  <2>1. byOut[k] = byOut[x] /\ k \in DOMAIN byOut /\ x \in DOMAIN byOut
    BY <1>1 DEF IInv, MapsAgree, Stale
  <2> QED BY <2>1, <1>1 DEF IInv, MapsAgree
<1>7. TypeOK'
  BY <1>1, <1>2, <1>3, <1>4, <1>5 DEF IInv, TypeOK
<1>8. MapsAgree'
  <2>1. \A k \in DOMAIN byOut' :
           /\ heap'[byOut'[k]].local = k.local /\ heap'[byOut'[k]].lport = k.lport
           /\ ReplyKey(k, heap'[byOut'[k]].tport) \in DOMAIN byReply'
           /\ byReply'[ReplyKey(k, heap'[byOut'[k]].tport)] = byOut'[k]
    BY <1>1, <1>2, <1>3, <1>5, <1>6 DEF IInv, MapsAgree
  <2>2. ASSUME NEW r \in DOMAIN byReply'
        PROVE  \E k \in DOMAIN byOut' :
                  byOut'[k] = byReply'[r] /\ r = ReplyKey(k, heap'[byOut'[k]].tport)
    <3>1. PICK k \in DOMAIN byOut : byOut[k] = byReply[r] /\ r = ReplyKey(k, heap[byOut[k]].tport)
      BY <1>2 DEF IInv, MapsAgree
    <3>2. k \in DOMAIN byOut'
      BY <3>1, <1>1, <1>2 DEF StaleReplies
    <3> QED BY <3>1, <3>2, <1>1, <1>2, <1>3, <1>5
  <2>3. \A k1, k2 \in DOMAIN byOut' : byOut'[k1] = byOut'[k2] => k1 = k2
    BY <1>1 DEF IInv, MapsAgree
  <2> QED BY <2>1, <2>2, <2>3 DEF MapsAgree, ReplyKey, Tun
<1>9. SentIsMapped'
  <2> SUFFICES ASSUME NEW k \in DOMAIN lastSent
               PROVE  /\ k \in DOMAIN byOut'
                      /\ heap'[byOut'[k]] = heap[byOut[k]]
    BY <1>4 DEF IInv, SentIsMapped
  <2>1. k \notin Stale
    BY NatAssumption DEF IInv, TypeOK, SentIsMapped, Stale, Mapping
  <2>2. k \in DOMAIN byOut'
    BY <2>1, <1>1 DEF IInv, SentIsMapped
  <2> QED BY <2>2, <1>1, <1>3, <1>5
<1> QED BY <1>7, <1>8, <1>9 DEF IInv

(* The passage of time preserves the invariant.                            *)
LEMMA TickInv ==
    ASSUME IInv, Tick
    PROVE  IInv'
<1>1. UNCHANGED <<byOut, byReply, next>> /\ DOMAIN heap' = DOMAIN heap
  BY DEF Tick
<1>2. \A o \in DOMAIN heap :
         heap'[o] = [local |-> heap[o].local, lport |-> heap[o].lport,
                     tport |-> heap[o].tport, meta |-> heap[o].meta,
                     idle |-> Older(heap[o].idle)]
  BY DEF Tick, Refreshed
<1>3. \A i \in 0 .. SweepAge + 1 : Older(i) \in 0 .. SweepAge + 1 /\ Older(i) <= i + 1
  BY NatAssumption DEF Older
<1>4. \A o \in DOMAIN heap : /\ heap'[o].local = heap[o].local
                              /\ heap'[o].lport = heap[o].lport
                              /\ heap'[o].tport = heap[o].tport
                              /\ heap'[o].meta = heap[o].meta
                              /\ heap'[o].idle = Older(heap[o].idle)
  BY DEF Tick, Refreshed
<1>5. /\ DOMAIN lastSent' = {k \in DOMAIN lastSent : lastSent[k].idle < SweepAge}
      /\ \A k \in DOMAIN lastSent' :
            /\ lastSent'[k].tport = lastSent[k].tport
            /\ lastSent'[k].meta = lastSent[k].meta
            /\ lastSent'[k].idle = lastSent[k].idle + 1
  BY DEF Tick
<1>6. \A o \in DOMAIN heap : heap'[o] \in Mapping
  <2> SUFFICES ASSUME NEW o \in DOMAIN heap PROVE heap'[o] \in Mapping
    OBVIOUS
  <2>1. heap[o] \in Mapping
    BY DEF IInv, TypeOK
  <2>2. Older(heap[o].idle) \in 0 .. SweepAge + 1
    BY <2>1, <1>3 DEF Mapping
  <2>3. heap'[o] = [local |-> heap[o].local, lport |-> heap[o].lport,
                    tport |-> heap[o].tport, meta |-> heap[o].meta,
                    idle |-> Older(heap[o].idle)]
    BY <1>2
  <2> HIDE DEF Older
  <2> QED BY <2>1, <2>2, <2>3 DEF Mapping
<1>7. \A k \in DOMAIN lastSent' :
         lastSent'[k] \in [tport : Ports, meta : Metas, idle : 0 .. SweepAge]
  <2> SUFFICES ASSUME NEW k \in DOMAIN lastSent'
               PROVE  lastSent'[k] \in [tport : Ports, meta : Metas, idle : 0 .. SweepAge]
    OBVIOUS
  <2>1. /\ k \in DOMAIN lastSent /\ lastSent[k].idle < SweepAge
        /\ lastSent[k] \in [tport : Ports, meta : Metas, idle : 0 .. SweepAge]
    BY <1>5 DEF IInv, TypeOK
  <2>2. lastSent'[k] = [tport |-> lastSent[k].tport, meta |-> lastSent[k].meta,
                        idle |-> lastSent[k].idle + 1]
    BY DEF Tick
  <2>3. lastSent[k].idle + 1 \in 0 .. SweepAge
    BY <2>1, NatAssumption
  <2> QED BY <2>1, <2>2, <2>3
<1>8. TypeOK'
  BY <1>1, <1>5, <1>6, <1>7 DEF IInv, TypeOK
<1>9. MapsAgree'
  BY <1>1, <1>4, RefreshKeepsMaps DEF IInv
<1>10. SentIsMapped'
  <2> SUFFICES ASSUME NEW k \in DOMAIN lastSent'
               PROVE  /\ k \in DOMAIN byOut
                      /\ heap'[byOut[k]].tport = lastSent'[k].tport
                      /\ heap'[byOut[k]].meta = lastSent'[k].meta
                      /\ heap'[byOut[k]].idle <= lastSent'[k].idle
    BY <1>1 DEF SentIsMapped
  <2>1. /\ k \in DOMAIN lastSent /\ byOut[k] \in DOMAIN heap
        /\ heap[byOut[k]].idle \in 0 .. SweepAge + 1
        /\ heap[byOut[k]].idle <= lastSent[k].idle
        /\ lastSent[k].idle \in 0 .. SweepAge
    BY <1>5 DEF IInv, TypeOK, SentIsMapped, Mapping
  <2>2. heap'[byOut[k]].idle <= lastSent[k].idle + 1
    BY <2>1, <1>3, <1>4, NatAssumption
  <2>3. /\ lastSent'[k].tport = lastSent[k].tport /\ lastSent'[k].meta = lastSent[k].meta
        /\ lastSent'[k].idle = lastSent[k].idle + 1
    BY <1>5
  <2>4. /\ k \in DOMAIN byOut
        /\ heap[byOut[k]].tport = lastSent[k].tport
        /\ heap[byOut[k]].meta = lastSent[k].meta
    BY <2>1 DEF IInv, SentIsMapped
  <2> QED BY <2>1, <2>2, <2>3, <2>4, <1>4
<1> QED BY <1>8, <1>9, <1>10 DEF IInv

(* Every call of the mapper, and time, preserve the inductive invariant.   *)
THEOREM StepInv == IInv /\ [Next]_vars => IInv'
<1> SUFFICES ASSUME IInv, [Next]_vars PROVE IInv'
  OBVIOUS
<1>1. ASSUME UNCHANGED vars PROVE IInv'
  BY <1>1 DEF vars, IInv, TypeOK, MapsAgree, SentIsMapped, ReplyKey, Tun
<1>2. ASSUME NEW k \in OutKeys, PrepareFails(k) PROVE IInv'
  <2>1. next' \in FirstPort .. LastPort
    BY <1>2, NatAssumption, CursorInRange DEF PrepareFails, IInv, TypeOK
  <2> QED BY <1>2, <2>1 DEF PrepareFails, IInv, TypeOK, MapsAgree, SentIsMapped, ReplyKey, Tun
<1>3. ASSUME NEW k \in OutKeys, PrepareNoTunnel(k) PROVE IInv'
  BY <1>1, <1>3 DEF PrepareNoTunnel
<1>4. ASSUME NEW r \in ReplyKeys, RestoreMiss(r) PROVE IInv'
  BY <1>1, <1>4 DEF RestoreMiss
<1> QED BY <1>1, <1>2, <1>3, <1>4, NewInv, KnownInv, RestoreInv, SweepInv, TickInv DEF Next

(* byOut, byReply and the heap always describe the same mappings, for every *)
(* interleaving of PrepareOutbound, RestoreInbound and Sweep.               *)
THEOREM MapsAgreeAlways == Spec => [](TypeOK /\ MapsAgree)
<1>1. IInv => TypeOK /\ MapsAgree
  BY DEF IInv
<1> QED BY <1>1, InitInv, StepInv, PTL DEF Spec

(* An answer to a packet sent within the sweep age always finds the sender. *)
THEOREM AnswersReachSenderAlways == Spec => []AnswersReachSender
<1>1. IInv => AnswersReachSender
  <2> SUFFICES ASSUME IInv, NEW k \in DOMAIN lastSent
               PROVE  LET r == ReplyKey(k, lastSent[k].tport)
                      IN  /\ r \in DOMAIN byReply
                          /\ Restored(r) = [local |-> k.local, lport |-> k.lport,
                                            meta |-> lastSent[k].meta]
    BY DEF AnswersReachSender
  <2> QED BY DEF IInv, MapsAgree, SentIsMapped, Restored
<1> QED BY <1>1, InitInv, StepInv, PTL DEF Spec

(* The search of PrepareOutbound never gives up while a port is free.      *)
THEOREM FailsOnlyWhenFullAlways == Spec => []FailsOnlyWhenFull
<1>1. IInv => FailsOnlyWhenFull
  BY FailsOnlyWhenFullInv DEF IInv
<1> QED BY <1>1, InitInv, StepInv, PTL DEF Spec

(* A live connection never changes its tunnel-side port.                   *)
THEOREM PortIsStableAlways == Spec => PortIsStable
<1>1. IInv /\ [Next]_vars =>
        [\A k \in DOMAIN lastSent \cap DOMAIN lastSent' :
            lastSent'[k].tport = lastSent[k].tport]_vars
  <2> SUFFICES ASSUME IInv, Next, NEW k \in DOMAIN lastSent, k \in DOMAIN lastSent'
               PROVE  lastSent'[k].tport = lastSent[k].tport
    OBVIOUS
  <2>1. ASSUME NEW x \in OutKeys, NEW meta \in Metas, PrepareNew(x, meta)
        PROVE  lastSent'[k].tport = lastSent[k].tport
    BY <2>1 DEF PrepareNew, Sent, With, IInv, SentIsMapped
  <2>2. ASSUME NEW x \in OutKeys, NEW meta \in Metas, PrepareKnown(x, meta)
        PROVE  lastSent'[k].tport = lastSent[k].tport
    BY <2>2 DEF PrepareKnown, Sent, With, IInv, SentIsMapped
  <2>3. ASSUME UNCHANGED lastSent PROVE lastSent'[k].tport = lastSent[k].tport
    BY <2>3
  <2>4. ASSUME Tick PROVE lastSent'[k].tport = lastSent[k].tport
    BY <2>4 DEF Tick, IInv, TypeOK
  <2> QED BY <2>1, <2>2, <2>3, <2>4
       DEF Next, PrepareNoTunnel, PrepareFails, RestoreInbound, RestoreMiss, Sweep, vars
<1> QED BY <1>1, InitInv, StepInv, PTL DEF Spec, PortIsStable
=============================================================================
