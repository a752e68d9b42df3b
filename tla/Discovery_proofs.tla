-------------------------- MODULE Discovery_proofs --------------------------
(***************************************************************************)
(* The decisions SplitWire makes from its rules and from what it has         *)
(* learned, for any rules, programs and addresses and any lifetimes.         *)
(*                                                                         *)
(* That an address is known for a group exactly while an observation of it   *)
(* is alive is not inductive: when one of several observations expires, the   *)
(* entry must live on with the longest of the others.  Learned therefore says *)
(* that the time left of an entry is that of the longest-lived observation.   *)
(***************************************************************************)
EXTENDS Discovery, WellFoundedInduction, TLAPS

GroupRec == [apps : SUBSET STRING, domains : SUBSET Patterns, networks : SUBSET IPs]

(* The rules are normalised.                                                *)
RulesOK ==
    \A i \in GroupIds :
       /\ groups[i] \in GroupRec
       /\ "" \notin groups[i].apps
       /\ "*" \in groups[i].apps <=> AppsAll(groups[i])
       /\ "*" \in groups[i].domains <=> DomainsAll(groups[i])

(* Which names teach a group an address.                                    *)
Brings(i, h) == i \in NameGroups(groups, h)

Tables ==
    /\ ips \in [IPs -> [GroupIds -> Nat]] /\ known \in [IPs -> [Hosts -> Nat]]
    /\ seeds \in [IPs -> [GroupIds -> 0 .. FiveMinutes]]

Learned ==
    \A a \in IPs, i \in GroupIds :
       /\ seeds[a][i] <= ips[a][i]
       /\ \A h \in Hosts : Brings(i, h) => known[a][h] <= ips[a][i]
       /\ ips[a][i] > 0 => \/ seeds[a][i] = ips[a][i]
                           \/ \E h \in Hosts : Brings(i, h) /\ known[a][h] = ips[a][i]

LInv == RulesOK /\ Tables /\ Learned

----------------------------------------------------------------------------
(* The indices by name and by path hold exactly the groups that select a      *)
(* program.                                                                 *)
LEMMA CandidatesSelected ==
    ASSUME RulesOK, NEW p \in Procs
    PROVE  Candidates(groups, p) = {i \in GroupIds : Selects(groups[i], p)}
<1>1. p.name \notin Paths /\ p.name # "*" /\ p.path \in Paths \cup {""} /\ "*" \notin Paths
  BY RulesAssumption
<1>2. SUFFICES ASSUME NEW i \in GroupIds
               PROVE  i \in Candidates(groups, p) <=> Selects(groups[i], p)
  BY DEF Candidates, globalGroups, byName, byPath, GroupIds
<1>3. "" \notin groups[i].apps /\ ("*" \in groups[i].apps <=> AppsAll(groups[i]))
  BY DEF RulesOK
<1>4. CASE AppsAll(groups[i])
  BY <1>2, <1>3, <1>4 DEF Candidates, globalGroups, Selects, GroupIds
<1>5. CASE ~ AppsAll(groups[i])
  <2>1. i \in Candidates(groups, p) <=>
          \/ \E a \in groups[i].apps : ~ IsPath(a) /\ a = p.name
          \/ \E a \in groups[i].apps : IsPath(a) /\ a = p.path
    BY <1>2, <1>5 DEF Candidates, globalGroups, byName, byPath, GroupIds
  <2>2. QED BY <1>1, <1>3, <1>5, <2>1 DEF Selects, IsPath
<1>6. QED BY <1>4, <1>5

(* A group for some destinations is taught by a name exactly when one of its  *)
(* patterns matches it.                                                     *)
LEMMA BringsMatches ==
    ASSUME NEW i \in GroupIds, ~ DomainsAll(groups[i])
    PROVE  \A h \in Hosts : Brings(i, h) <=> \E p \in groups[i].domains : MatchDomainPattern(p, h)
BY DEF Brings, NameGroups, MatchesDomain, GroupIds

(* A packet is tunnelled as the rules say.                                   *)
LEMMA DecisionsFollow == LInv => DecideFollowsRules
<1> SUFFICES ASSUME LInv, NEW a \in IPs
             PROVE  /\ \A p \in Procs :
                         Decide(groups, p, a, learned(a)) <=>
                           \E i \in GroupIds : Selects(groups[i], p) /\ BelongsTo(i, a)
                    /\ CouldTunnelWithoutProcess(groups, a, learned(a)) =>
                         \A p \in Procs : Decide(groups, p, a, learned(a))
  BY DEF DecideFollowsRules
<1>1. RulesOK /\ Tables /\ Learned
  BY DEF LInv
<1>2. ASSUME NEW i \in GroupIds
      PROVE  groupDestinationMatches(groups, i, a, learned(a)) <=> BelongsTo(i, a)
  <2>1. CASE DomainsAll(groups[i])
    BY <1>1, <2>1 DEF groupDestinationMatches, BelongsTo, RulesOK
  <2>2. CASE ~ DomainsAll(groups[i])
    <3>1. "*" \notin groups[i].domains
      BY <1>1, <2>2 DEF RulesOK
    <3>2. ips[a][i] \in Nat /\ (\A h \in Hosts : known[a][h] \in Nat)
            /\ seeds[a][i] \in 0 .. FiveMinutes /\ FiveMinutes \in Nat
      BY <1>1, TimeAssumption DEF Tables
    <3>3. ips[a][i] > 0 <=> \/ seeds[a][i] > 0
                            \/ \E h \in Hosts : Brings(i, h) /\ known[a][h] > 0
      BY <1>1, <3>2 DEF Learned
    <3>4. (\E h \in Hosts : Brings(i, h) /\ known[a][h] > 0) <=>
            \E h \in Hosts : known[a][h] > 0 /\ \E p \in groups[i].domains : MatchDomainPattern(p, h)
      BY <2>2, BringsMatches
    <3>5. QED BY <2>2, <3>1, <3>3, <3>4 DEF groupDestinationMatches, BelongsTo, learned
  <2>3. QED BY <2>1, <2>2
<1>3. ASSUME NEW p \in Procs
      PROVE  Decide(groups, p, a, learned(a)) <=>
               \E i \in GroupIds : Selects(groups[i], p) /\ BelongsTo(i, a)
  BY <1>1, <1>2, CandidatesSelected DEF Decide
<1>4. CouldTunnelWithoutProcess(groups, a, learned(a)) =>
        \A p \in Procs : Decide(groups, p, a, learned(a))
  BY DEF CouldTunnelWithoutProcess, Decide, Candidates
<1>5. QED BY <1>3, <1>4

----------------------------------------------------------------------------
(* Learning.                                                               *)

(* The larger of two numbers.                                               *)
LEMMA MaxOfTwo ==
    ASSUME NEW x \in Nat, NEW y \in Nat
    PROVE  Max({x, y}) = IF x < y THEN y ELSE x
<1> DEFINE z == IF x < y THEN y ELSE x
<1>1. z \in {x, y} /\ \A w \in {x, y} : z >= w
  OBVIOUS
<1>2. \A v \in {x, y} : (\A w \in {x, y} : v >= w) => v = z
  OBVIOUS
<1>3. QED BY <1>1, <1>2 DEF Max

(* An entry that is prolonged with the observations that prolong it stays as   *)
(* long-lived as the longest of them.                                        *)
LEMMA LearnKeeps ==
    ASSUME LInv, UNCHANGED <<groups, seeds>>, NEW addrs, NEW hs \in SUBSET Hosts, NEW gs \in SUBSET GroupIds,
           NEW ttl, NEW life \in Nat, clampTTL(ttl) = life,
           \A i \in GroupIds : i \in gs <=> \E h \in hs : Brings(i, h),
           ips' = AddGroups(addrs, gs, ttl), known' = Observed(addrs, hs, life)
    PROVE  LInv'
<1>1. RulesOK /\ Tables /\ Learned
  BY DEF LInv
<1>2. RulesOK' /\ GroupIds' = GroupIds /\ \A i, h : Brings(i, h)' <=> Brings(i, h)
  BY <1>1 DEF RulesOK, GroupIds, Brings
<1>3. ASSUME NEW a \in IPs
      PROVE  /\ ips[a] \in [GroupIds -> Nat] /\ known[a] \in [Hosts -> Nat]
             /\ ips'[a] = [i \in GroupIds |-> IF a \in addrs /\ i \in gs /\ ips[a][i] < life
                                              THEN life ELSE ips[a][i]]
             /\ known'[a] = [h \in Hosts |-> IF a \in addrs /\ h \in hs /\ known[a][h] < life
                                             THEN life ELSE known[a][h]]
  <2>1. ips[a] \in [GroupIds -> Nat] /\ known[a] \in [Hosts -> Nat]
    BY <1>1 DEF Tables
  <2>2. ips'[a] = [i \in GroupIds |-> IF a \in addrs /\ i \in gs THEN Later(ips[a][i], life) ELSE ips[a][i]]
    BY DEF AddGroups
  <2>3. known'[a] = [h \in Hosts |-> IF a \in addrs /\ h \in hs THEN Max({known[a][h], life})
                                     ELSE known[a][h]]
    BY <2>1 DEF Observed
  <2>4. \A h \in Hosts : Max({known[a][h], life}) = IF known[a][h] < life THEN life ELSE known[a][h]
    BY <2>1, MaxOfTwo
  <2>5. QED BY <2>1, <2>2, <2>3, <2>4 DEF Later
<1>4. Tables'
  <2>1. ips' = [a \in IPs |-> ips'[a]] /\ known' = [a \in IPs |-> known'[a]]
    BY DEF AddGroups, Observed
  <2>2. ASSUME NEW a \in IPs PROVE ips'[a] \in [GroupIds -> Nat] /\ known'[a] \in [Hosts -> Nat]
    <3>1. /\ ips[a] \in [GroupIds -> Nat] /\ known[a] \in [Hosts -> Nat]
          /\ ips'[a] = [i \in GroupIds |-> IF a \in addrs /\ i \in gs /\ ips[a][i] < life
                                           THEN life ELSE ips[a][i]]
          /\ known'[a] = [h \in Hosts |-> IF a \in addrs /\ h \in hs /\ known[a][h] < life
                                          THEN life ELSE known[a][h]]
      BY <1>3
    <3>2. QED BY <3>1
  <2>3. QED BY <1>1, <1>2, <2>1, <2>2 DEF Tables
<1>5. Learned'
  <2>1. SUFFICES ASSUME NEW a \in IPs, NEW i \in GroupIds
                 PROVE  /\ seeds'[a][i] <= ips'[a][i]
                        /\ \A h \in Hosts : Brings(i, h) => known'[a][h] <= ips'[a][i]
                        /\ ips'[a][i] > 0 =>
                             \/ seeds'[a][i] = ips'[a][i]
                             \/ \E h \in Hosts : Brings(i, h) /\ known'[a][h] = ips'[a][i]
    BY <1>2 DEF Learned
  <2>2. /\ seeds[a][i] <= ips[a][i]
        /\ \A h \in Hosts : Brings(i, h) => known[a][h] <= ips[a][i]
        /\ ips[a][i] > 0 => \/ seeds[a][i] = ips[a][i]
                            \/ \E h \in Hosts : Brings(i, h) /\ known[a][h] = ips[a][i]
    BY <1>1 DEF Learned
  <2>3. ips[a][i] \in Nat /\ (\A h \in Hosts : known[a][h] \in Nat) /\ seeds[a][i] \in Nat
    <3>1. seeds[a][i] \in 0 .. FiveMinutes /\ FiveMinutes \in Nat
      BY <1>1, TimeAssumption DEF Tables
    <3>2. ips[a][i] \in Nat /\ \A h \in Hosts : known[a][h] \in Nat
      BY <1>3
    <3>3. QED BY <3>1, <3>2
  <2>4. /\ ips'[a][i] = IF a \in addrs /\ i \in gs /\ ips[a][i] < life THEN life ELSE ips[a][i]
        /\ \A h \in Hosts : known'[a][h] = IF a \in addrs /\ h \in hs /\ known[a][h] < life
                                           THEN life ELSE known[a][h]
    <3>1. /\ ips'[a] = [j \in GroupIds |-> IF a \in addrs /\ j \in gs /\ ips[a][j] < life
                                           THEN life ELSE ips[a][j]]
          /\ known'[a] = [h \in Hosts |-> IF a \in addrs /\ h \in hs /\ known[a][h] < life
                                          THEN life ELSE known[a][h]]
      BY <1>3
    <3>2. QED BY <3>1
  <2>5. i \in gs <=> \E h \in hs : h \in Hosts /\ Brings(i, h)
    OBVIOUS
  <2>6. seeds'[a][i] <= ips'[a][i] /\ \A h \in Hosts : Brings(i, h) => known'[a][h] <= ips'[a][i]
    BY <2>2, <2>3, <2>4, <2>5
  <2>7. ASSUME ips'[a][i] > 0
        PROVE  \/ seeds'[a][i] = ips'[a][i]
               \/ \E h \in Hosts : Brings(i, h) /\ known'[a][h] = ips'[a][i]
    <3>1. CASE a \in addrs /\ i \in gs /\ ips[a][i] < life
      <4>1. PICK h \in hs : h \in Hosts /\ Brings(i, h)
        BY <3>1, <2>5
      <4>2. known[a][h] < life
        BY <2>2, <2>3, <3>1, <4>1
      <4>3. QED BY <2>4, <3>1, <4>1, <4>2
    <3>2. CASE ~ (a \in addrs /\ i \in gs /\ ips[a][i] < life)
      <4>1. ips'[a][i] = ips[a][i]
        BY <2>4, <3>2
      <4>2. ASSUME NEW h \in Hosts, Brings(i, h), known[a][h] = ips[a][i]
            PROVE  known'[a][h] = ips'[a][i]
        BY <2>3, <2>4, <2>5, <3>2, <4>1, <4>2
      <4>3. QED BY <2>2, <2>7, <4>1, <4>2
    <3>3. QED BY <3>1, <3>2
  <2>8. QED BY <2>6, <2>7
<1>6. QED BY <1>2, <1>4, <1>5 DEF LInv

(* So it does while time passes.                                            *)
LEMMA TimeKeeps == ASSUME LInv, Tick PROVE LInv'
<1>1. RulesOK /\ Tables /\ Learned
  BY DEF LInv
<1>2. groups' = groups
  BY DEF Tick
<1>3. RulesOK' /\ GroupIds' = GroupIds /\ \A i, h : Brings(i, h)' <=> Brings(i, h)
  BY <1>1, <1>2 DEF RulesOK, GroupIds, Brings
<1>4. ASSUME NEW a \in IPs
      PROVE  /\ ips[a] \in [GroupIds -> Nat] /\ known[a] \in [Hosts -> Nat]
             /\ ips'[a] = [i \in GroupIds |-> Less(ips[a][i])]
             /\ known'[a] = [h \in Hosts |-> Less(known[a][h])]
             /\ seeds[a] \in [GroupIds -> 0 .. FiveMinutes]
             /\ seeds'[a] = [i \in GroupIds |-> Less(seeds[a][i])]
  <2>1. ips[a] \in [GroupIds -> Nat] /\ known[a] \in [Hosts -> Nat]
          /\ seeds[a] \in [GroupIds -> 0 .. FiveMinutes]
    BY <1>1 DEF Tables
  <2>2. QED BY <2>1 DEF Tick
<1>5. Tables'
  <2>1. ips' = [a \in IPs |-> ips'[a]] /\ known' = [a \in IPs |-> known'[a]]
          /\ seeds' = [a \in IPs |-> seeds'[a]]
    BY DEF Tick
  <2>2. ASSUME NEW a \in IPs
        PROVE  /\ ips'[a] \in [GroupIds -> Nat] /\ known'[a] \in [Hosts -> Nat]
               /\ seeds'[a] \in [GroupIds -> 0 .. FiveMinutes]
    <3>1. /\ ips[a] \in [GroupIds -> Nat] /\ known[a] \in [Hosts -> Nat]
          /\ ips'[a] = [i \in GroupIds |-> Less(ips[a][i])]
          /\ known'[a] = [h \in Hosts |-> Less(known[a][h])]
          /\ seeds[a] \in [GroupIds -> 0 .. FiveMinutes]
          /\ seeds'[a] = [i \in GroupIds |-> Less(seeds[a][i])]
      BY <1>4
    <3>2. \A x \in 0 .. FiveMinutes : Less(x) \in 0 .. FiveMinutes
      BY TimeAssumption DEF Less
    <3>3. \A x \in Nat : Less(x) \in Nat
      BY DEF Less
    <3>4. QED BY <3>1, <3>2, <3>3
  <2>3. QED BY <1>3, <2>1, <2>2 DEF Tables
<1>6. Learned'
  <2>1. SUFFICES ASSUME NEW a \in IPs, NEW i \in GroupIds
                 PROVE  /\ seeds'[a][i] <= ips'[a][i]
                        /\ \A h \in Hosts : Brings(i, h) => known'[a][h] <= ips'[a][i]
                        /\ ips'[a][i] > 0 =>
                             \/ seeds'[a][i] = ips'[a][i]
                             \/ \E h \in Hosts : Brings(i, h) /\ known'[a][h] = ips'[a][i]
    BY <1>3 DEF Learned
  <2>2. /\ seeds[a][i] <= ips[a][i]
        /\ \A h \in Hosts : Brings(i, h) => known[a][h] <= ips[a][i]
        /\ ips[a][i] > 0 => \/ seeds[a][i] = ips[a][i]
                            \/ \E h \in Hosts : Brings(i, h) /\ known[a][h] = ips[a][i]
    BY <1>1 DEF Learned
  <2>3. ips[a][i] \in Nat /\ (\A h \in Hosts : known[a][h] \in Nat) /\ seeds[a][i] \in Nat
    <3>1. seeds[a][i] \in 0 .. FiveMinutes /\ FiveMinutes \in Nat
      BY <1>1, TimeAssumption DEF Tables
    <3>2. ips[a][i] \in Nat /\ \A h \in Hosts : known[a][h] \in Nat
      BY <1>4
    <3>3. QED BY <3>1, <3>2
  <2>4. ips'[a][i] = Less(ips[a][i]) /\ (\A h \in Hosts : known'[a][h] = Less(known[a][h]))
          /\ seeds'[a][i] = Less(seeds[a][i])
    <3>1. /\ ips'[a] = [j \in GroupIds |-> Less(ips[a][j])]
          /\ known'[a] = [h \in Hosts |-> Less(known[a][h])]
          /\ seeds'[a] = [j \in GroupIds |-> Less(seeds[a][j])]
      BY <1>4
    <3>2. ips'[a][i] = Less(ips[a][i])
      BY <3>1
    <3>3. \A h \in Hosts : known'[a][h] = Less(known[a][h])
      BY <3>1
    <3>4. seeds'[a][i] = Less(seeds[a][i])
      BY <3>1
    <3>5. QED BY <3>2, <3>3, <3>4
  <2>5. QED BY <2>2, <2>3, <2>4 DEF Less
<1>7. QED BY <1>3, <1>5, <1>6 DEF LInv

(* Some well-founded relation on Nat contains less-than, so a nonempty set of  *)
(* naturals has a least element, and Min finds it.                           *)
LEMMA OrderOfNat ==
    \E R : IsWellFoundedOn(R, Nat) /\ \A x, y \in Nat : y < x => <<y, x>> \in R
<1>1. \A x, y \in Nat : y < x => <<y, x>> \in OpToRel(<, Nat)
  BY DEF OpToRel
<1>2. QED BY <1>1, NatLessThanWellFounded, Zenon

LEMMA MinOfNats ==
    ASSUME NEW T, T \subseteq Nat, T # {}
    PROVE  Min(T) \in T /\ \A y \in T : Min(T) <= y
<1>1. PICK R : IsWellFoundedOn(R, Nat) /\ \A x, y \in Nat : y < x => <<y, x>> \in R
  BY OrderOfNat
<1>2. PICK x \in T : \A y \in T : ~ (<<y, x>> \in R)
  BY <1>1, WFMin
<1>3. ASSUME NEW y \in T PROVE x <= y
  <2>1. x \in Nat /\ y \in Nat /\ ~ (y < x)
    BY <1>1, <1>2, Zenon
  <2>2. QED BY <2>1
<1>4. \E m \in T : \A y \in T : m <= y
  BY <1>3
<1>5. QED BY <1>4 DEF Min

(* What the parser makes of the TTLs of a response and the tracker of that is   *)
(* the life of the shortest record.                                         *)
LEMMA ResponseLife ==
    ASSUME NEW A \in SUBSET IPs, A # {}, NEW answers \in [A -> TTLs]
    PROVE  /\ clampTTL(ResponseTTL(answers)) = RecordLife(answers)
           /\ RecordLife(answers) \in Nat
<1> DEFINE T == {answers[a] : a \in DOMAIN answers}
           U == {Day} \cup T
<1>1. T \subseteq Nat /\ T # {} /\ U \subseteq Nat /\ U # {}
  BY TimeAssumption
<1>2. Min(T) \in T /\ \A y \in T : Min(T) <= y
  BY <1>1, MinOfNats
<1>3. Min(U) \in U /\ \A y \in U : Min(U) <= y
  BY <1>1, MinOfNats
<1> HIDE DEF T, U
<1>4. MinTTL \in Nat /\ Day \in Nat /\ FiveMinutes \in Nat /\ MinTTL <= FiveMinutes /\ FiveMinutes <= Day
  BY TimeAssumption
<1>5. Min(T) \in Nat /\ Min(U) \in Nat
  BY <1>1, <1>2, <1>3
<1>6. Min(U) = IF Min(T) < Day THEN Min(T) ELSE Day
  BY <1>2, <1>3, <1>4, <1>5, <1>1 DEF U
<1>7. Max({Min(T), MinTTL}) = IF Min(T) < MinTTL THEN MinTTL ELSE Min(T)
  BY <1>4, <1>5, MaxOfTwo
<1>8. ResponseTTL(answers) = IF Min(U) = Day THEN FiveMinutes ELSE Min(U)
  BY DEF ResponseTTL, U, T
<1>9. RecordLife(answers) = IF Min(T) >= Day THEN FiveMinutes ELSE Max({Min(T), MinTTL})
  BY DEF RecordLife, T
<1>10. QED BY <1>4, <1>5, <1>6, <1>7, <1>8, <1>9 DEF clampTTL

(* A DNS response keeps the table right, and one that names no domain of the    *)
(* rules leaves it as it is.                                                *)
LEMMA ResponseKeeps ==
    ASSUME LInv, NEW hs \in SUBSET Hosts, NEW A \in SUBSET IPs, A # {}, NEW answers \in [A -> TTLs],
           dnsLoop(hs, answers)
    PROVE  LInv'
<1> DEFINE gs == GroupsForNames(hs)  ttl == ResponseTTL(answers)  life == RecordLife(answers)
<1>1. clampTTL(ttl) = life /\ life \in Nat
  BY ResponseLife
<1>2. gs \in SUBSET GroupIds
  BY DEF GroupsForNames, NameGroups, GroupIds
<1>3. \A i \in GroupIds : i \in gs <=> \E h \in hs : Brings(i, h)
  BY DEF GroupsForNames, Brings
<1>4. groups' = groups /\ seeds' = seeds /\ known' = Observed(DOMAIN answers, hs, life)
  BY DEF dnsLoop
<1>5. ips' = AddGroups(DOMAIN answers, gs, ttl)
  <2>1. CASE \E h \in hs : NameGroups(groups, h) # {}
    BY <2>1 DEF dnsLoop
  <2>2. CASE ~ \E h \in hs : NameGroups(groups, h) # {}
    <3>1. gs = {}
      BY <2>2 DEF GroupsForNames
    <3>2. ips' = ips
      BY <2>2 DEF dnsLoop
    <3>3. ips \in [IPs -> [GroupIds -> Nat]]
      BY DEF LInv, Tables
    <3>4. AddGroups(DOMAIN answers, gs, ttl) = [a \in IPs |-> [i \in GroupIds |-> ips[a][i]]]
      BY <3>1 DEF AddGroups
    <3>5. \A a \in IPs : ips[a] = [i \in GroupIds |-> ips[a][i]]
      BY <3>3
    <3>6. QED BY <3>2, <3>3, <3>4, <3>5
  <2>3. QED BY <2>1, <2>2
<1> HIDE DEF gs, ttl, life
<1>6. QED BY <1>1, <1>2, <1>3, <1>4, <1>5, LearnKeeps

(* So does the bootstrap lookup of one group.                               *)
LEMMA BootstrapKeeps ==
    ASSUME LInv, NEW i \in GroupIds, NEW addrs, ResolveBootstrap(i, addrs)
    PROVE  LInv'
<1>1. RulesOK /\ Tables /\ Learned
  BY DEF LInv
<1>2. clampTTL(FiveMinutes) = FiveMinutes /\ FiveMinutes \in Nat
  BY TimeAssumption DEF clampTTL
<1>3. groups' = groups /\ known' = known /\ ips' = AddGroups(addrs, {i}, FiveMinutes)
        /\ seeds' = [a \in IPs |-> [j \in GroupIds |->
                       IF a \in addrs /\ j = i THEN FiveMinutes ELSE seeds[a][j]]]
  BY DEF ResolveBootstrap
<1>4. RulesOK' /\ GroupIds' = GroupIds /\ \A j, h : Brings(j, h)' <=> Brings(j, h)
  BY <1>1, <1>3 DEF RulesOK, GroupIds, Brings
<1>5. ASSUME NEW a \in IPs, NEW j \in GroupIds
      PROVE  /\ ips[a][j] \in Nat /\ seeds[a][j] \in 0 .. FiveMinutes
             /\ ips'[a][j] = IF a \in addrs /\ j = i /\ ips[a][j] < FiveMinutes THEN FiveMinutes ELSE ips[a][j]
             /\ seeds'[a][j] = IF a \in addrs /\ j = i THEN FiveMinutes ELSE seeds[a][j]
  <2>1. ips[a][j] \in Nat /\ seeds[a][j] \in 0 .. FiveMinutes
    BY <1>1 DEF Tables
  <2>2. ips'[a] = [k \in GroupIds |-> IF a \in addrs /\ k \in {i} THEN Later(ips[a][k], FiveMinutes)
                                      ELSE ips[a][k]]
    BY <1>2, <1>3 DEF AddGroups
  <2>3. seeds'[a] = [k \in GroupIds |-> IF a \in addrs /\ k = i THEN FiveMinutes ELSE seeds[a][k]]
    BY <1>3
  <2>4. QED BY <2>1, <2>2, <2>3 DEF Later
<1>6. Tables'
  <2>1. \A a \in IPs, j \in GroupIds : ips'[a][j] \in Nat /\ seeds'[a][j] \in 0 .. FiveMinutes
    BY <1>2, <1>5
  <2>2. /\ ips' = [a \in IPs |-> [j \in GroupIds |-> ips'[a][j]]]
        /\ seeds' = [a \in IPs |-> [j \in GroupIds |-> seeds'[a][j]]]
    BY <1>3 DEF AddGroups
  <2>3. QED BY <1>1, <1>3, <1>4, <2>1, <2>2 DEF Tables
<1>7. Learned'
  <2>1. SUFFICES ASSUME NEW a \in IPs, NEW j \in GroupIds
                 PROVE  /\ seeds'[a][j] <= ips'[a][j]
                        /\ \A h \in Hosts : Brings(j, h) => known[a][h] <= ips'[a][j]
                        /\ ips'[a][j] > 0 =>
                             \/ seeds'[a][j] = ips'[a][j]
                             \/ \E h \in Hosts : Brings(j, h) /\ known[a][h] = ips'[a][j]
    BY <1>3, <1>4 DEF Learned
  <2>2. /\ seeds[a][j] <= ips[a][j]
        /\ \A h \in Hosts : Brings(j, h) => known[a][h] <= ips[a][j]
        /\ ips[a][j] > 0 => \/ seeds[a][j] = ips[a][j]
                            \/ \E h \in Hosts : Brings(j, h) /\ known[a][h] = ips[a][j]
    BY <1>1 DEF Learned
  <2>3. \A h \in Hosts : known[a][h] \in Nat
    BY <1>1 DEF Tables
  <2>4. QED BY <1>2, <1>5, <2>2, <2>3
<1>8. QED BY <1>4, <1>6, <1>7 DEF LInv

----------------------------------------------------------------------------
(* Types.                                                                  *)

TlsRec == [life : Nat, done : BOOLEAN, name : Hosts \cup {""}, set : BOOLEAN,
           next : 0 .. SeqMod - 1, from : Nat, len : Nat]
ConnRec == [state : {"none", "open", "closed"}, host : Hosts \cup {""}, start : 0 .. SeqMod - 1,
            sent : 0 .. HelloLen, clean : BOOLEAN, got : BOOLEAN]
RouteRec == [to : {"direct", "tunnel"}, proc : Procs]

(* A connection that was opened has a name.                                   *)
Hosted(c) == c.state # "none" => c.host \in Hosts

Types ==
    /\ tls \in TlsRec
    /\ conn \in ConnRec /\ Hosted(conn)
    /\ route \in RouteRec \cup {NoRoute}

(* What captureLoop goes by.                                                *)
LEMMA EntryTyped == ASSUME Types, NEW who \in Procs PROVE Entry(who) \in RouteRec
BY DEF Types, Entry, RouteRec

(* Feeding a segment leaves a state of the stream; a name is one of the hosts.  *)
LEMMA FeedTyped ==
    ASSUME NEW s \in TlsRec, NEW seq \in 0 .. SeqMod - 1, NEW pos \in Nat, NEW n \in Nat,
           NEW host \in Hosts
    PROVE  Feed(s, seq, pos, n, host) \in TlsRec
<1> DEFINE t == IF s.set THEN s ELSE [s EXCEPT !.set = TRUE, !.next = seq]
           over == Over(t, seq)
           at == (seq + over) % SeqMod
           gap == at # t.next
           from == IF gap \/ t.len = 0 THEN pos + over ELSE t.from
           len == (IF gap THEN 0 ELSE t.len) + n - over
           u == [t EXCEPT !.next = (at + n - over) % SeqMod, !.from = from, !.len = len]
<1>1. SeqMod \in Nat /\ SeqMod > 0 /\ 0 \in 0 .. SeqMod - 1
  BY StreamAssumption
<1>2. t \in TlsRec
  <2>1. CASE s.set
    BY <2>1
  <2>2. CASE ~ s.set
    BY <2>2 DEF TlsRec
  <2>3. QED BY <2>1, <2>2
<1> HIDE DEF t
<1>3. over \in Nat /\ t.len \in Nat /\ t.from \in Nat /\ t.life \in Nat
  <2>1. t.next \in 0 .. SeqMod - 1 /\ t.len \in Nat /\ t.from \in Nat /\ t.life \in Nat
    BY <1>2 DEF TlsRec
  <2>2. over \in Nat
    BY <1>1, <2>1 DEF Over
  <2>3. QED BY <2>1, <2>2
<1> HIDE DEF over
<1>4. at \in 0 .. SeqMod - 1
  BY <1>1, <1>3
<1> HIDE DEF at
<1>5. from \in Nat
  BY <1>3
<1> HIDE DEF from
<1>6. ASSUME over < n PROVE u \in TlsRec
  <2>1. len \in Nat
    BY <1>3, <1>6
  <2>2. (at + n - over) % SeqMod \in 0 .. SeqMod - 1
    BY <1>1, <1>3, <1>4
  <2> HIDE DEF len
  <2>3. QED BY <1>2, <1>5, <2>1, <2>2 DEF TlsRec
<1> HIDE DEF u, len
<1>7. ASSUME NEW v \in TlsRec, NEW h \in Hosts \cup {""} PROVE Done(v, h) \in TlsRec
  <2>1. NoState \in TlsRec /\ v.life \in Nat
    BY <1>1 DEF NoState, TlsRec
  <2>2. QED BY <2>1 DEF Done, TlsRec
<1>8. Feed(s, seq, pos, n, host) =
        IF s.done THEN s
        ELSE IF over >= n THEN t
        ELSE IF len > BufLimit THEN Done(t, "")
        ELSE IF ServerName(from, len) = "more" THEN u
        ELSE Done(u, IF ServerName(from, len) = "hello" THEN host ELSE "")
  BY DEF Feed, t, over, at, from, len, u
<1>9. QED
  <2>1. CASE s.done \/ over >= n
    BY <1>2, <1>8, <2>1
  <2>2. CASE ~ s.done /\ over < n
    <3>1. u \in TlsRec
      BY <1>6, <2>2
    <3>2. Done(t, "") \in TlsRec /\ Done(u, host) \in TlsRec /\ Done(u, "") \in TlsRec
      BY <1>2, <1>7, <3>1
    <3>3. ~ (over >= n)
      BY <1>3, <2>2
    <3>4. Feed(s, seq, pos, n, host) \in {u, Done(t, ""), Done(u, host), Done(u, "")}
      BY <1>8, <2>2, <3>3
    <3>5. QED BY <3>1, <3>2, <3>4
  <2>3. QED BY <1>3, <2>1, <2>2

(* What a captured packet of a connection can do to the tables: nothing, or      *)
(* teach the address one name; then, when the rules name that host for the      *)
(* program of the entry, the entry goes and that program has its promise.       *)
Taught(h, e) ==
    /\ ips' = AddGroups({Server}, NameGroups(groups, h), HalfHour)
    /\ known' = Observed({Server}, {h}, HalfHour)
    /\ \/ reset' = reset /\ route' \in {NoRoute, e}
       \/ /\ DecideHost(groups, e.proc, h)
          /\ reset' = [proc |-> e.proc, left |-> HalfHour] /\ route' = NoRoute

LEMMA CaptureDoes ==
    ASSUME Types, conn.state # "none", NEW pos \in 0 .. HelloLen, NEW n \in 1 .. HelloLen,
           NEW who \in Procs, NEW after \in ConnRec, Capture(conn, pos, n, who, after)
    PROVE  /\ UNCHANGED <<activity, groups, seeds, quic, firstQuic, reply>>
           /\ tls' \in TlsRec
           /\ \/ ips' = ips /\ known' = known /\ reset' = reset /\ route' \in {NoRoute, Entry(who)}
              \/ \E h \in Hosts : Taught(h, Entry(who))
           /\ \/ conn' = NoConn
              \/ after # NoConn /\ conn' = Closed(after)
              \/ conn' = [after EXCEPT !.got = TRUE]
              \/ conn' = after
<1> DEFINE first  == route = NoRoute
           e      == Entry(who)
           tunnel == e.to = "tunnel"
           fed    == ~tunnel /\ e.proc # Unknown /\ NeedsTLSDiscovery(groups, e.proc)
           s      == IF tls.life = 0 THEN NewState(TlsLife) ELSE tls
           t      == IF fed THEN Feed(s, (conn.start + pos) % SeqMod, pos, n, conn.host) ELSE tls
           found  == fed /\ t.done /\ t.name # ""
           gs     == NameGroups(groups, t.name)
           named  == found /\ gs # {} /\ DecideHost(groups, e.proc, t.name)
           closed == named \/ (tunnel /\ first)
<1>1. /\ tls' = t
      /\ ips' = IF found THEN AddGroups({Server}, gs, HalfHour) ELSE ips
      /\ known' = IF found THEN Observed({Server}, {t.name}, HalfHour) ELSE known
      /\ route' = IF closed THEN NoRoute ELSE e
      /\ reset' = IF named THEN [proc |-> e.proc, left |-> HalfHour] ELSE reset
      /\ conn' = IF after = NoConn THEN NoConn
                 ELSE IF closed THEN Closed(after)
                 ELSE [after EXCEPT !.got = @ \/ (fed /\ t.done /\ t.name = conn.host)]
      /\ UNCHANGED <<activity, groups, seeds, quic, firstQuic, reply>>
  BY DEF Capture, windows
<1>2. SeqMod \in Nat /\ SeqMod > 0 /\ HelloLen \in Nat /\ TlsLife \in Nat
  BY StreamAssumption, TimeAssumption
<1>3. conn.host \in Hosts /\ conn.start \in 0 .. SeqMod - 1 /\ tls \in TlsRec
  BY DEF Types, Hosted, ConnRec
<1>4. s \in TlsRec
  <2>1. NoState \in TlsRec
    BY <1>2 DEF NoState, TlsRec
  <2>2. NewState(TlsLife) \in TlsRec
    BY <1>2, <2>1 DEF NewState, TlsRec
  <2>3. QED BY <1>3, <2>2
<1>5. (conn.start + pos) % SeqMod \in 0 .. SeqMod - 1 /\ pos \in Nat /\ n \in Nat
  BY <1>2, <1>3
<1>6. Feed(s, (conn.start + pos) % SeqMod, pos, n, conn.host) \in TlsRec
  <2> HIDE DEF s
  <2>1. QED BY <1>3, <1>4, <1>5, FeedTyped
<1>7. t \in TlsRec
  BY <1>3, <1>6
<1>8. t.name \in Hosts \cup {""}
  <2> HIDE DEF t
  <2>1. QED BY <1>7 DEF TlsRec
<1> HIDE DEF t, tunnel, first
<1>9. \/ ips' = ips /\ known' = known /\ reset' = reset /\ route' \in {NoRoute, e}
      \/ \E h \in Hosts : Taught(h, e)
  <2> HIDE DEF e
  <2>1. CASE ~ found
    BY <1>1, <2>1
  <2>2. CASE found
    <3>1. t.name \in Hosts
      BY <1>8, <2>2
    <3>2. Taught(t.name, e)
      BY <1>1, <2>2 DEF Taught
    <3>3. QED BY <3>1, <3>2
  <2>3. QED BY <2>1, <2>2
<1>10. \/ conn' = NoConn
       \/ after # NoConn /\ conn' = Closed(after)
       \/ conn' = [after EXCEPT !.got = TRUE]
       \/ conn' = after
  <2> DEFINE heard == fed /\ t.done /\ t.name = conn.host
  <2>1. [after EXCEPT !.got = @ \/ heard] \in {[after EXCEPT !.got = TRUE], after}
    <3>1. after.got \in BOOLEAN /\ after = [after EXCEPT !.got = after.got]
      BY DEF ConnRec
    <3>2. CASE after.got \/ heard
      BY <3>1, <3>2
    <3>3. CASE ~ (after.got \/ heard)
      <4>1. (after.got \/ heard) = after.got
        BY <3>1, <3>3
      <4>2. QED BY <3>1, <4>1
    <3>4. QED BY <3>2, <3>3
  <2> HIDE DEF heard, closed
  <2>2. conn' = IF after = NoConn THEN NoConn ELSE IF closed THEN Closed(after)
                ELSE [after EXCEPT !.got = @ \/ heard]
    BY <1>1 DEF heard
  <2>3. QED BY <2>1, <2>2
<1>11. QED BY <1>1, <1>7, <1>9, <1>10

(* Every packet of the connection is captured: a segment, a repetition, or the   *)
(* last one of a connection that is gone.                                     *)
Packet(n, who) ==
    SendSegment(n, who) \/ LatePacket(n, who) \/ \E pos \in 0 .. HelloLen : Retransmit(pos, n, who)

LEMMA NoConnTyped == NoConn \in ConnRec /\ Hosted(NoConn)
<1>1. 0 \in 0 .. SeqMod - 1 /\ 0 \in 0 .. HelloLen
  BY StreamAssumption
<1>2. QED BY <1>1 DEF NoConn, ConnRec, Hosted

LEMMA PacketCaptured ==
    ASSUME Types, NEW n \in 1 .. HelloLen, NEW who \in Procs, Packet(n, who)
    PROVE  /\ conn.state # "none"
           /\ \E pos \in 0 .. HelloLen, after \in ConnRec :
                 /\ Hosted(after) /\ (after = NoConn \/ after.state = "open")
                 /\ Capture(conn, pos, n, who, after)
<1>1. /\ conn \in ConnRec /\ Hosted(conn) /\ conn.sent \in 0 .. HelloLen
      /\ conn.clean \in BOOLEAN /\ HelloLen \in Nat
  <2>1. conn \in ConnRec /\ Hosted(conn)
    BY DEF Types
  <2>2. conn.sent \in 0 .. HelloLen /\ conn.clean \in BOOLEAN
    BY <2>1 DEF ConnRec
  <2>3. HelloLen \in Nat
    BY StreamAssumption
  <2>4. QED BY <2>1, <2>2, <2>3
<1>2. CASE SendSegment(n, who)
  <2> DEFINE after == [conn EXCEPT !.sent = @ + n]
  <2>1. conn.state = "open" /\ conn.sent + n <= HelloLen /\ Capture(conn, conn.sent, n, who, after)
    BY <1>2 DEF SendSegment
  <2>2. conn.sent + n \in 0 .. HelloLen
    BY <1>1, <2>1
  <2>3. after \in ConnRec /\ Hosted(after) /\ after.state = "open"
    BY <1>1, <2>1, <2>2 DEF ConnRec, Hosted
  <2> HIDE DEF after
  <2>4. QED BY <1>1, <2>1, <2>3
<1>3. CASE LatePacket(n, who)
  <2>1. conn.state = "closed" /\ n <= conn.sent /\ Capture(conn, conn.sent - n, n, who, NoConn)
    BY <1>3 DEF LatePacket
  <2>2. conn.sent - n \in 0 .. HelloLen
    BY <1>1, <2>1
  <2>3. QED BY <2>1, <2>2, NoConnTyped
<1>4. ASSUME NEW pos \in 0 .. HelloLen, Retransmit(pos, n, who)
      PROVE  /\ conn.state # "none"
             /\ \E after \in ConnRec :
                  Hosted(after) /\ after.state = "open" /\ Capture(conn, pos, n, who, after)
  <2> DEFINE far == Max({conn.sent, pos + n})
             clear == conn.clean /\ ~ Wrapped(conn, pos)
             after == [conn EXCEPT !.sent = far, !.clean = clear]
  <2>1. conn.state = "open" /\ pos + n <= HelloLen /\ Capture(conn, pos, n, who, after)
    BY <1>4 DEF Retransmit
  <2>2. far = IF conn.sent < pos + n THEN pos + n ELSE conn.sent
    BY <1>1, MaxOfTwo
  <2>3. far \in 0 .. HelloLen
    <3> HIDE DEF far
    <3>1. QED BY <1>1, <2>1, <2>2
  <2>4. clear \in BOOLEAN
    BY <1>1
  <2> HIDE DEF far, clear
  <2>5. after \in ConnRec /\ Hosted(after) /\ after.state = "open"
    BY <1>1, <2>1, <2>3, <2>4 DEF ConnRec, Hosted
  <2> HIDE DEF after
  <2>6. QED BY <2>1, <2>5
<1>5. QED BY <1>2, <1>3, <1>4 DEF Packet

(* The actions, with those of one kind together.                              *)
LEMMA Steps ==
    ASSUME [Next]_vars
    PROVE  \/ \E hs \in SUBSET Hosts, A \in (SUBSET IPs) \ {{}} : \E ttl \in [A -> TTLs] : dnsLoop(hs, ttl)
           \/ \E i \in GroupIds, A \in SUBSET IPs : ResolveBootstrap(i, A)
           \/ \E who \in Procs, h \in Hosts, st \in Starts : Open(who, h, st)
           \/ \E n \in 1 .. HelloLen, who \in Procs : Packet(n, who)
           \/ \E n \in 1 .. HelloLen : MissSegment(n)
           \/ Close
           \/ FlowDeleted
           \/ \E p \in Procs, a \in IPs, aggressive \in BOOLEAN : QuicPacket(p, a, aggressive)
           \/ \E p \in Procs, h \in Hosts : ProxyRequest(p, h)
           \/ Tick
           \/ Sweep
           \/ UNCHANGED vars
<1>1. ASSUME NEW hs \in {{q, c} : q, c \in Hosts}, NEW A \in (SUBSET IPs) \ {{}},
             NEW ttl \in [A -> TTLs], dnsLoop(hs, ttl)
      PROVE  \E hs1 \in SUBSET Hosts, A1 \in (SUBSET IPs) \ {{}} :
                \E ttl1 \in [A1 -> TTLs] : dnsLoop(hs1, ttl1)
  <2>1. hs \in SUBSET Hosts
    OBVIOUS
  <2>2. QED BY <1>1, <2>1
<1>2. ASSUME NEW i \in GroupIds, NEW A \in (SUBSET IPs) \ {{}}, ResolveBootstrap(i, A)
      PROVE  \E i1 \in GroupIds, A1 \in SUBSET IPs : ResolveBootstrap(i1, A1)
  <2>1. A \in SUBSET IPs
    OBVIOUS
  <2>2. QED BY <1>2, <2>1
<1>3. ASSUME NEW n \in 1 .. HelloLen,
             \/ MissSegment(n)
             \/ \E who \in Procs : \/ SendSegment(n, who)
                                   \/ LatePacket(n, who)
                                   \/ \E pos \in 0 .. HelloLen : Retransmit(pos, n, who)
      PROVE  \E k \in 1 .. HelloLen : MissSegment(k) \/ \E who \in Procs : Packet(k, who)
  BY <1>3, Zenon DEF Packet
<1>4. CASE Next
  <2>1. CASE \E hs \in {{q, c} : q, c \in Hosts}, A \in (SUBSET IPs) \ {{}} :
               \E ttl \in [A -> TTLs] : dnsLoop(hs, ttl)
    BY <1>1, <2>1
  <2>2. CASE \E i \in GroupIds, A \in (SUBSET IPs) \ {{}} : ResolveBootstrap(i, A)
    BY <1>2, <2>2
  <2>3. CASE \E n \in 1 .. HelloLen :
               \/ MissSegment(n)
               \/ \E who \in Procs : \/ SendSegment(n, who)
                                     \/ LatePacket(n, who)
                                     \/ \E pos \in 0 .. HelloLen : Retransmit(pos, n, who)
    BY <1>3, <2>3
  <2>4. QED BY <1>4, <2>1, <2>2, <2>3, SMT DEF Next
<1>5. QED BY <1>4

(* The types hold in every step.                                             *)
LEMMA TypesKept == ASSUME Types, [Next]_vars PROVE Types'
<1>1. tls \in TlsRec /\ conn \in ConnRec /\ Hosted(conn) /\ route \in RouteRec \cup {NoRoute}
  BY DEF Types
<1>2. SeqMod \in Nat /\ SeqMod > 0 /\ HelloLen \in Nat /\ NoState \in TlsRec
  BY StreamAssumption DEF NoState, TlsRec
<1>3. ASSUME NEW c \in ConnRec, Hosted(c)
      PROVE  /\ Closed(c) \in ConnRec /\ Closed(c).state = "closed"
             /\ c.state = "open" => Hosted(Closed(c))
  <2>1. Closed(c) = [[[c EXCEPT !.state = "closed"] EXCEPT !.clean = FALSE] EXCEPT !.got = FALSE]
    BY DEF Closed
  <2>2. [c EXCEPT !.state = "closed"] \in ConnRec
    BY DEF ConnRec
  <2>3. [[c EXCEPT !.state = "closed"] EXCEPT !.clean = FALSE] \in ConnRec
    BY <2>2 DEF ConnRec
  <2>4. Closed(c) \in ConnRec
    BY <2>1, <2>3 DEF ConnRec
  <2>5. Closed(c).state = "closed" /\ Closed(c).host = c.host
    BY DEF Closed, ConnRec
  <2>6. c.state = "open" => Hosted(Closed(c))
    BY <1>3, <2>5 DEF Hosted
  <2>7. QED BY <2>4, <2>5, <2>6
<1>4. ASSUME NEW who \in Procs, NEW h \in Hosts, NEW st \in Starts, Open(who, h, st)
      PROVE  Types'
  <2>1. st \in 0 .. SeqMod - 1 /\ 0 \in 0 .. HelloLen
    BY <1>2, TimeAssumption
  <2>2. conn' \in ConnRec /\ Hosted(conn')
    <3>1. conn' = [state |-> "open", host |-> h, start |-> st, sent |-> 0,
                   clean |-> tls.life = 0, got |-> FALSE]
      BY <1>4 DEF Open
    <3>2. (tls.life = 0) \in BOOLEAN
      OBVIOUS
    <3>3. QED BY <2>1, <3>1, <3>2 DEF ConnRec, Hosted
  <2>3. route' \in RouteRec /\ tls' = tls
    BY <1>4, EntryTyped DEF Open
  <2>4. QED BY <1>1, <2>2, <2>3 DEF Types
<1>5. ASSUME NEW n \in 1 .. HelloLen, NEW who \in Procs, Packet(n, who) PROVE Types'
  <2>1. PICK pos \in 0 .. HelloLen, after \in ConnRec :
           /\ Hosted(after) /\ (after = NoConn \/ after.state = "open")
           /\ Capture(conn, pos, n, who, after)
    BY <1>5, PacketCaptured
  <2>2. conn.state # "none"
    BY <1>5, PacketCaptured
  <2>3. /\ tls' \in TlsRec /\ route' \in {NoRoute, Entry(who)}
        /\ \/ conn' = NoConn
           \/ after # NoConn /\ conn' = Closed(after)
           \/ conn' = [after EXCEPT !.got = TRUE]
           \/ conn' = after
    BY <2>1, <2>2, CaptureDoes DEF Taught
  <2>4. [after EXCEPT !.got = TRUE] \in ConnRec /\ Hosted([after EXCEPT !.got = TRUE])
    BY <2>1 DEF ConnRec, Hosted
  <2>5. NoConn \in ConnRec /\ Hosted(NoConn) /\ NoConn.state = "none"
    BY NoConnTyped DEF NoConn
  <2>6. /\ Closed(after) \in ConnRec /\ Closed(after).state = "closed"
        /\ after.state = "open" => Hosted(Closed(after))
    BY <1>3, <2>1
  <2>7. Entry(who) \in RouteRec
    BY EntryTyped
  <2>8. QED BY <2>1, <2>3, <2>4, <2>5, <2>6, <2>7 DEF Types
<1>6. ASSUME NEW n \in 1 .. HelloLen, MissSegment(n) PROVE Types'
  <2>1. conn.sent + n \in 0 .. HelloLen
    <3>1. conn.sent \in 0 .. HelloLen
      BY <1>1 DEF ConnRec
    <3>2. conn.sent + n <= HelloLen
      BY <1>6 DEF MissSegment
    <3>3. QED BY <1>2, <3>1, <3>2
  <2>2. conn' \in ConnRec /\ Hosted(conn') /\ conn'.state = conn.state
    BY <1>1, <1>6, <2>1 DEF MissSegment, ConnRec, Hosted
  <2>3. tls' = tls /\ route' = route
    BY <1>6 DEF MissSegment
  <2>4. QED BY <1>1, <2>2, <2>3 DEF Types
<1>7. CASE Close
  <2>1. tls' = tls /\ route' = route /\ conn' = Closed(conn) /\ conn.state = "open"
    BY <1>7 DEF Close
  <2>2. QED BY <1>1, <1>3, <2>1 DEF Types
<1>8. CASE FlowDeleted
  <2> DEFINE clear == conn.sent = 0
  <2>1. tls' = NoState /\ route' = NoRoute
          /\ conn' = IF conn.state = "open" THEN [conn EXCEPT !.clean = clear] ELSE conn
    BY <1>8 DEF FlowDeleted
  <2>2. clear \in BOOLEAN
    OBVIOUS
  <2> HIDE DEF clear
  <2>3. conn' \in ConnRec /\ Hosted(conn')
    BY <1>1, <2>1, <2>2 DEF ConnRec, Hosted
  <2>4. QED BY <1>2, <2>1, <2>3 DEF Types
<1>9. CASE Tick
  <2>1. tls' = [tls EXCEPT !.life = Less(@)] /\ route' = route
    BY <1>9 DEF Tick
  <2>2. tls' \in TlsRec
    <3>1. Less(tls.life) \in Nat
      <4>1. tls.life \in Nat
        BY <1>1 DEF TlsRec
      <4>2. QED BY <4>1 DEF Less
    <3>2. QED BY <1>1, <2>1, <3>1 DEF TlsRec
  <2> DEFINE clear == conn.clean /\ ~(tls.life = 1 /\ ~tls.done)
  <2>3. conn' = [conn EXCEPT !.clean = clear] /\ clear \in BOOLEAN
    BY <1>1, <1>9 DEF Tick, ConnRec
  <2> HIDE DEF clear
  <2>4. conn' \in ConnRec /\ Hosted(conn') /\ conn'.state = conn.state
    BY <1>1, <2>3 DEF ConnRec, Hosted
  <2>5. QED BY <1>1, <2>1, <2>2, <2>4 DEF Types
<1>10. CASE Sweep
  <2>1. tls' = NoState /\ UNCHANGED <<conn, route>>
    BY <1>10 DEF Sweep
  <2>2. QED BY <1>1, <1>2, <2>1 DEF Types
<1>11. CASE UNCHANGED <<tls, conn, route>>
  BY <1>1, <1>11 DEF Types
<1>12. /\ \A hs, ttl : dnsLoop(hs, ttl) => UNCHANGED <<tls, conn, route>>
       /\ \A i, a : ResolveBootstrap(i, a) => UNCHANGED <<tls, conn, route>>
       /\ \A p, a, aggressive : QuicPacket(p, a, aggressive) => UNCHANGED <<tls, conn, route>>
       /\ \A p, h : ProxyRequest(p, h) => UNCHANGED <<tls, conn, route>>
       /\ UNCHANGED vars => UNCHANGED <<tls, conn, route>>
  BY Zenon DEF dnsLoop, ResolveBootstrap, QuicPacket, ProxyRequest, vars, flow
<1>13. QED BY <1>4, <1>5, <1>6, <1>7, <1>8, <1>9, <1>10, <1>11, <1>12, Steps

(* The table of the tracker stays right in every step.                         *)
LEMMA LearnedKept == ASSUME LInv, Types, [Next]_vars PROVE LInv'
<1>1. ASSUME UNCHANGED <<groups, table>> PROVE LInv'
  BY <1>1 DEF LInv, RulesOK, Tables, Learned, GroupIds, Brings, table
<1>2. ASSUME NEW n \in 1 .. HelloLen, NEW who \in Procs, Packet(n, who) PROVE LInv'
  <2>1. PICK pos \in 0 .. HelloLen, after \in ConnRec :
           /\ Hosted(after) /\ (after = NoConn \/ after.state = "open")
           /\ Capture(conn, pos, n, who, after)
    BY <1>2, PacketCaptured
  <2>2. conn.state # "none"
    BY <1>2, PacketCaptured
  <2>3. groups' = groups /\ seeds' = seeds
          /\ ((ips' = ips /\ known' = known) \/ \E h \in Hosts : Taught(h, Entry(who)))
    BY <2>1, <2>2, CaptureDoes
  <2>4. ASSUME NEW h \in Hosts, Taught(h, Entry(who)) PROVE LInv'
    <3>1. clampTTL(HalfHour) = HalfHour /\ HalfHour \in Nat
      BY TimeAssumption DEF clampTTL
    <3>2. {h} \in SUBSET Hosts /\ NameGroups(groups, h) \in SUBSET GroupIds
      BY DEF NameGroups, GroupIds
    <3>3. \A i \in GroupIds : i \in NameGroups(groups, h) <=> \E k \in {h} : Brings(i, k)
      BY DEF Brings
    <3>4. QED BY <2>3, <2>4, <3>1, <3>2, <3>3, LearnKeeps DEF Taught
  <2>5. QED BY <1>1, <2>3, <2>4 DEF table
<1>3. /\ \A who, h, st : Open(who, h, st) => UNCHANGED <<groups, table>>
      /\ \A n : MissSegment(n) => UNCHANGED <<groups, table>>
      /\ Close \/ FlowDeleted \/ Sweep => UNCHANGED <<groups, table>>
      /\ \A p, a, aggressive : QuicPacket(p, a, aggressive) => UNCHANGED <<groups, table>>
      /\ \A p, h : ProxyRequest(p, h) => UNCHANGED <<groups, table>>
      /\ UNCHANGED vars => UNCHANGED <<groups, table>>
  BY Zenon DEF Open, MissSegment, Close, FlowDeleted, Sweep, QuicPacket, ProxyRequest, vars, table
<1>4. ASSUME NEW hs \in SUBSET Hosts, NEW A \in (SUBSET IPs) \ {{}}, NEW ttl \in [A -> TTLs],
             dnsLoop(hs, ttl)
      PROVE  LInv'
  <2>1. A \in SUBSET IPs /\ A # {}
    OBVIOUS
  <2>2. QED BY <1>4, <2>1, ResponseKeeps
<1>5. QED BY <1>1, <1>2, <1>3, <1>4, BootstrapKeeps, TimeKeeps, Steps

----------------------------------------------------------------------------
(* A connection reset for its name.                                         *)

(* Of the groups that select the program, one knows the server for as long as   *)
(* the promise lasts; meanwhile no direct entry of that program is made.        *)
Promise ==
    /\ reset \in [proc : Procs \cup {Unknown}, left : Nat]
    /\ reset.left > 0 => \E i \in Candidates(groups, reset.proc) : ips[Server][i] >= reset.left

NoDirect == reset.left > 0 => route # [to |-> "direct", proc |-> reset.proc]

LEMMA PromiseDecides ==
    ASSUME Promise, Tables, reset.left > 0
    PROVE  Decide(groups, reset.proc, Server, learned(Server))
<1>1. reset.left \in Nat /\ Server \in IPs
  BY TimeAssumption DEF Promise
<1>2. PICK i \in Candidates(groups, reset.proc) : ips[Server][i] >= reset.left
  BY DEF Promise
<1>3. i \in GroupIds
  BY DEF Candidates, globalGroups, byName, byPath, GroupIds
<1>4. ips[Server][i] > 0
  BY <1>1, <1>2, <1>3 DEF Tables
<1>5. QED BY <1>2, <1>3, <1>4 DEF Decide, groupDestinationMatches, learned

LEMMA PromiseTunnels == Promise /\ NoDirect /\ Tables => ResetLeadsToTunnel
BY PromiseDecides DEF ResetLeadsToTunnel, NoDirect

(* Learning only prolongs.                                                  *)
LEMMA LearningProlongs ==
    ASSUME Tables, NEW addrs, NEW gs, NEW ttl \in Nat, ips' = AddGroups(addrs, gs, ttl),
           NEW a \in IPs, NEW i \in GroupIds
    PROVE  /\ ips'[a][i] >= ips[a][i]
           /\ a \in addrs /\ i \in gs => ips'[a][i] >= clampTTL(ttl)
<1>1. ips[a][i] \in Nat
  BY DEF Tables
<1>2. clampTTL(ttl) \in Nat
  BY TimeAssumption DEF clampTTL
<1>3. ips'[a] = [j \in GroupIds |-> IF a \in addrs /\ j \in gs THEN Later(ips[a][j], clampTTL(ttl))
                                     ELSE ips[a][j]]
  BY DEF AddGroups
<1>4. ips'[a][i] = IF a \in addrs /\ i \in gs THEN Later(ips[a][i], clampTTL(ttl)) ELSE ips[a][i]
  BY <1>3
<1>5. QED BY <1>1, <1>2, <1>4 DEF Later

(* The promise is kept.                                                     *)
LEMMA PromiseKept ==
    ASSUME Promise, LInv, Types, [Next]_vars
    PROVE  Promise'
<1>1. Tables /\ Server \in IPs
  BY TimeAssumption DEF LInv
<1>2. ASSUME groups' = groups, reset' = reset, \A a \in IPs, i \in GroupIds : ips'[a][i] >= ips[a][i]
      PROVE  Promise'
  <2>1. SUFFICES ASSUME reset.left > 0
                 PROVE  \E i \in Candidates(groups, reset.proc) : ips'[Server][i] >= reset.left
    BY <1>2 DEF Promise
  <2>2. PICK i \in Candidates(groups, reset.proc) : ips[Server][i] >= reset.left
    BY <2>1 DEF Promise
  <2>3. i \in GroupIds
    BY DEF Candidates, globalGroups, byName, byPath, GroupIds
  <2>4. ips[Server][i] \in Nat /\ reset.left \in Nat
    BY <1>1, <2>3 DEF Tables, Promise
  <2>5. ips'[Server][i] >= ips[Server][i] /\ ips'[Server][i] \in Nat
    <3>1. Tables' /\ GroupIds' = GroupIds
      BY <1>2, LearnedKept DEF LInv, GroupIds
    <3>2. QED BY <1>1, <1>2, <2>3, <3>1 DEF Tables
  <2>6. QED BY <2>2, <2>4, <2>5
<1>3. ASSUME UNCHANGED <<groups, table, reset>> PROVE Promise'
  BY <1>3 DEF Promise, table
<1>4. ASSUME NEW hs \in SUBSET Hosts, NEW A \in (SUBSET IPs) \ {{}}, NEW ttl \in [A -> TTLs],
             dnsLoop(hs, ttl)
      PROVE  Promise'
  <2>1. ResponseTTL(ttl) \in Nat
    <3> DEFINE U == {Day} \cup {ttl[a] : a \in DOMAIN ttl}
    <3>1. U \subseteq Nat /\ U # {}
      BY TimeAssumption
    <3>2. Min(U) \in Nat
      BY <3>1, MinOfNats
    <3>3. FiveMinutes \in Nat
      BY TimeAssumption
    <3>4. QED BY <3>2, <3>3 DEF ResponseTTL
  <2>2. groups' = groups /\ reset' = reset
    BY <1>4 DEF dnsLoop, flow
  <2>3. ips' = ips \/ ips' = AddGroups(DOMAIN ttl, GroupsForNames(hs), ResponseTTL(ttl))
    BY <1>4 DEF dnsLoop
  <2>4. CASE ips' = ips
    <3>1. \A a \in IPs, i \in GroupIds : ips'[a][i] >= ips[a][i]
      BY <1>1, <2>4 DEF Tables
    <3>2. QED BY <1>2, <2>2, <3>1
  <2>5. CASE ips' = AddGroups(DOMAIN ttl, GroupsForNames(hs), ResponseTTL(ttl))
    <3>1. \A a \in IPs, i \in GroupIds : ips'[a][i] >= ips[a][i]
      BY <1>1, <2>1, <2>5, LearningProlongs
    <3>2. QED BY <1>2, <2>2, <3>1
  <2>6. QED BY <2>3, <2>4, <2>5
<1>5. ASSUME NEW k \in GroupIds, NEW addrs \in SUBSET IPs, ResolveBootstrap(k, addrs) PROVE Promise'
  <2>1. groups' = groups /\ reset' = reset /\ ips' = AddGroups(addrs, {k}, FiveMinutes)
    BY <1>5 DEF ResolveBootstrap, flow
  <2>2. FiveMinutes \in Nat
    BY TimeAssumption
  <2>3. \A a \in IPs, i \in GroupIds : ips'[a][i] >= ips[a][i]
    BY <1>1, <2>1, <2>2, LearningProlongs
  <2>4. QED BY <1>2, <2>1, <2>3
<1>6. ASSUME NEW n \in 1 .. HelloLen, NEW who \in Procs, Packet(n, who) PROVE Promise'
  <2>1. PICK pos \in 0 .. HelloLen, after \in ConnRec :
           /\ Hosted(after) /\ (after = NoConn \/ after.state = "open")
           /\ Capture(conn, pos, n, who, after)
    BY <1>6, PacketCaptured
  <2> DEFINE e == Entry(who)
  <2>2. conn.state # "none" /\ e.proc \in Procs
    BY <1>6, PacketCaptured, EntryTyped DEF RouteRec
  <2>3. groups' = groups /\ ((ips' = ips /\ reset' = reset) \/ \E h \in Hosts : Taught(h, e))
    BY <2>1, <2>2, CaptureDoes
  <2> HIDE DEF e
  <2>4. HalfHour \in Nat /\ clampTTL(HalfHour) = HalfHour
    BY TimeAssumption DEF clampTTL
  <2>5. ASSUME NEW h \in Hosts, Taught(h, e) PROVE Promise'
    <3>1. ips' = AddGroups({Server}, NameGroups(groups, h), HalfHour)
      BY <2>5 DEF Taught
    <3>2. /\ \A a \in IPs, i \in GroupIds : ips'[a][i] >= ips[a][i]
          /\ \A i \in GroupIds : i \in NameGroups(groups, h) => ips'[Server][i] >= HalfHour
      BY <1>1, <2>2, <2>4, <3>1, LearningProlongs
    <3>3. CASE reset' = reset
      BY <1>2, <2>3, <3>2, <3>3
    <3>4. CASE DecideHost(groups, e.proc, h)
                 /\ reset' = [proc |-> e.proc, left |-> HalfHour]
      <4>1. PICK i \in Candidates(groups, e.proc) :
                ~DomainsAll(groups[i]) /\ MatchesDomain(groups[i], h)
        BY <3>4 DEF DecideHost
      <4>2. i \in GroupIds /\ i \in NameGroups(groups, h)
        BY <4>1 DEF Candidates, globalGroups, byName, byPath, GroupIds, NameGroups
      <4>3. ips'[Server][i] >= HalfHour
        BY <3>2, <4>2
      <4>4. QED BY <2>2, <2>3, <2>4, <3>4, <4>1, <4>3 DEF Promise
    <3>5. QED BY <2>5, <3>3, <3>4 DEF Taught
  <2>6. CASE ips' = ips /\ reset' = reset
    <3>1. \A a \in IPs, i \in GroupIds : ips'[a][i] >= ips[a][i]
      BY <1>1, <2>6 DEF Tables
    <3>2. QED BY <1>2, <2>3, <2>6, <3>1
  <2>7. QED BY <2>3, <2>5, <2>6
<1>7. CASE Tick
  <2>1. groups' = groups /\ reset' = IF reset.left <= 1 THEN NoReset ELSE [reset EXCEPT !.left = @ - 1]
    BY <1>7 DEF Tick
  <2>2. reset.left \in Nat
    BY DEF Promise
  <2>3. CASE reset.left <= 1
    <3>1. reset' = NoReset
      BY <2>1, <2>3
    <3>2. /\ NoReset \in [proc : Procs \cup {Unknown}, left : Nat]
          /\ ~ (NoReset.left > 0)
      BY DEF NoReset
    <3>3. QED BY <3>1, <3>2 DEF Promise
  <2>4. CASE ~ (reset.left <= 1)
    <3>1. reset' = [reset EXCEPT !.left = reset.left - 1] /\ reset.left > 1 /\ reset.left - 1 \in Nat
      BY <2>1, <2>2, <2>4
    <3>2. \E j \in Candidates(groups, reset.proc) : ips[Server][j] >= reset.left
      <4>1. reset.left > 0
        BY <2>2, <2>4
      <4>2. QED BY <4>1 DEF Promise
    <3> PICK i \in Candidates(groups, reset.proc) : ips[Server][i] >= reset.left
      BY <3>2
    <3>3. i \in GroupIds
      BY DEF Candidates, globalGroups, byName, byPath, GroupIds
    <3>4. ips[Server][i] \in Nat
      BY <1>1, <3>3 DEF Tables
    <3>5. ips'[Server] = [j \in GroupIds |-> Less(ips[Server][j])]
      BY <1>1, <1>7 DEF Tick
    <3>6. ips'[Server][i] = Less(ips[Server][i])
      BY <3>3, <3>5
    <3>7. ips'[Server][i] >= reset.left - 1
      BY <2>2, <3>1, <3>2, <3>4, <3>6 DEF Less
    <3>8. reset'.proc = reset.proc /\ reset'.left = reset.left - 1
            /\ reset' \in [proc : Procs \cup {Unknown}, left : Nat]
      BY <3>1 DEF Promise
    <3>9. QED BY <2>1, <3>2, <3>3, <3>7, <3>8 DEF Promise
  <2>5. QED BY <2>3, <2>4
<1>8. /\ \A who, h, st : Open(who, h, st) => UNCHANGED <<groups, table, reset>>
      /\ \A n : MissSegment(n) => UNCHANGED <<groups, table, reset>>
      /\ Close \/ FlowDeleted \/ Sweep => UNCHANGED <<groups, table, reset>>
      /\ \A p, a, aggressive : QuicPacket(p, a, aggressive) => UNCHANGED <<groups, table, reset>>
      /\ \A p, h : ProxyRequest(p, h) => UNCHANGED <<groups, table, reset>>
      /\ UNCHANGED vars => UNCHANGED <<groups, table, reset>>
  BY Zenon DEF Open, MissSegment, Close, FlowDeleted, Sweep, QuicPacket, ProxyRequest, vars, table, flow
<1>9. QED BY <1>3, <1>4, <1>5, <1>6, <1>7, <1>8, Steps

(* A direct entry is made only for a program that is not promised the tunnel,    *)
(* and the reset takes the entry away.                                        *)
LEMMA NoDirectKept ==
    ASSUME NoDirect, Promise, Tables, Types, [Next]_vars
    PROVE  NoDirect'
<1>1. ASSUME NEW who \in Procs, reset.left > 0
      PROVE  Entry(who) # [to |-> "direct", proc |-> reset.proc]
  <2>1. Decide(groups, reset.proc, Server, learned(Server))
    BY <1>1, PromiseDecides
  <2>2. QED BY <1>1, <2>1 DEF Entry, NoDirect
<1>2. NoRoute # [to |-> "direct", proc |-> reset'.proc]
  BY DEF NoRoute
<1>3. ASSUME NEW who \in Procs, reset' = reset, route' \in {NoRoute, Entry(who)} PROVE NoDirect'
  BY <1>1, <1>2, <1>3 DEF NoDirect
<1>4. ASSUME NEW n \in 1 .. HelloLen, NEW who \in Procs, Packet(n, who) PROVE NoDirect'
  <2>1. PICK pos \in 0 .. HelloLen, after \in ConnRec :
           /\ Hosted(after) /\ (after = NoConn \/ after.state = "open")
           /\ Capture(conn, pos, n, who, after)
    BY <1>4, PacketCaptured
  <2>2. conn.state # "none"
    BY <1>4, PacketCaptured
  <2>3. (reset' = reset /\ route' \in {NoRoute, Entry(who)}) \/ route' = NoRoute
    BY <2>1, <2>2, CaptureDoes DEF Taught
  <2>4. CASE route' = NoRoute
    BY <1>2, <2>4 DEF NoDirect
  <2>5. QED BY <1>3, <2>3, <2>4
<1>5. ASSUME NEW who \in Procs, NEW h, NEW st, Open(who, h, st) PROVE NoDirect'
  BY <1>3, <1>5 DEF Open
<1>6. CASE FlowDeleted
  <2>1. route' = NoRoute
    BY <1>6 DEF FlowDeleted
  <2>2. QED BY <1>2, <2>1 DEF NoDirect
<1>7. CASE Tick
  <2>1. route' = route /\ reset' = IF reset.left <= 1 THEN NoReset ELSE [reset EXCEPT !.left = @ - 1]
    BY <1>7 DEF Tick
  <2>2. reset.left \in Nat /\ reset \in [proc : Procs \cup {Unknown}, left : Nat]
    BY DEF Promise
  <2>3. CASE reset.left <= 1
    BY <2>1, <2>3 DEF NoDirect, NoReset
  <2>4. CASE ~ (reset.left <= 1)
    <3>1. reset'.proc = reset.proc /\ reset.left > 0
      BY <2>1, <2>2, <2>4
    <3>2. QED BY <2>1, <3>1 DEF NoDirect
  <2>5. QED BY <2>3, <2>4
<1>8. ASSUME UNCHANGED <<route, reset>> PROVE NoDirect'
  BY <1>8 DEF NoDirect
<1>9. /\ \A hs, ttl : dnsLoop(hs, ttl) => UNCHANGED <<route, reset>>
      /\ \A i, a : ResolveBootstrap(i, a) => UNCHANGED <<route, reset>>
      /\ \A n : MissSegment(n) => UNCHANGED <<route, reset>>
      /\ Close \/ Sweep => UNCHANGED <<route, reset>>
      /\ \A p, a, aggressive : QuicPacket(p, a, aggressive) => UNCHANGED <<route, reset>>
      /\ \A p, h : ProxyRequest(p, h) => UNCHANGED <<route, reset>>
      /\ UNCHANGED vars => UNCHANGED <<route, reset>>
  BY Zenon DEF dnsLoop, ResolveBootstrap, MissSegment, Close, Sweep, QuicPacket, ProxyRequest, vars, flow
<1>10. QED BY <1>4, <1>5, <1>6, <1>7, <1>8, <1>9, Steps

----------------------------------------------------------------------------
(* QUIC.                                                                   *)

(* The two windows of an address follow from the time since its first drop.     *)
BlockAt(k) == IF k = 0 \/ k > QuicBlock THEN 0 ELSE QuicBlock - (k - 1)
CoolAt(k) == IF k = 0 THEN 0 ELSE QuicCool - (k - 1)

QuicWindows ==
    /\ firstQuic \in [IPs -> 0 .. QuicCool]
    /\ quic \in [IPs -> [block : Nat, cool : Nat]]
    /\ \A a \in IPs : quic[a].block = BlockAt(firstQuic[a]) /\ quic[a].cool = CoolAt(firstQuic[a])
    /\ reply.kind = "dropped" => reply.ip \in IPs

LEMMA QuicKept ==
    ASSUME QuicWindows, QuicDroppedBriefly, Types, [Next]_vars
    PROVE  QuicWindows' /\ QuicDroppedBriefly'
<1>1. QuicBlock \in Nat /\ QuicBlock >= 1 /\ QuicCool \in Nat /\ QuicBlock < QuicCool
  BY TimeAssumption
<1>2. ASSUME UNCHANGED <<quic, firstQuic, reply>> PROVE QuicWindows' /\ QuicDroppedBriefly'
  BY <1>2 DEF QuicWindows, QuicDroppedBriefly
<1>3. ASSUME NEW p \in Procs, NEW addr \in IPs, NEW aggressive \in BOOLEAN, QuicPacket(p, addr, aggressive)
      PROVE  QuicWindows' /\ QuicDroppedBriefly'
  <2> DEFINE k == firstQuic[addr]
             w == Windows(addr)
             tunnel == Decide(groups, p, addr, learned(addr))
             asks == aggressive /\ p # Unknown /\ ShouldSuppressQUIC(groups, p) /\ ~tunnel
             drop == asks /\ w.block > 0
  <2>1. /\ quic' = IF asks THEN [quic EXCEPT ![addr] = w] ELSE quic
        /\ firstQuic' = IF drop /\ k = 0 THEN [firstQuic EXCEPT ![addr] = 1] ELSE firstQuic
        /\ reply'.kind = (IF drop THEN "dropped" ELSE IF tunnel THEN "tunnel" ELSE "direct")
        /\ reply'.ip = addr
    BY <1>3 DEF QuicPacket
  <2>2. /\ k \in 0 .. QuicCool /\ quic[addr] \in [block : Nat, cool : Nat]
        /\ quic[addr].block = BlockAt(k) /\ quic[addr].cool = CoolAt(k)
    BY DEF QuicWindows
  <2> HIDE DEF asks, tunnel, k
  <2>3. w = IF k = 0 THEN [block |-> QuicBlock, cool |-> QuicCool] ELSE quic[addr]
    BY <1>1, <2>2 DEF Windows, CoolAt
  <2>4. w \in [block : Nat, cool : Nat]
    BY <1>1, <2>2, <2>3
  <2> DEFINE k1 == IF k = 0 THEN 1 ELSE k
  <2>5. w.block = BlockAt(k1) /\ w.cool = CoolAt(k1) /\ k1 \in 0 .. QuicCool /\ (k = 0 => w.block > 0)
    BY <1>1, <2>2, <2>3 DEF BlockAt, CoolAt
  <2> HIDE DEF w, k1
  <2>6. CASE asks
    <3>1. quic' = [quic EXCEPT ![addr] = w]
      BY <2>1, <2>6
    <3>2. firstQuic' = [firstQuic EXCEPT ![addr] = k1]
      <4>1. CASE k = 0
        BY <2>1, <2>5, <2>6, <4>1 DEF k1
      <4>2. CASE k # 0
        BY <2>1, <4>2 DEF k1, k, QuicWindows
      <4>3. QED BY <4>1, <4>2
    <3>3. QuicWindows'
      BY <2>1, <2>4, <2>5, <3>1, <3>2 DEF QuicWindows
    <3>4. w.block > 0 => k1 <= QuicBlock
      BY <1>1, <2>5 DEF BlockAt
    <3>5. firstQuic'[reply'.ip] = k1
      BY <2>1, <3>2 DEF QuicWindows
    <3>6. QuicDroppedBriefly'
      BY <2>1, <3>4, <3>5 DEF QuicDroppedBriefly
    <3>7. QED BY <3>3, <3>6
  <2>7. CASE ~ asks
    <3>1. quic' = quic /\ firstQuic' = firstQuic /\ reply'.kind # "dropped"
      BY <2>1, <2>7
    <3>2. QED BY <3>1 DEF QuicWindows, QuicDroppedBriefly
  <2>8. QED BY <2>6, <2>7
<1>4. CASE Tick
  <2>1. /\ quic' = [a \in IPs |-> [block |-> Less(quic[a].block), cool |-> Less(quic[a].cool)]]
        /\ firstQuic' = [a \in IPs |-> IF firstQuic[a] \in {0, QuicCool} THEN 0 ELSE firstQuic[a] + 1]
        /\ reply'.kind = "none"
    BY <1>4 DEF Tick, NoReply
  <2>2. ASSUME NEW a \in IPs
        PROVE  /\ firstQuic'[a] \in 0 .. QuicCool /\ quic'[a] \in [block : Nat, cool : Nat]
               /\ quic'[a].block = BlockAt(firstQuic'[a]) /\ quic'[a].cool = CoolAt(firstQuic'[a])
    <3> DEFINE k == firstQuic[a]
               k1 == IF k \in {0, QuicCool} THEN 0 ELSE k + 1
    <3>1. k \in 0 .. QuicCool /\ quic[a].block = BlockAt(k) /\ quic[a].cool = CoolAt(k)
            /\ quic[a].block \in Nat /\ quic[a].cool \in Nat
      BY DEF QuicWindows
    <3>2. firstQuic'[a] = k1 /\ quic'[a] = [block |-> Less(quic[a].block), cool |-> Less(quic[a].cool)]
      BY <2>1
    <3> HIDE DEF k
    <3>3. k1 \in 0 .. QuicCool
      BY <1>1, <3>1
    <3>4. Less(BlockAt(k)) = BlockAt(k1) /\ Less(CoolAt(k)) = CoolAt(k1)
      BY <1>1, <3>1 DEF Less, BlockAt, CoolAt
    <3>5. Less(quic[a].block) \in Nat /\ Less(quic[a].cool) \in Nat
      BY <3>1 DEF Less
    <3> HIDE DEF k1
    <3>6. QED BY <3>1, <3>2, <3>3, <3>4, <3>5
  <2>3. firstQuic' \in [IPs -> 0 .. QuicCool]
    BY <2>1, <2>2
  <2>4. quic' \in [IPs -> [block : Nat, cool : Nat]]
    BY <2>1, <2>2
  <2>5. QED BY <2>1, <2>2, <2>3, <2>4 DEF QuicWindows, QuicDroppedBriefly
<1>5. ASSUME NEW p \in Procs, NEW h \in Hosts, ProxyRequest(p, h) PROVE QuicWindows' /\ QuicDroppedBriefly'
  <2>1. quic' = quic /\ firstQuic' = firstQuic /\ reply'.kind # "dropped"
    BY <1>5 DEF ProxyRequest
  <2>2. QED BY <2>1 DEF QuicWindows, QuicDroppedBriefly
<1>6. ASSUME NEW n \in 1 .. HelloLen, NEW who \in Procs, Packet(n, who)
      PROVE  UNCHANGED <<quic, firstQuic, reply>>
  <2>1. PICK pos \in 0 .. HelloLen, after \in ConnRec :
           /\ Hosted(after) /\ (after = NoConn \/ after.state = "open")
           /\ Capture(conn, pos, n, who, after)
    BY <1>6, PacketCaptured
  <2>2. conn.state # "none"
    BY <1>6, PacketCaptured
  <2>3. QED BY <2>1, <2>2, CaptureDoes
<1>7. /\ \A hs, ttl : dnsLoop(hs, ttl) => UNCHANGED <<quic, firstQuic, reply>>
      /\ \A i, a : ResolveBootstrap(i, a) => UNCHANGED <<quic, firstQuic, reply>>
      /\ \A who, h, st : Open(who, h, st) => UNCHANGED <<quic, firstQuic, reply>>
      /\ \A n : MissSegment(n) => UNCHANGED <<quic, firstQuic, reply>>
      /\ Close \/ FlowDeleted \/ Sweep => UNCHANGED <<quic, firstQuic, reply>>
      /\ UNCHANGED vars => UNCHANGED <<quic, firstQuic, reply>>
  BY Zenon DEF dnsLoop, ResolveBootstrap, Open, MissSegment, Close, FlowDeleted, Sweep, vars, windows
<1>8. QED BY <1>2, <1>3, <1>4, <1>5, <1>6, <1>7, Steps

----------------------------------------------------------------------------
(* The ClientHello.                                                        *)

(* Of a connection that is watched for its name, or may be from its next packet  *)
(* on, the state of the stream holds everything sent so far, unless the name is   *)
(* known.                                                                   *)
Searched(e) == e.to = "direct" /\ e.proc # Unknown /\ NeedsTLSDiscovery(groups, e.proc)
Watched == conn.state = "open" /\ conn.clean /\ (route = NoRoute \/ Searched(route))

Holds(s, start, sent) ==
    /\ s.life > 0 /\ ~s.done /\ s.set /\ s.from = 0 /\ s.len = sent
    /\ s.next = (start + sent) % SeqMod

Collecting ==
    Watched => \/ conn.got
               \/ conn.sent = 0 /\ tls.life = 0
               \/ conn.sent \in 1 .. HelloLen - 1 /\ Holds(tls, conn.start, conn.sent)

LEMMA CollectingFinds == Collecting /\ Types => HelloFound
<1> SUFFICES ASSUME Collecting, Types, conn.sent = HelloLen, Watched
             PROVE  conn.got
  BY DEF HelloFound, Watched, Searched
<1>1. HelloLen \in Nat /\ HelloLen > 0
  BY StreamAssumption
<1>2. QED BY <1>1 DEF Collecting

(* Adding to a sequence number, with and without the wrap.                      *)
LEMMA SeqAdd ==
    ASSUME NEW x \in 0 .. SeqMod - 1, NEW d \in 0 .. SeqMod - 1
    PROVE  (x + d) % SeqMod = IF x + d < SeqMod THEN x + d ELSE x + d - SeqMod
BY StreamAssumption

(* FeedTLS for a state that holds the first sent bytes, and a segment that       *)
(* starts at or before its end and did not wrap: it holds the bytes up to the    *)
(* end of the segment, or it has the name.                                    *)
LEMMA FeedHolds ==
    ASSUME NEW s \in TlsRec, NEW start \in 0 .. SeqMod - 1, NEW sent \in 0 .. HelloLen - 1,
           NEW pos \in 0 .. sent, NEW n \in 1 .. HelloLen, pos + n <= HelloLen, NEW host \in Hosts,
           pos < sent => (start + pos) % SeqMod < (start + sent) % SeqMod,
           s.life > 0, ~s.done,
           IF sent = 0 THEN ~s.set /\ s.len = 0 ELSE Holds(s, start, sent),
           NEW t, t = Feed(s, (start + pos) % SeqMod, pos, n, host)
    PROVE  LET far == IF sent < pos + n THEN pos + n ELSE sent
           IN  \/ far < HelloLen /\ Holds(t, start, far)
               \/ t.done /\ t.name = host
<1> DEFINE far == IF sent < pos + n THEN pos + n ELSE sent
           seq == (start + pos) % SeqMod
           end == (start + sent) % SeqMod
           v == IF s.set THEN s ELSE [s EXCEPT !.set = TRUE, !.next = seq]
           over == Over(v, seq)
           at == (seq + over) % SeqMod
           gap == at # v.next
           from == IF gap \/ v.len = 0 THEN pos + over ELSE v.from
           len == (IF gap THEN 0 ELSE v.len) + n - over
           u == [v EXCEPT !.next = (at + n - over) % SeqMod, !.from = from, !.len = len]
<1>1. SeqMod \in Nat /\ HelloLen \in Nat /\ HelloLen < SeqMod /\ BufLimit \in Nat /\ HelloLen <= BufLimit
  BY StreamAssumption
<1>2. /\ seq = IF start + pos < SeqMod THEN start + pos ELSE start + pos - SeqMod
      /\ end = IF start + sent < SeqMod THEN start + sent ELSE start + sent - SeqMod
      /\ (start + far) % SeqMod = IF start + far < SeqMod THEN start + far ELSE start + far - SeqMod
  <2>1. pos \in 0 .. SeqMod - 1 /\ sent \in 0 .. SeqMod - 1 /\ far \in 0 .. SeqMod - 1
    BY <1>1
  <2> HIDE DEF far
  <2>2. QED BY <2>1, SeqAdd
<1>3. seq \in 0 .. SeqMod - 1 /\ end \in 0 .. SeqMod - 1
  BY <1>1, <1>2
<1>4. /\ v \in TlsRec /\ v.set /\ v.next = end /\ v.len = sent /\ ~v.done /\ v.life > 0
      /\ sent > 0 => v.from = 0
  <2>1. CASE sent = 0
    <3>1. ~s.set /\ s.len = 0 /\ pos = 0 /\ seq = end
      BY <2>1
    <3>2. v = [s EXCEPT !.set = TRUE, !.next = seq]
      BY <3>1
    <3> HIDE DEF seq, end, v
    <3>3. v = [[s EXCEPT !.set = TRUE] EXCEPT !.next = seq] /\ [s EXCEPT !.set = TRUE] \in TlsRec
      BY <3>2 DEF TlsRec
    <3>4. v \in TlsRec
      BY <1>3, <3>3 DEF TlsRec
    <3>5. v.set /\ v.next = seq /\ v.len = s.len /\ v.done = s.done /\ v.life = s.life
      BY <3>2 DEF TlsRec
    <3>6. QED BY <2>1, <3>1, <3>4, <3>5
  <2>2. CASE sent # 0
    <3>1. Holds(s, start, sent) /\ sent > 0
      BY <2>2
    <3>2. v = s
      BY <3>1 DEF Holds
    <3> HIDE DEF v
    <3>3. QED BY <3>1, <3>2 DEF Holds
  <2>3. QED BY <2>1, <2>2
<1> HIDE DEF v, seq, end
<1>5. over = sent - pos
  <2>1. pos = sent => seq = end
    BY DEF seq, end
  <2>2. pos < sent => seq < end
    BY DEF seq, end
  <2>3. over = IF seq < end THEN end - seq ELSE 0
    BY <1>4 DEF Over
  <2>4. seq <= end
    BY <1>3, <2>1, <2>2
  <2>5. end - seq = sent - pos
    BY <1>1, <1>2, <1>3, <2>1, <2>2, <2>4
  <2> HIDE DEF over
  <2>6. QED BY <1>3, <2>1, <2>2, <2>3, <2>5
<1> HIDE DEF over
<1>6. at = end
  <2>1. seq + over = end
    BY <1>1, <1>2, <1>3, <1>5, <1>4
  <2>2. QED BY <1>1, <1>3, <2>1
<1> HIDE DEF at
<1>7. ~gap
  BY <1>4, <1>6
<1> HIDE DEF gap
<1>8. t = IF over >= n THEN v
          ELSE IF len > BufLimit THEN Done(v, "")
          ELSE IF ServerName(from, len) = "more" THEN u
          ELSE Done(u, IF ServerName(from, len) = "hello" THEN host ELSE "")
  BY <1>7 DEF Feed, v, seq, over, at, gap, from, len, u
<1>9. CASE over >= n
  <2>1. far = sent /\ t = v /\ sent > 0
    BY <1>5, <1>8, <1>9
  <2>2. Holds(t, start, far)
    BY <1>4, <2>1 DEF Holds, end
  <2>3. far < HelloLen
    BY <1>1, <2>1
  <2>4. QED BY <2>2, <2>3
<1>10. CASE ~ (over >= n)
  <2>1. from = 0 /\ len = pos + n /\ far = pos + n
    BY <1>4, <1>5, <1>7, <1>10
  <2>2. (at + n - over) % SeqMod = (start + far) % SeqMod
    <3>1. at + n - over = end + (far - sent) /\ far - sent \in 0 .. SeqMod - 1
      BY <1>1, <1>3, <1>5, <1>6, <1>10, <2>1
    <3>2. (end + (far - sent)) % SeqMod =
             IF end + (far - sent) < SeqMod THEN end + (far - sent) ELSE end + (far - sent) - SeqMod
      BY <1>3, <3>1, SeqAdd
    <3>3. QED BY <1>1, <1>2, <1>3, <2>1, <3>1, <3>2
  <2> HIDE DEF from, len, far, u
  <2>3. ~ (len > BufLimit) /\ ~ (over >= n) /\ far <= HelloLen /\ far >= 1 /\ len = far /\ far \in Nat
    BY <1>1, <1>10, <2>1
  <2>4. ServerName(from, len) = IF len >= HelloLen THEN "hello" ELSE "more"
    BY <2>1, <2>3, <1>1 DEF ServerName
  <2>5. CASE far < HelloLen
    <3>1. ServerName(from, len) = "more"
      BY <1>1, <2>3, <2>4, <2>5
    <3> t = u
      BY <1>8, <2>3, <3>1, Zenon
    <3>2. Holds(u, start, far)
      BY <1>4, <2>1, <2>2, <2>3 DEF Holds, TlsRec, u
    <3>3. QED BY <2>5, <3>2 DEF far
  <2>6. CASE ~ (far < HelloLen)
    <3>1. ServerName(from, len) = "hello" /\ ServerName(from, len) # "more"
      BY <1>1, <2>3, <2>4, <2>6
    <3> t = Done(u, host)
      BY <1>8, <2>3, <3>1, Zenon
    <3>2. t.done /\ t.name = host
      BY DEF Done, NoState
    <3>3. QED BY <3>2
  <2>7. QED BY <2>5, <2>6
<1>11. QED BY <1>9, <1>10

(* A segment of an open connection, new or repeated without a wrap, is added to  *)
(* what the state holds.                                                    *)
LEMMA CaptureCollects ==
    ASSUME Types, Collecting, conn.state = "open", NEW pos \in 0 .. conn.sent, NEW n \in 1 .. HelloLen,
           pos + n <= HelloLen, NEW who \in Procs, NEW clear \in BOOLEAN,
           clear => conn.clean /\ (pos < conn.sent => ~Wrapped(conn, pos)),
           NEW far, far = IF conn.sent < pos + n THEN pos + n ELSE conn.sent,
           Capture(conn, pos, n, who, [conn EXCEPT !.sent = far, !.clean = clear])
    PROVE  Collecting'
<1> DEFINE after == [conn EXCEPT !.sent = far, !.clean = clear]
           first  == route = NoRoute
           e      == Entry(who)
           tunnel == e.to = "tunnel"
           fed    == ~tunnel /\ e.proc # Unknown /\ NeedsTLSDiscovery(groups, e.proc)
           s      == IF tls.life = 0 THEN NewState(TlsLife) ELSE tls
           t      == IF fed THEN Feed(s, (conn.start + pos) % SeqMod, pos, n, conn.host) ELSE tls
           found  == fed /\ t.done /\ t.name # ""
           gs     == NameGroups(groups, t.name)
           named  == found /\ gs # {} /\ DecideHost(groups, e.proc, t.name)
           closed == named \/ (tunnel /\ first)
           heard  == fed /\ t.done /\ t.name = conn.host
<1>1. /\ tls' = t /\ groups' = groups
      /\ route' = IF closed THEN NoRoute ELSE e
      /\ conn' = IF after = NoConn THEN NoConn
                 ELSE IF closed THEN Closed(after)
                 ELSE [after EXCEPT !.got = after.got \/ heard]
  BY DEF Capture
<1>2. /\ conn \in ConnRec /\ conn.host \in Hosts /\ conn.start \in 0 .. SeqMod - 1
      /\ conn.sent \in 0 .. HelloLen /\ conn.got \in BOOLEAN
      /\ tls \in TlsRec
  BY DEF Types, Hosted, ConnRec
<1>3. HelloLen \in Nat /\ SeqMod \in Nat /\ HelloLen < SeqMod /\ HelloLen > 0 /\ TlsLife \in Nat /\ TlsLife > 0
  BY StreamAssumption, TimeAssumption
<1>4. /\ after.got = conn.got /\ after.state = "open" /\ after.sent = far /\ after.clean = clear
      /\ after.start = conn.start /\ after.host = conn.host
      /\ "got" \in DOMAIN after
  BY <1>2 DEF ConnRec
<1> HIDE DEF after, tunnel, s, closed
<1> SUFFICES ASSUME Watched'
             PROVE  (\/ conn.got
                     \/ conn.sent = 0 /\ tls.life = 0
                     \/ conn.sent \in 1 .. HelloLen - 1 /\ Holds(tls, conn.start, conn.sent))'
  BY DEF Collecting
<1>5. conn'.state = "open" /\ conn'.clean /\ (route' = NoRoute \/ Searched(route'))
  BY <1>1 DEF Watched, Searched
<1>6. after # NoConn /\ Closed(after).state # "open"
  <2>1. NoConn.state # "open"
    BY DEF NoConn
  <2>2. after \in ConnRec
    <3>1. far \in 0 .. HelloLen
      BY <1>2, <1>3
    <3>2. QED BY <1>2, <3>1 DEF after, ConnRec
  <2>3. Closed(after).state # "open"
    BY <2>2 DEF Closed, ConnRec
  <2>4. QED BY <1>4, <2>1, <2>3
<1>7. ~closed
  <2> HIDE DEF heard
  <2>1. QED BY <1>1, <1>5, <1>6
<1>8. conn' = [after EXCEPT !.got = after.got \/ heard]
  <2> HIDE DEF heard
  <2>1. QED BY <1>1, <1>6, <1>7
<1>9. conn'.got = (conn.got \/ heard)
  <2> HIDE DEF heard
  <2>1. QED BY <1>4, <1>8
<1>10. conn'.sent = far /\ conn'.clean = clear /\ conn'.start = conn.start
  <2> HIDE DEF heard
  <2>1. QED BY <1>4, <1>8
<1>11. conn.clean /\ (pos < conn.sent => ~Wrapped(conn, pos)) /\ Searched(e)
  <2>1. clear
    BY <1>5, <1>10
  <2>2. e \in RouteRec
    BY EntryTyped
  <2>3. e # NoRoute
    BY <2>2 DEF RouteRec, NoRoute
  <2>4. route' = e
    BY <1>1, <1>7
  <2> HIDE DEF e
  <2>5. Searched(e)
    BY <1>5, <2>3, <2>4
  <2>6. QED BY <2>1, <2>5
<1>12. Watched /\ fed
  <2>1. route = NoRoute \/ route = e
    BY DEF Entry
  <2> HIDE DEF e
  <2>2. fed
    BY <1>11 DEF Searched, tunnel
  <2>3. QED BY <1>11, <2>1, <2>2 DEF Watched
<1>13. t = Feed(s, (conn.start + pos) % SeqMod, pos, n, conn.host)
  BY <1>12
<1>14. CASE conn.got
  BY <1>9, <1>14
<1>15. CASE ~ conn.got
  <2>1. \/ conn.sent = 0 /\ tls.life = 0
        \/ conn.sent \in 1 .. HelloLen - 1 /\ Holds(tls, conn.start, conn.sent)
    BY <1>12, <1>15 DEF Collecting
  <2>2. /\ s \in TlsRec /\ s.life > 0 /\ ~s.done /\ conn.sent \in 0 .. HelloLen - 1
        /\ IF conn.sent = 0 THEN ~s.set /\ s.len = 0 ELSE Holds(s, conn.start, conn.sent)
    <3>1. CASE conn.sent = 0 /\ tls.life = 0
      <4>1. s = NewState(TlsLife)
        BY <3>1 DEF s
      <4>2. NoState \in TlsRec
        BY <1>3 DEF NoState, TlsRec
      <4>3. NewState(TlsLife) \in TlsRec
        BY <1>3, <4>2 DEF NewState, TlsRec
      <4>4. NewState(TlsLife).life = TlsLife /\ NewState(TlsLife).len = 0
              /\ ~NewState(TlsLife).done /\ ~NewState(TlsLife).set
        BY DEF NewState, NoState
      <4>5. 0 \in 0 .. HelloLen - 1
        BY <1>3
      <4>6. QED BY <1>3, <3>1, <4>1, <4>3, <4>4, <4>5
    <3>2. CASE conn.sent \in 1 .. HelloLen - 1 /\ Holds(tls, conn.start, conn.sent)
      <4>1. tls.life > 0 /\ tls.life \in Nat /\ ~tls.done
        BY <1>2, <3>2 DEF Holds, TlsRec
      <4>2. s = tls
        BY <4>1 DEF s
      <4>3. conn.sent \in 0 .. HelloLen - 1 /\ conn.sent # 0
        BY <1>3, <3>2
      <4>4. QED BY <1>2, <3>2, <4>1, <4>2, <4>3
    <3>3. QED BY <2>1, <3>1, <3>2
  <2>3. pos < conn.sent => (conn.start + pos) % SeqMod < (conn.start + conn.sent) % SeqMod
    <3>1. (conn.start + pos) % SeqMod \in Int /\ (conn.start + conn.sent) % SeqMod \in Int
      BY <1>2, <1>3
    <3>2. QED BY <1>11, <3>1 DEF Wrapped
  <2> HIDE DEF t, s
  <2>4. \/ far < HelloLen /\ Holds(t, conn.start, far)
        \/ t.done /\ t.name = conn.host
    BY <1>2, <1>13, <2>2, <2>3, FeedHolds
  <2>5. far \in Nat /\ far >= 1
    BY <1>2, <1>3
  <2>6. CASE far < HelloLen /\ Holds(t, conn.start, far)
    <3>1. far \in 1 .. HelloLen - 1
      BY <1>3, <2>5, <2>6
    <3>2. QED BY <1>1, <1>10, <2>6, <3>1 DEF Holds
  <2>7. CASE t.done /\ t.name = conn.host
    BY <1>9, <1>12, <2>7
  <2>8. QED BY <2>4, <2>6, <2>7
<1>16. QED BY <1>14, <1>15

LEMMA CollectingKept ==
    ASSUME Collecting, Types, [Next]_vars
    PROVE  Collecting'
<1>1. /\ conn \in ConnRec /\ tls \in TlsRec /\ conn.sent \in 0 .. HelloLen /\ conn.clean \in BOOLEAN
      /\ conn.got \in BOOLEAN /\ tls.life \in Nat
  BY DEF Types, ConnRec, TlsRec
<1>2. HelloLen \in Nat
  BY StreamAssumption
<1>3. ASSUME NEW n \in 1 .. HelloLen, NEW who \in Procs, SendSegment(n, who) PROVE Collecting'
  <2>1. conn.state = "open" /\ conn.sent + n <= HelloLen
          /\ Capture(conn, conn.sent, n, who, [conn EXCEPT !.sent = conn.sent + n])
    BY <1>3 DEF SendSegment
  <2>2. [conn EXCEPT !.sent = conn.sent + n] = [conn EXCEPT !.sent = conn.sent + n, !.clean = conn.clean]
    BY <1>1 DEF ConnRec
  <2>3. conn.sent \in 0 .. conn.sent
          /\ conn.sent + n = IF conn.sent < conn.sent + n THEN conn.sent + n ELSE conn.sent
    BY <1>1, <1>2
  <2>4. ~ (conn.sent < conn.sent)
    BY <1>1, <1>2
  <2>5. Capture(conn, conn.sent, n, who, [conn EXCEPT !.sent = conn.sent + n, !.clean = conn.clean])
    BY <2>1, <2>2
  <2>6. QED BY <1>1, <2>1, <2>3, <2>4, <2>5, CaptureCollects
<1>4. ASSUME NEW pos \in 0 .. HelloLen, NEW n \in 1 .. HelloLen, NEW who \in Procs,
             Retransmit(pos, n, who)
      PROVE  Collecting'
  <2> DEFINE far == Max({conn.sent, pos + n})
             clear == conn.clean /\ ~Wrapped(conn, pos)
  <2>1. conn.state = "open" /\ pos < conn.sent /\ pos + n <= HelloLen
          /\ Capture(conn, pos, n, who, [conn EXCEPT !.sent = far, !.clean = clear])
    BY <1>4 DEF Retransmit
  <2>2. far = IF conn.sent < pos + n THEN pos + n ELSE conn.sent
    BY <1>1, <1>2, MaxOfTwo
  <2>3. pos \in 0 .. conn.sent
    BY <1>1, <1>2, <2>1
  <2>4. clear \in BOOLEAN /\ (clear => conn.clean /\ ~Wrapped(conn, pos))
    BY <1>1
  <2> HIDE DEF far, clear
  <2>5. QED BY <2>1, <2>2, <2>3, <2>4, CaptureCollects
<1>5. ASSUME NEW n \in 1 .. HelloLen, NEW who \in Procs, LatePacket(n, who) PROVE Collecting'
  <2>1. conn' = NoConn
    BY <1>5 DEF LatePacket, Capture
  <2>2. conn'.state # "open"
    BY <2>1 DEF NoConn
  <2>3. QED BY <2>2 DEF Collecting, Watched
<1>6. ASSUME NEW who, NEW h, NEW st, Open(who, h, st) PROVE Collecting'
  <2>1. conn'.sent = 0 /\ conn'.clean = (tls.life = 0) /\ tls' = tls
    BY <1>6 DEF Open
  <2>2. conn'.clean => tls'.life = 0
    BY <2>1
  <2>3. QED BY <2>1, <2>2 DEF Collecting, Watched
<1>7. ASSUME NEW n, MissSegment(n) PROVE Collecting'
  <2>1. conn' = [conn EXCEPT !.sent = conn.sent + n, !.clean = FALSE]
    BY <1>7 DEF MissSegment
  <2>2. ~ conn'.clean
    BY <1>1, <2>1, Zenon DEF ConnRec
  <2>3. QED BY <2>2 DEF Collecting, Watched
<1>8. CASE Close
  <2>1. conn' = Closed(conn)
    BY <1>8 DEF Close
  <2>2. conn'.state # "open"
    BY <1>1, <2>1 DEF Closed, ConnRec
  <2>3. QED BY <2>2 DEF Collecting, Watched
<1>9. CASE FlowDeleted
  <2> DEFINE clear == conn.sent = 0
  <2>1. tls' = NoState /\ conn' = IF conn.state = "open" THEN [conn EXCEPT !.clean = clear] ELSE conn
    BY <1>9 DEF FlowDeleted
  <2>2. NoState.life = 0
    BY DEF NoState
  <2> HIDE DEF clear
  <2>3. CASE conn.state = "open"
    <3>1. conn'.clean = clear /\ conn'.sent = conn.sent
      BY <1>1, <2>1, <2>3 DEF ConnRec
    <3>2. conn'.clean => conn'.sent = 0
      BY <3>1 DEF clear
    <3>3. QED BY <2>1, <2>2, <3>2 DEF Collecting, Watched
  <2>4. CASE conn.state # "open"
    BY <2>1, <2>4 DEF Collecting, Watched
  <2>5. QED BY <2>3, <2>4
<1>10. CASE Tick
  <2> DEFINE clear == conn.clean /\ ~(tls.life = 1 /\ ~tls.done)
  <2>1. tls' = [tls EXCEPT !.life = Less(tls.life)] /\ conn' = [conn EXCEPT !.clean = clear]
          /\ groups' = groups /\ route' = route
    BY <1>10 DEF Tick
  <2>2. SUFFICES ASSUME Watched'
                 PROVE  (\/ conn.got
                         \/ conn.sent = 0 /\ tls.life = 0
                         \/ conn.sent \in 1 .. HelloLen - 1 /\ Holds(tls, conn.start, conn.sent))'
    BY DEF Collecting
  <2> HIDE DEF clear
  <2>3. conn'.state = conn.state /\ conn'.got = conn.got
          /\ conn'.sent = conn.sent /\ conn'.start = conn.start /\ conn'.clean = clear
    BY <1>1, <2>1 DEF ConnRec
  <2>4. clear
    BY <2>2, <2>3 DEF Watched
  <2>5. Watched /\ ~(tls.life = 1 /\ ~tls.done)
    BY <2>1, <2>2, <2>3, <2>4 DEF Watched, Searched, clear
  <2>6. tls'.life = Less(tls.life) /\ tls'.done = tls.done /\ tls'.set = tls.set /\ tls'.from = tls.from
          /\ tls'.len = tls.len /\ tls'.next = tls.next
    BY <1>1, <2>1 DEF TlsRec
  <2>7. CASE conn.got
    BY <2>3, <2>7
  <2>8. CASE conn.sent = 0 /\ tls.life = 0
    BY <2>3, <2>6, <2>8 DEF Less
  <2>9. CASE conn.sent \in 1 .. HelloLen - 1 /\ Holds(tls, conn.start, conn.sent)
    <3>1. tls.life > 0 /\ ~tls.done
      BY <2>9 DEF Holds
    <3>2. Less(tls.life) > 0
      BY <1>1, <2>5, <3>1 DEF Less
    <3>3. QED BY <2>3, <2>6, <2>9, <3>2 DEF Holds
  <2>10. QED BY <2>5, <2>7, <2>8, <2>9 DEF Collecting
<1>11. CASE Sweep
  <2>1. tls.life = 0 /\ tls' = NoState /\ UNCHANGED <<conn, route, groups>>
    BY <1>11 DEF Sweep
  <2>2. NoState.life = 0
    BY DEF NoState
  <2>3. QED BY <2>1, <2>2 DEF Collecting, Watched, Searched, Holds
<1>12. ASSUME UNCHANGED <<conn, route, groups, tls>> PROVE Collecting'
  BY <1>12 DEF Collecting, Watched, Searched, Holds
<1>13. /\ \A hs, ttl : dnsLoop(hs, ttl) => UNCHANGED <<conn, route, groups, tls>>
       /\ \A i, a : ResolveBootstrap(i, a) => UNCHANGED <<conn, route, groups, tls>>
       /\ \A p, a, aggressive : QuicPacket(p, a, aggressive) => UNCHANGED <<conn, route, groups, tls>>
       /\ \A p, h : ProxyRequest(p, h) => UNCHANGED <<conn, route, groups, tls>>
       /\ UNCHANGED vars => UNCHANGED <<conn, route, groups, tls>>
  BY Zenon DEF dnsLoop, ResolveBootstrap, QuicPacket, ProxyRequest, vars, flow
<1>14. ASSUME NEW n \in 1 .. HelloLen, NEW who \in Procs, Packet(n, who) PROVE Collecting'
  BY <1>3, <1>4, <1>5, <1>14 DEF Packet
<1>15. QED BY <1>6, <1>7, <1>8, <1>9, <1>10, <1>11, <1>12, <1>13, <1>14, Steps

----------------------------------------------------------------------------
(* All of it.                                                              *)

IInv ==
    /\ LInv /\ Types /\ Promise /\ NoDirect /\ Collecting
    /\ QuicWindows /\ QuicDroppedBriefly

LEMMA InitInv == Init => IInv
<1> SUFFICES ASSUME Init PROVE IInv
  OBVIOUS
<1>1. PICK raw \in RawRules : groups = [i \in DOMAIN raw |-> NormalizeGroup(raw[i])]
  BY DEF Init
<1>2. RulesOK
  <2>1. SUFFICES ASSUME NEW i \in GroupIds
                 PROVE  /\ groups[i] \in GroupRec
                        /\ "" \notin groups[i].apps
                        /\ "*" \in groups[i].apps <=> AppsAll(groups[i])
                        /\ "*" \in groups[i].domains <=> DomainsAll(groups[i])
    BY DEF RulesOK
  <2>2. i \in DOMAIN raw /\ groups[i] = NormalizeGroup(raw[i])
    BY <1>1 DEF GroupIds
  <2>3. raw[i] \in GroupRec
    BY <2>2, RulesAssumption DEF GroupRec
  <2>4. groups[i] = [[raw[i] EXCEPT !.apps = Normalized(raw[i].apps)]
                       EXCEPT !.domains = Normalized(raw[i].domains)]
    BY <2>2 DEF NormalizeGroup
  <2>5. Normalized(raw[i].apps) \in SUBSET STRING /\ Normalized(raw[i].domains) \in SUBSET Patterns
    BY <2>3 DEF GroupRec, Normalized
  <2>6. groups[i] \in GroupRec /\ groups[i].apps = Normalized(raw[i].apps)
          /\ groups[i].domains = Normalized(raw[i].domains)
    BY <2>3, <2>4, <2>5 DEF GroupRec
  <2>7. ASSUME NEW list PROVE "" \notin Normalized(list)
                              /\ ("*" \in Normalized(list) <=> Normalized(list) = {"*"})
    BY DEF Normalized
  <2>8. QED BY <2>6, <2>7 DEF AppsAll, DomainsAll
<1>3. /\ ips = [a \in IPs |-> [i \in GroupIds |-> 0]]
      /\ known = [a \in IPs |-> [h \in Hosts |-> 0]]
      /\ seeds = [a \in IPs |-> [i \in GroupIds |-> 0]]
  BY DEF Init
<1>4. Tables
  <2>1. 0 \in 0 .. FiveMinutes
    BY TimeAssumption
  <2>2. QED BY <1>3, <2>1 DEF Tables
<1>5. Learned
  <2>1. \A a \in IPs : (\A i \in GroupIds : ips[a][i] = 0 /\ seeds[a][i] = 0)
                       /\ (\A h \in Hosts : known[a][h] = 0)
    BY <1>3
  <2>2. QED BY <2>1 DEF Learned
<1>6. /\ conn = NoConn /\ route = NoRoute /\ tls = NoState /\ reset = NoReset /\ reply = NoReply
      /\ quic = [a \in IPs |-> [block |-> 0, cool |-> 0]] /\ firstQuic = [a \in IPs |-> 0]
  BY DEF Init
<1>7. Types
  <2>1. NoConn.state # "open" /\ NoConn \in ConnRec /\ Hosted(NoConn)
    BY NoConnTyped DEF NoConn
  <2>2. 0 \in 0 .. SeqMod - 1
    BY StreamAssumption
  <2>3. NoState \in TlsRec
    BY <2>2 DEF NoState, TlsRec
  <2>4. QED BY <1>6, <2>1, <2>3 DEF Types
<1>8. Promise /\ NoDirect
  <2>1. NoReset \in [proc : Procs \cup {Unknown}, left : Nat] /\ ~ (NoReset.left > 0)
    BY DEF NoReset
  <2>2. QED BY <1>6, <2>1 DEF Promise, NoDirect
<1>9. Collecting
  <2>1. NoConn.state # "open"
    BY DEF NoConn
  <2>2. QED BY <1>6, <2>1 DEF Collecting, Watched
<1>10. reply.kind = "none"
  BY <1>6 DEF NoReply
<1>11. QuicWindows /\ QuicDroppedBriefly
  <2>1. 0 \in 0 .. QuicCool
    BY TimeAssumption
  <2>2. QED BY <1>6, <1>10, <2>1 DEF QuicWindows, QuicDroppedBriefly, BlockAt, CoolAt
<1>12. QED BY <1>2, <1>4, <1>5, <1>7, <1>8, <1>9, <1>11 DEF IInv, LInv

LEMMA StepInv == IInv /\ [Next]_vars => IInv'
<1> SUFFICES ASSUME IInv, [Next]_vars PROVE IInv'
  OBVIOUS
<1>1. LInv /\ Tables /\ Types /\ Promise /\ NoDirect /\ Collecting /\ QuicWindows
        /\ QuicDroppedBriefly
  BY DEF IInv, LInv
<1>2. LInv'
  BY <1>1, LearnedKept
<1>3. Types'
  BY <1>1, TypesKept
<1>4. Promise'
  BY <1>1, PromiseKept
<1>5. Collecting'
  BY <1>1, CollectingKept
<1>6. QuicWindows' /\ QuicDroppedBriefly'
  BY <1>1, QuicKept
<1>7. NoDirect'
  BY <1>1, NoDirectKept
<1>8. QED BY <1>2, <1>3, <1>4, <1>5, <1>6, <1>7 DEF IInv

LEMMA Invariance == Spec => []IInv
BY InitInv, StepInv, PTL DEF Spec

(* For all rules, programs, addresses and lifetimes: a packet is tunnelled        *)
(* exactly when some group selects its program and its destination, where an     *)
(* address belongs to a domain of a group while an observation of it, or the       *)
(* group's own bootstrap lookup, is alive, whatever order they came and expired    *)
(* in and whichever lookups failed; the shortcut without the process lookup        *)
(* agrees.  Decide, candidateSlices, ContainsGroup, AddGroups.                    *)
THEOREM RulesFollowed == Spec => []DecideFollowsRules
<1>1. IInv => DecideFollowsRules
  BY DecisionsFollow DEF IInv
<1>2. QED BY Invariance, <1>1, PTL

(* A ClientHello of any length that fits the buffer is read whatever way it was   *)
(* cut into segments and whatever was sent twice, for every initial sequence      *)
(* number, the wrap inside the ClientHello included, when the program that the     *)
(* sticky entry names has host rules; with the exemptions of HelloFound, among     *)
(* them a late FLOW_DELETED in mid-ClientHello.  FeedTLS, captureLoop, flowLoop.   *)
THEOREM HelloRead == Spec => []HelloFound
<1>1. IInv => HelloFound
  BY CollectingFinds DEF IInv
<1>2. QED BY Invariance, <1>1, PTL

(* After captureLoop resets a connection for its name, a connection attributed to  *)
(* the program it was reset for is tunnelled, and no direct entry of that program  *)
(* is made, until the name expires: whatever is learned and expires in between,    *)
(* and whatever late events and packets make of the sticky entry.                 *)
THEOREM ResetsDoNotRepeat == Spec => []ResetLeadsToTunnel
<1>1. IInv => ResetLeadsToTunnel
  BY PromiseTunnels DEF IInv, LInv
<1>2. QED BY Invariance, <1>1, PTL

(* For all lengths of the two windows of SuppressUnknownQUIC, QUIC is dropped in   *)
(* the first one only, counted from the first drop.                            *)
THEOREM QuicSuppressedOnce == Spec => []QuicDroppedBriefly
<1>1. IInv => QuicDroppedBriefly
  BY DEF IInv
<1>2. QED BY Invariance, <1>1, PTL
=============================================================================
