------------------------------- MODULE Policy -------------------------------
(***************************************************************************)
(* The split rules (internal/config, internal/policy) and the hosts the      *)
(* hostname proxy accepts (internal/browserproxy).  A rule set is a sequence *)
(* of groups [apps, domains, networks].  Of host names only their relation   *)
(* to a configured domain matters: "root" is the domain, "sub" a name below  *)
(* it, "other" neither; spelling is normalised before it gets here.          *)
(***************************************************************************)
EXTENDS Integers, Sequences

CONSTANT Paths    \* the program entries that hold a path separator

Hosts == {"root", "sub", "other"}
Patterns == {"root", "*.root", "*"}

\* An executable is selected by its name or by its full path; Process{} is unknown.
Unknown == [name |-> "", path |-> ""]

----------------------------------------------------------------------------
(* config.go.                                                               *)

\* normalizeApps, normalizeDomains: empty entries are dropped, and "*" replaces whatever
\* stands beside it.
Normalized(list) == IF "*" \in list THEN {"*"} ELSE list \ {""}
NormalizeGroup(g) == [g EXCEPT !.apps = Normalized(@), !.domains = Normalized(@)]

Validate(groups) ==
    /\ groups # <<>>
    /\ \A i \in DOMAIN groups : groups[i].apps # {} /\ groups[i].domains \cup groups[i].networks # {}

AppsAll(g) == g.apps = {"*"}
DomainsAll(g) == g.domains = {"*"}

\* A wildcard does not match the domain itself.
MatchDomainPattern(p, h) == CASE p = "*" -> TRUE [] p = "*.root" -> h = "sub" [] OTHER -> h = p
MatchesDomain(g, h) == \E p \in g.domains : MatchDomainPattern(p, h)

\* "*" is left out: the PAC must never catch everything.
ProxyDomainPatterns(groups) == (UNION {groups[i].domains : i \in DOMAIN groups}) \ {"*"}

----------------------------------------------------------------------------
(* policy.go.  learned is the set of group indices an address is known for.  *)

IsPath(app) == app \in Paths

\* compileApps, candidateSlices: the indices consulted for a process.
globalGroups(groups) == {i \in DOMAIN groups : AppsAll(groups[i])}
byName(groups, proc) == {i \in DOMAIN groups \ globalGroups(groups) :
                           \E a \in groups[i].apps : ~IsPath(a) /\ a = proc.name}
byPath(groups, proc) == {i \in DOMAIN groups \ globalGroups(groups) :
                           \E a \in groups[i].apps : IsPath(a) /\ a = proc.path}
Candidates(groups, proc) == globalGroups(groups) \cup byName(groups, proc) \cup byPath(groups, proc)

groupDestinationMatches(groups, i, dst, learned) ==
    \/ DomainsAll(groups[i])
    \/ dst \in groups[i].networks
    \/ i \in learned

Decide(groups, proc, dst, learned) ==
    \E i \in Candidates(groups, proc) : groupDestinationMatches(groups, i, dst, learned)

CouldTunnelWithoutProcess(groups, dst, learned) ==
    \E i \in globalGroups(groups) : groupDestinationMatches(groups, i, dst, learned)

\* decideHostIDs skips groups for every destination: a program that has one is DIRECT for the
\* proxy unless another group names the host for it, although README_RU.md sends "ChatGPT.exe +
\* any address" (in Russian) to WireGuard.
DecideHost(groups, proc, host) ==
    \E i \in Candidates(groups, proc) : ~DomainsAll(groups[i]) /\ MatchesDomain(groups[i], host)

HostRestricted(g) == ~DomainsAll(g) /\ g.domains # {}
NeedsTLSDiscovery(groups, proc) == \E i \in Candidates(groups, proc) : HostRestricted(groups[i])

\* Only programs that are named, not Apps = *.
ShouldSuppressQUIC(groups, proc) ==
    \E i \in byName(groups, proc) \cup byPath(groups, proc) : HostRestricted(groups[i])

\* NameGroups of the domain tracker: every group, since each may have its own programs.
NameGroupsFirst(groups, h) ==
    LET all == {i \in DOMAIN groups : ~DomainsAll(groups[i]) /\ MatchesDomain(groups[i], h)}
    IN  {i \in all : \A j \in all : i <= j}
NameGroups(groups, h) == {i \in DOMAIN groups : ~DomainsAll(groups[i]) /\ MatchesDomain(groups[i], h)}

----------------------------------------------------------------------------
(* browserproxy: what the PAC sends to the proxy, the proxy looks at again.   *)

matchesHost(groups, h) == \E p \in ProxyDomainPatterns(groups) : MatchDomainPattern(p, h)
=============================================================================
