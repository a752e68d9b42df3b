---------------------------- MODULE MCDiscovery ----------------------------
(***************************************************************************)
(* A small machine: two addresses, a program installed twice under one name, *)
(* a client that cannot be attributed, and rule sets of two groups.          *)
(***************************************************************************)
EXTENDS Discovery

MCProcs == {[name |-> "n1", path |-> "path1"], [name |-> "n1", path |-> "path2"], Unknown}

Group(as, ds, ns) == [apps |-> as, domains |-> ds, networks |-> ns]
ByName == Group({"n1", ""}, {"root"}, {})
ByPath == Group({"path1", "n2"}, {"root", "*.root"}, {})
Everyone == Group({"n1", "*"}, {"*.root"}, {})
FullApp == Group({"path2"}, {"*", "root"}, {})
Network == Group({"*"}, {}, {"i2"})
MCRawRules == {<<ByName, ByPath>>, <<ByPath, ByName>>, <<Everyone, ByPath>>, <<FullApp, ByName>>,
               <<Network, Everyone>>}
=============================================================================
