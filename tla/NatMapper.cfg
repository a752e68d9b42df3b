SPECIFICATION Spec
CONSTANTS
    l1 = l1  l2 = l2  l6 = l6  r1 = r1  r6 = r6  tun4 = tun4  none = none
    o1 = o1  o2 = o2  o3 = o3
    Locals <- MCLocals
    Remotes <- MCRemotes
    Family <- MCFamily
    TunnelOf <- MCTunnelOf
    NoTunnel = none
    Ports <- MCPorts
    AppPorts = {1, 2}
    Metas = {1, 2}
    Objects = {o1, o2, o3}
    FirstPort = 2
    LastPort = 3
    MaxTries = 2
    SweepAge = 1
INVARIANTS MapsAgree AnswersReachSender FailsOnlyWhenFull
PROPERTIES PortIsStable
