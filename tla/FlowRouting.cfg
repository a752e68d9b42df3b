SPECIFICATION Spec
CONSTANTS
    Protos = {"tcp", "udp"}
    Globals = {FALSE, TRUE}
    MaxConns = 2
    MaxQueued = 2
    Worlds = {"calm", "idle", "reuse"}
INVARIANTS  HelloKept
PROPERTY DirectStaysDirect
