SPECIFICATION Spec
CONSTANTS
    IPs = {"i1", "i2"}
    Server = "i1"
    Procs <- MCProcs
    RawRules <- MCRawRules
    Paths = {"path1", "path2"}
    Starts = {5}
    TTLs = {0, 3, 4, 5}
    MinTTL = 1
    Day = 4
    FiveMinutes = 2
    HalfHour = 2
    TlsLife = 1
    QuicBlock = 1
    QuicCool = 3
    MaxFacts = 2
    MaxOwed = 2
    SeqMod = 8
    HelloLen = 4
    BufLimit = 4
INVARIANTS
    DecideFollowsRules
    HelloFound
    ResetLeadsToTunnel
    QuicDroppedBriefly
