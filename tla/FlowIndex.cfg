CONSTANTS
    Endpoints = {"e1", "e2"}
    Older = {"e1"}
    OwnerOf <- MCOwnerOf
    Keys <- MCKeys
    BindAddrs = {"a4", "any4", "any6"}
    Unspecified = {"any4", "any6"}
    Is6 = {"a6", "any6"}
    Worlds <- MCWorlds
    MaxNow = 1
    SweepAge = 0
SPECIFICATION Spec
INVARIANTS SocketsAgree IndexTellsTruth WakeUpNotLost
CHECK_DEADLOCK FALSE
