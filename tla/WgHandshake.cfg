SPECIFICATION FairSpec
CONSTANTS
    MaxAttempts = 4
    TimeoutsToSwitch = 2
    ChanCap = 1
    MaxCalls = 2
    MaxInFlight = 1
INVARIANT OneLivePathSuffices
PROPERTIES ImplementsExchange
