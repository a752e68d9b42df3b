SPECIFICATION FairSendSpec
CONSTANTS
    UrgentCap = 3
    BulkCap = 2
    urgentBurst = 2
    MaxSegments = 2
INVARIANT BulkWaitBounded
PROPERTIES LoopsReturn
