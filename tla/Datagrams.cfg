CONSTANTS
    i1 = i1  i2 = i2
    Ids <- MCIds
    Lens = {5}
    HdrLens <- MCHdrLens
    FragHdr = 1
    Align = 2
    MinMTU = 4
    TunnelMTU = 5
    EntryLimits = {1, 2}
    MaxBytes = 7
    TTL = 0
    SeqMod = 8
    MaxSent = 2
    MaxFaults = 1
SYMMETRY Symm
SPECIFICATION Spec
INVARIANTS BytesExact PassedOnIntact ArrivesWhole SegmentsRebuildStream
CHECK_DEADLOCK FALSE
