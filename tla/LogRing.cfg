SPECIFICATION LogFairSpec
CONSTANTS
    MaxBytes = 3
    EditLimit = 6
    MaxUnits = 10
    MaxWrite = 4
INVARIANTS WakeUpUnderway NoGapNoRepeat
PROPERTIES LogShown
