SPECIFICATION FairSpec
CONSTANTS
    Readers = {"r0"}
    Worlds <- MCWorlds
INVARIANTS KeysOpenWhileHeld NeverStalls TableBounded
PROPERTIES FreshNeverReplaced CloseEnds
