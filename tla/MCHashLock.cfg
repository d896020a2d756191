SPECIFICATION FairSpec
CONSTANTS
    p1 = p1  p2 = p2  p3 = p3
    h1 = h1  h2 = h2
    e1 = e1  e2 = e2  e3 = e3
    None = None
    Proc <- MCProc
    Hash <- MCHash
    Entry <- MCEntry

INVARIANTS
    TypeOK
    MutualExclusion
    NoLeak
    OneEntryPerHash
PROPERTIES
    Served
    ImplementsKeyedMutex
