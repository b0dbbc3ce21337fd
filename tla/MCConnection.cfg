CONSTANTS
    r1 = r1
    r2 = r2
    r3 = r3
    t1 = t1
    t2 = t2
    Refs <- ThreeRefs
    Threads <- TwoThreads
    Main = t1
    MaxLeaks = 2
SPECIFICATION FairSpec
INVARIANTS
    TypeOK
    CountBalanced
    HeldIsOpen
    HeldIsConfigured
    ConfiguredOnce
    OpenCloseOnce
PROPERTIES
    OpenOnlyWhenNeeded
    DestroyedIsClosed
