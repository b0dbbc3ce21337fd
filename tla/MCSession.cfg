SPECIFICATION FairSpec
CONSTANTS
    s1 = s1
    v1 = v1
    g1 = g1
    g2 = g2
    i1 = i1
    i2 = i2
    Stmts <- OneStatement
    Views <- OneView
    Guards <- TwoGuards
    Iters <- TwoIterators
    Pinned = FALSE
    Chances <- EveryChance
    MaxOwed = 2
    MaxWrites = 2
INVARIANTS
    TypeOK
    CountBalanced
    TransactionKeepsConnection
    ObjectsKeepConnection
    ObjectsSeeSettings
    ArmedGuardHasTransaction
    ClosedWhenNotNeeded
    NeverTerminates
PROPERTIES
    SpentGuardIsInert
    GuardRollsBack
    GuardEndsTransaction
