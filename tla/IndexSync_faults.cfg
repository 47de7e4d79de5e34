SPECIFICATION Spec
CONSTANTS
    o1 = o1
    o2 = o2
    d1 = d1
    d2 = d2
    r1 = r1
    r2 = r2
    s1 = s1
    s2 = s2
    Observations = {o1}
    Decisions = {d1}
    Rebuilds = {r1, r2}
    Searches = {}
    NoThread = NoThread
    NoSnapshot = NoSnapshot
    Torn = Torn
    EmbeddingEnabled = TRUE
    Faults <- AllFaults
    MaxCrashes = 1
SYMMETRY Interchangeable
INVARIANTS
    TypeOK
    NoPhantomDecision
    LastRebuildCovers
    RebuildRepairs
    SemanticGapsWereReported
    SnapshotHasNoDuplicates
    AtMostTwoEntries
    LocksMatchThreads
PROPERTIES
    
    LexicalIsAProjection
