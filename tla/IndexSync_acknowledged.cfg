SPECIFICATION Spec
CONSTANTS
    o1 = o1
    o2 = o2
    d1 = d1
    d2 = d2
    r1 = r1
    r2 = r2
    s1 = s1
    s2 = s2
    Observations = {o1}
    Decisions = {}
    Rebuilds = {r1}
    Searches = {}
    NoThread = NoThread
    NoSnapshot = NoSnapshot
    Torn = Torn
    EmbeddingEnabled = TRUE
    Faults = {}
    MaxCrashes = 0
INVARIANT
    AcknowledgedIsSearchable
