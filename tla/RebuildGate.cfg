SPECIFICATION FairSpec
CONSTANTS
    p1 = p1
    p2 = p2
    t1 = t1
    t2 = t2
    q1 = q1
    q2 = q2
    Posts = {p1, p2}
    Tools = {t1, t2}
    Probes = {q1}
    NoThread = NoThread
    Workers = 1
    MayPanic = TRUE
INVARIANTS
    TypeOK
PROPERTIES
    AcceptedOnlyWhenIdle
    RebuildsAreSerial
    EveryRequestEnds
