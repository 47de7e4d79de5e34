SPECIFICATION FairSpec
CONSTANTS
    c1 = c1
    c2 = c2
    l1 = l1
    x = x
    y = y
    spaced = spaced
    slashed = slashed
    numbered = numbered
    my = my
    my2 = my2
    my3 = my3
    my22 = my22
    my23 = my23
    Nothing = Nothing
    Candidates <- SlugCandidates
    MaxSuffix = 3
    EntityUris = {my2}
    Uris = {my, my2, my3, my22, my23}
    Creates = {c1, c2}
    Links = {l1}
    Names = {spaced, slashed, numbered}
    Comments = {x}
    LinkEnds <- OneLink
    MaxEntities = 1
    Faults = {"find", "probe", "update"}
INVARIANTS
    TypeOK
    AnswerCarriesTheName
    RepeatAddsNothing
    NoNeedlessSuffix
    FailsForAReason
    LinkedNodesExist
PROPERTIES
    CallsEnd
