SPECIFICATION QueriesSpec
CONSTANTS
    Reading <- OpenOne
    Memory <- MemoryNames
    Order <- Names
    MaxTriples = 12
    MaxPage = 2
    MaxRelated = 1
    Request <- Meanwhile
    Stored <- DeclaredGraph
    Resolver <- NoResolver
    Unusable = {"no iri"}
    Blank = ""
    IriLabels = {"urn:n"}
    CallUris = {"call1"}
    Batch = 1
    MaxFaults = 0
    Declared <- Ontology
    OneValue = {"label"}
    TagsMatter = FALSE
    Scale = 226920
    NoIndexes = NoIndexes
    Unanswered = Unanswered
INVARIANTS
    DecisionsShownWhole
CHECK_DEADLOCK FALSE
