SPECIFICATION QueriesSpec
CONSTANTS
    Reading <- ReadRequests
    Memory <- MemoryNames
    Order <- Names
    MaxTriples = 11
    MaxPage = 2
    MaxRelated = 1
    Request <- Meanwhile
    Stored <- StoredGraph
    Resolver <- NoResolver
    Unusable = {"no iri"}
    Blank = ""
    IriLabels = {"urn:n"}
    CallUris = {"call1"}
    Batch = 1
    MaxFaults = 1
    Declared = {"InformationElement", "Entity", "Decision", "Project",
        "type", "label", "identifier", "plainTextContent", "hasEntity", "uses",
        "decisionContext", "decisionOutcome", "decisionRationale", "decisionStatus",
        "alternative", "decisionAlternative", "belongsToProject", "subClassOf",
        "graphImportance", "tombstone"}
    OneValue = {"label"}
    TagsMatter = FALSE
    Scale = 226920
    NoIndexes = NoIndexes
    Unanswered = Unanswered
INVARIANTS
    QueriesTypeOK
    WalksAreComplete
    PagesMissNothing
    ObservationsShownWhole
CHECK_DEADLOCK FALSE
