SPECIFICATION FairSpec
CONSTANTS
    Request <- PlainRequests
    Stored <- StoredDecisions
    Resolver <- NoResolver
    Unusable = {"no iri", "?"}
    Blank = ""
    IriLabels = {"urn:n"}
    CallUris = {"call1"}
    Batch = 1
    MaxFaults = 0
    Declared <- Ontology
    OneValue = {"label"}
    TagsMatter = TRUE
PROPERTIES
    RankingSettles
CHECK_DEADLOCK FALSE
