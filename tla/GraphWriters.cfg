SPECIFICATION FairSpec
CONSTANTS
    Request <- MixedRequests
    Stored <- StoredDecisions
    Resolver <- NoResolver
    Unusable = {"no iri", "?"}
    Blank = ""
    IriLabels = {"urn:n"}
    CallUris = {"call1"}
    Batch = 2
    MaxFaults = 1
    Declared = {"InformationElement", "Entity", "Decision", "ToolCall", "CodeContainer", "CodeSymbol",
        "type", "label", "identifier", "plainTextContent", "hasEntity", "uses",
        "decisionContext", "decisionOutcome", "decisionRationale", "decisionStatus",
        "belongsToProject", "evidenceFor", "toolName", "toolArguments", "sessionId",
        "timestamp", "graphImportance", "tombstone", "codeLocation"}
    OneValue = {"label"}
    TagsMatter = FALSE
INVARIANTS
    TypeOK
    ProvenanceIsWhatWasWritten
    TombstonesOnlyOnSuperseded
PROPERTIES
    CallsTakeEffectAtOnce
    RankingSettles
CHECK_DEADLOCK FALSE
