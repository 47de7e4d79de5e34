SPECIFICATION FairSpec
CONSTANTS
    x1 = x1
    x2 = x2
    NoPath = NoPath
    Malformed = Malformed
    ConfigFiles <- MachineFiles
    Launches <- MachineLaunches
    Dirs = {"mine", "temp"}
    Caches = {"platform"}
    Docs = {x1, x2}
    Faults = {"mkdir", "open", "remove", "index", "rebuild", "bind", "update", "sync",
        "download", "load"}
    MaxUpgrades = 1
INVARIANTS
    TypeOK
    ReadyMeansComplete
    IndexGoesWithTheStore
PROPERTIES
    OnlyDriftLosesDocuments
    EphemeralLeavesTheRestAlone
    RebuiltStartServesTheGraph
    ExtractionSettles
