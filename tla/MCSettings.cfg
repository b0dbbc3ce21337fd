SPECIFICATION Spec
CONSTANTS
    SyncLevels = {1, 2}
    JournalModes = {1}
    LimitValues <- LimitsAndQuestion
    HardLimit = 2
    Udfs <- OverloadedUdfs
    Collations = {"c", "d"}
    Comparators = {"less"}
    Programs <- AnyTwo
    MaxStatements = 1
    MaxProxies = 3
INVARIANTS
    CallbacksAreLive
    ReopenRestoresSettings
