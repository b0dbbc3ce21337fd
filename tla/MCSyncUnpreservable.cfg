SPECIFICATION Spec
CONSTANTS
    Builds <- RecentBuild
    Mappings <- KeyedMappings
    Databases <- KeyedDatabases
    Taken <- Unrelated
    Children = {"none"}
    Objects <- IndexThenTable
    Interruptions = 0
    MaxCalls = 1
    MaxBackups = 3
INVARIANT UnpreservableIsNotCopied
CHECK_DEADLOCK FALSE
