SPECIFICATION Spec
CONSTANTS
    Builds <- RecentBuild
    Mappings <- KeyedMappings
    Databases <- KeyedDatabases
    Taken <- Unrelated
    Children = {"cascade"}
    Objects <- IndexThenTable
    Interruptions = 0
    MaxCalls = 1
    MaxBackups = 3
PROPERTY ChildrenSurvive
CHECK_DEADLOCK FALSE
