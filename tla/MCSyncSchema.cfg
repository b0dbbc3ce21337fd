SPECIFICATION Spec
CONSTANTS
    Builds <- AllBuilds
    Mappings <- KeyedMappings
    Databases <- KeyedDatabases
    Taken <- Unrelated
    Children = {"cascade", "restrict"}
    Objects <- IndexThenTables
    Interruptions = 1
    MaxCalls = 2
    MaxBackups = 3
INVARIANTS
    TypeOK
    ResultIsTrue
    SchemaIsAsSpecified
    DataSurvives
    OtherTablesUntouched
    NoBackupLeft
    IndexExists
CHECK_DEADLOCK FALSE
