SPECIFICATION Spec
CONSTANTS
    StorageInfos <- MCStorageInfos
    DbInfos <- MCDbInfos
    SizeMod = 8
INVARIANTS
    TypeOK
    PointersStayValid
    ComputesDifference
CHECK_DEADLOCK FALSE
